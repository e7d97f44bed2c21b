---------------------------- MODULE MCUnitOfWork -----------------------------
EXTENDS UnitOfWork
==============================================================================
