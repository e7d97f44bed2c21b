------------------------- MODULE MCFactVerification --------------------------
EXTENDS FactVerification, TLC

CONSTANTS idCard, bareCard, payStub, tinyStub

\* An identity document, one whose address was not found, a pay stub, and one
\* whose yearly income rounds to nothing.  Values are numbers, so that TLC can
\* compare them.
SampleFacts ==
  idCard :> [SYNTHETIC_ID |-> 1, STREET_ADDRESS |-> 1, CITY |-> 1]
  @@ bareCard :> [SYNTHETIC_ID |-> 2]
  @@ payStub :> [EMPLOYER_NAME |-> 1, GROSS_MONTHLY_INCOME |-> 1000]
  @@ tinyStub :> [EMPLOYER_NAME |-> 2, GROSS_MONTHLY_INCOME |-> 4]

Kyc(status, dob, name, address) ==
  [status |-> status, date_of_birth_match |-> dob,
   name_match_score |-> name, address_match_score |-> address]

SampleKyc ==
  {Kyc("PASS", TRUE, 80, 80), Kyc("PASS", TRUE, 100, 79)}

Employer(confirmed, income) ==
  [is_employment_confirmed |-> confirmed, verified_annual_income |-> income]

\* The declared income of the pay stub is 120: both edges of the tolerated band,
\* and one dollar beyond.
SampleEmployer ==
  {Employer(TRUE, 144), Employer(TRUE, 145), Employer(TRUE, 95)}
==============================================================================
