------------------------------ MODULE LoanTerms ------------------------------
(***************************************************************************)
(* Amounts of money and the catalogue check of a loan product              *)
(* (src/finassist/domain/shared/money.py, domain/applications/product.py). *)
(* A module of constants.  A Decimal is counted in thousandths of the      *)
(* currency, one digit more than its minor unit has, so that halves of a   *)
(* minor unit can be said; an amount of Money is counted in minor units.   *)
(***************************************************************************)
EXTENDS Integers

CONSTANTS
  ColumnLimit,  \* the least amount NUMERIC(18, 2) cannot hold
  DecimalLimit  \* the least amount with more digits than a Decimal may have

ASSUME LimitsAssumption == ColumnLimit \in Nat /\ DecimalLimit \in Nat

_SUPPORTED_CURRENCIES == {"USD", "EUR"}

_MINOR_UNIT_EXPONENTS == [USD |-> 2, EUR |-> 2]

\* Thousandths in one minor unit of the currency, by its number of decimals.
MinorUnit(currency) == <<100, 10, 1>>[_MINOR_UNIT_EXPONENTS[currency]]

\* Mutant: ROUND_HALF_UP.
quantize_half_up(x, unit) == (2 * x + unit) \div (2 * unit)

\* Decimal.quantize with ROUND_HALF_EVEN, for amounts of either sign.
quantize(x, unit) ==
  LET q == x \div unit
      r == x % unit
  IN IF 2 * r < unit \/ (2 * r = unit /\ q % 2 = 0) THEN q ELSE q + 1

\* Money.of does not raise: the currency is a supported one and the rounded
\* amount has no more digits than the Decimal context allows.
Representable(x, currency) ==
  /\ currency \in _SUPPORTED_CURRENCIES
  /\ quantize(x, MinorUnit(currency)) < DecimalLimit

\* Money.of
Money(x, currency) ==
  [amount |-> quantize(x, MinorUnit(currency)), currency |-> currency]

\* What Product.__post_init__ and the constraints of applications.products
\* demand of a row.
IsProduct(p) ==
  /\ p.currency \in _SUPPORTED_CURRENCIES
  /\ {p.min_amount, p.max_amount, p.min_term_months, p.max_term_months} \subseteq Int
  /\ 0 < p.min_amount /\ p.min_amount <= p.max_amount
  /\ p.max_amount < ColumnLimit
  /\ 1 <= p.min_term_months /\ p.min_term_months <= p.max_term_months
  /\ p.is_active \in BOOLEAN

\* Product.accepts.  The bounds are in the product's currency, which the amount
\* has by the time they are compared.
accepts(p, m, term_months) ==
  /\ p.is_active
  /\ m.currency = p.currency
  /\ p.min_amount <= m.amount /\ m.amount <= p.max_amount
  /\ p.min_term_months <= term_months /\ term_months <= p.max_term_months

\* The NUMERIC(18, 2) column and the CHECK constraints of
\* applications.applications take the row.
Storable(m, term_months) ==
  /\ 0 < m.amount /\ m.amount < ColumnLimit
  /\ 1 <= term_months

\* What rounding half to even means, said without an algorithm: no other number
\* of units is nearer to x, and of two that are equally near the even one.
IsNearestEven(x, unit, q) ==
  LET off == IF unit * q < x THEN x - unit * q ELSE unit * q - x
  IN 2 * off <= unit /\ (2 * off = unit => q % 2 = 0)
==============================================================================
