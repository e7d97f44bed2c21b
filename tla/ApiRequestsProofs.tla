-------------------------- MODULE ApiRequestsProofs --------------------------
(***************************************************************************)
(* What a client finds on file is what it asked for, rounded and within    *)
(* the bounds of its product, and what it was told is so, for any clients, *)
(* requests and catalogue.                                                 *)
(***************************************************************************)
EXTENDS ApiRequests, TLAPS

-----------------------------------------------------------------------------
(* Rounding half to even, and what it means for the bounds of a product    *)

\* Division with remainder, as quantize uses it.
LEMMA Division ==
  ASSUME NEW x \in Int, NEW unit \in Nat \ {0}
  PROVE  /\ x \div unit \in Int
         /\ x % unit \in Int /\ 0 <= x % unit /\ x % unit < unit
         /\ x % unit = x - unit * (x \div unit)
OBVIOUS

\* quantize rounds to the nearest number of units, and half a unit to the even
\* one (Money.__post_init__).
THEOREM RoundsHalfEven ==
  ASSUME NEW x \in Int, NEW unit \in Nat \ {0}
  PROVE  /\ quantize(x, unit) \in Int
         /\ IsNearestEven(x, unit, quantize(x, unit))
<1> DEFINE q == x \div unit
           r == x % unit
<1>1. /\ q \in Int /\ r \in Int /\ 0 <= r /\ r < unit
      /\ r = x - unit * q
  BY Division
<1>2. unit * (q + 1) = unit * q + unit
  BY <1>1
<1>3. quantize(x, unit) =
        IF 2 * r < unit \/ (2 * r = unit /\ q % 2 = 0) THEN q ELSE q + 1
  BY DEF quantize
<1> HIDE DEF q, r
<1>4. PICK p \in Int : p = unit * q
  BY <1>1
<1>5. CASE 2 * r < unit \/ (2 * r = unit /\ q % 2 = 0)
  <2>1. quantize(x, unit) = q
    BY <1>3, <1>5
  <2> QED BY <1>1, <1>4, <1>5, <2>1 DEF IsNearestEven
<1>6. CASE ~(2 * r < unit \/ (2 * r = unit /\ q % 2 = 0))
  <2>1. quantize(x, unit) = q + 1
    BY <1>3, <1>6
  <2>2. q % 2 # 0 => (q + 1) % 2 = 0
    BY <1>1
  <2> QED BY <1>1, <1>2, <1>4, <1>6, <2>1, <2>2 DEF IsNearestEven
<1> QED BY <1>5, <1>6

\* An amount between two whole numbers of units is rounded to one between them:
\* rounding does not carry a request out of the bounds of its product.
THEOREM BoundsSurviveRounding ==
  ASSUME NEW x \in Int, NEW unit \in Nat \ {0}, NEW lo \in Int, NEW hi \in Int,
         unit * lo <= x, x <= unit * hi
  PROVE  lo <= quantize(x, unit) /\ quantize(x, unit) <= hi
<1> DEFINE q == x \div unit
           r == x % unit
<1>1. /\ q \in Int /\ r \in Int /\ 0 <= r /\ r < unit
      /\ r = x - unit * q
  BY Division
<1>2. quantize(x, unit) =
        IF 2 * r < unit \/ (2 * r = unit /\ q % 2 = 0) THEN q ELSE q + 1
  BY DEF quantize
<1> HIDE DEF q, r
<1>3. lo <= q
  <2> SUFFICES ASSUME q + 1 <= lo PROVE FALSE
    BY <1>1
  <2>1. unit * (q + 1) <= unit * lo
    BY <1>1
  <2>2. unit * (q + 1) = unit * q + unit
    BY <1>1
  <2> QED BY <1>1, <2>1, <2>2
<1>4. q <= hi /\ (r > 0 => q + 1 <= hi)
  <2>1. ASSUME hi <= q - 1 PROVE FALSE
    <3>1. unit * hi <= unit * (q - 1)
      BY <1>1, <2>1
    <3>2. unit * (q - 1) = unit * q - unit
      BY <1>1
    <3> QED BY <1>1, <3>1, <3>2
  <2>2. ASSUME hi = q, r > 0 PROVE FALSE
    BY <1>1, <2>2
  <2> QED BY <1>1, <2>1, <2>2
<1> QED BY <1>1, <1>2, <1>3, <1>4

\* A request that a product accepts can be stored: it is positive, fits the
\* column and has a term (ck_application_amount_positive and its neighbours).
THEOREM AcceptedIsStorable ==
  ASSUME NEW p, IsProduct(p), NEW m, m.amount \in Int, NEW term_months \in Int,
         accepts(p, m, term_months)
  PROVE  Storable(m, term_months)
BY LimitsAssumption DEF IsProduct, accepts, Storable

\* The unit Money rounds to.
LEMMA MinorUnitType ==
  ASSUME NEW currency \in _SUPPORTED_CURRENCIES
  PROVE  MinorUnit(currency) \in Nat \ {0}
BY DEF MinorUnit, _SUPPORTED_CURRENCIES, _MINOR_UNIT_EXPONENTS

-----------------------------------------------------------------------------
(* What a client finds on file                                             *)

Places == {"unsent", "network", "reserve", "body", "commit", "start", "answer",
           "answered", "lost"}
Answer ==
  [status : Nat,
   code : {"none", "application_not_found", "product_not_found",
           "duplicate_request", "concurrency_conflict",
           "illegal_state_transition", "no_active_workflow",
           "product_rejected_request", "invalid_application_data",
           "request_validation_failed", "internal_server_error",
           "request_body_too_large"}]

\* The records of attempts and of the rows that exist.
AttemptType ==
  [pc : Places, status : {"none", "ABSENT", "DRAFT"},
   genesis : BOOLEAN, committed : BOOLEAN,
   answer : Answer]
RowType ==
  [status : {"DRAFT", "SUBMITTED"}, submitted_by : Clients \cup {"none"},
   requested : [amount : Int, currency : _SUPPORTED_CURRENCIES],
   term_months : Int]

ShapeInv ==
  /\ attempt \in [Attempts -> AttemptType]
  /\ rows \in [Clients -> RowType \cup {NoRow}]
  /\ product \in Catalog
  /\ \A c \in Clients : request[c] \in Requests[c]

Creates(a) == Req(a).operation = "create_application"
Terms(a) == Money(Req(a).requested_amount, Req(a).currency)

\* What an attempt has been found to ask for by the time it gets somewhere.
Admitted(a) ==
  /\ Creates(a) /\ attempt[a].pc \in {"reserve", "body", "commit"} =>
       Req(a).currency \in _SUPPORTED_CURRENCIES
  /\ Creates(a) /\ attempt[a].pc = "commit" =>
       accepts(product, Terms(a), Req(a).requested_term_months)
  /\ ~Creates(a) /\ attempt[a].pc = "commit" => attempt[a].status = "DRAFT"

\* The inductive invariant.
AmountsInv ==
  /\ ShapeInv
  /\ \A a \in Attempts : Admitted(a)
  /\ AmountsWithinCatalog

LEMMA ClientOfAttempt ==
  ASSUME NEW a \in Attempts
  PROVE  Client(a) \in Clients
BY DEF Attempts, Client

\* Every exception becomes an answer.
LEMMA ProblemType ==
  ASSUME NEW exc
  PROVE  _problem_response(exc) \in Answer
<1> DEFINE T == _DOMAIN_EXCEPTION_STATUS
<1>2. /\ T.ApplicationNotFoundError \in Answer
      /\ T.ProductNotFoundError \in Answer
      /\ T.DuplicateRequestError \in Answer
      /\ T.ConcurrencyConflictError \in Answer
      /\ T.IllegalStateTransitionError \in Answer
      /\ T.NoActiveWorkflowError \in Answer
      /\ T.ProductRejectedRequestError \in Answer
      /\ T.InvalidApplicationDataError \in Answer
  BY DEF _DOMAIN_EXCEPTION_STATUS, Problem, Answer
<1>3. DOMAIN T = {"ApplicationNotFoundError", "ProductNotFoundError",
                  "DuplicateRequestError", "ConcurrencyConflictError",
                  "IllegalStateTransitionError", "NoActiveWorkflowError",
                  "ProductRejectedRequestError", "InvalidApplicationDataError"}
  BY DEF _DOMAIN_EXCEPTION_STATUS
<1>4. exc \in DOMAIN T => T[exc] \in Answer
  BY <1>2, <1>3
<1>5. /\ Problem(422, "request_validation_failed") \in Answer
      /\ Problem(500, "internal_server_error") \in Answer
  BY DEF Problem, Answer
<1> HIDE DEF T
<1> QED BY <1>4, <1>5 DEF _problem_response, T

\* A step that writes no application and changes one attempt keeps the
\* invariant, if it keeps that attempt admitted.
LEMMA AttemptStep ==
  ASSUME AmountsInv, UNCHANGED <<request, product, rows>>,
         NEW a \in Attempts, NEW new \in AttemptType,
         attempt' = [attempt EXCEPT ![a] = new],
         Admitted(a)'
  PROVE  AmountsInv'
<1>1. ShapeInv'
  BY DEF AmountsInv, ShapeInv
<1>2. \A b \in Attempts : b # a => Admitted(b)'
  BY DEF AmountsInv, ShapeInv, Admitted, Creates, Terms, Req
<1>3. AmountsWithinCatalog'
  BY DEF AmountsInv, AmountsWithinCatalog
<1> QED BY <1>1, <1>2, <1>3 DEF AmountsInv

\* An answer ends an attempt's claim on the database.
LEMMA RespondStep ==
  ASSUME AmountsInv, UNCHANGED <<request, product, rows>>,
         NEW a \in Attempts, NEW answer \in Answer,
         Respond(a, answer)
  PROVE  AmountsInv'
<1> DEFINE new == [attempt[a] EXCEPT !.pc = "answer", !.status = "none",
                                     !.genesis = FALSE, !.answer = answer]
<1>0. attempt[a] \in AttemptType /\ attempt \in [Attempts -> AttemptType]
  BY DEF AmountsInv, ShapeInv
<1>1. new \in AttemptType /\ new.pc = "answer"
  BY <1>0 DEF AttemptType, Places
<1>2. attempt' = [attempt EXCEPT ![a] = new]
  BY DEF Respond
<1>3. attempt'[a].pc = "answer"
  BY <1>0, <1>1, <1>2
<1>4. Admitted(a)'
  BY <1>3 DEF Admitted
<1> HIDE DEF new
<1> QED BY <1>1, <1>2, <1>4, AttemptStep

LEMMA RaiseStep ==
  ASSUME AmountsInv, UNCHANGED <<request, product, rows>>,
         NEW a \in Attempts, NEW exc, Raise(a, exc)
  PROVE  AmountsInv'
BY ProblemType, RespondStep DEF Raise

\* Moving on to a place for which the attempt is admitted.
LEMMA GotoStep ==
  ASSUME AmountsInv, UNCHANGED <<request, product, rows>>,
         NEW a \in Attempts, NEW pc \in Places, Goto(a, pc),
         pc # "commit",
         Creates(a) /\ pc \in {"reserve", "body"} =>
           Req(a).currency \in _SUPPORTED_CURRENCIES
  PROVE  AmountsInv'
<1> DEFINE new == [attempt[a] EXCEPT !.pc = pc]
<1>0. attempt[a] \in AttemptType /\ attempt \in [Attempts -> AttemptType]
  BY DEF AmountsInv, ShapeInv
<1>1. new \in AttemptType /\ new.pc = pc
  BY <1>0 DEF AttemptType, Places
<1>2. attempt' = [attempt EXCEPT ![a] = new]
  BY DEF Goto
<1>3. attempt'[a].pc = pc
  BY <1>0, <1>1, <1>2
<1>4. Admitted(a)'
  BY <1>3 DEF Admitted, Creates, Req
<1> HIDE DEF new
<1> QED BY <1>1, <1>2, <1>4, AttemptStep

-----------------------------------------------------------------------------
(* The steps                                                               *)

\* A fresh attempt, or one that got lost.
LEMMA ResetStep ==
  ASSUME AmountsInv, UNCHANGED <<request, product, rows>>, NEW a \in Attempts,
         NEW pc \in {"network", "lost"},
         attempt' = [attempt EXCEPT ![a] = [Unsent EXCEPT !.pc = pc]]
  PROVE  AmountsInv'
<1> DEFINE new == [Unsent EXCEPT !.pc = pc]
<1>1. new \in AttemptType /\ new.pc = pc
  BY DEF Unsent, NoAnswer, AttemptType, Places, Answer
<1>2. attempt' = [attempt EXCEPT ![a] = new]
  OBVIOUS
<1> HIDE DEF new
<1>3. attempt'[a].pc = pc
  BY <1>1, <1>2 DEF AmountsInv, ShapeInv
<1>4. Admitted(a)'
  BY <1>3 DEF Admitted
<1> QED BY <1>1, <1>2, <1>4, AttemptStep

LEMMA ReceiveStep ==
  ASSUME AmountsInv, NEW a \in Attempts, Receive(a)
  PROVE  AmountsInv'
<1> UNCHANGED <<request, product, rows>>
  BY DEF Receive
<1>1. CASE TooLarge(Req(a))
  <2>1. Problem(413, "request_body_too_large") \in Answer
    BY DEF Problem, Answer
  <2> QED BY <1>1, <2>1, RespondStep DEF Receive
<1>2. CASE ~TooLarge(Req(a)) /\ ~Valid(Req(a))
  BY <1>2, RaiseStep DEF Receive
<1>3. CASE ~TooLarge(Req(a)) /\ Valid(Req(a)) /\ ~Wellformed(Req(a))
  BY <1>3, RaiseStep DEF Receive
<1>4. CASE ~TooLarge(Req(a)) /\ Valid(Req(a)) /\ Wellformed(Req(a))
  <2>1. Goto(a, "reserve")
    BY <1>4 DEF Receive
  <2>2. Creates(a) => Req(a).currency \in _SUPPORTED_CURRENCIES
    BY <1>4 DEF Wellformed, Representable, Creates
  <2>3. "reserve" \in Places
    BY DEF Places
  <2> QED BY <2>1, <2>2, <2>3, GotoStep
<1> QED BY <1>1, <1>2, <1>3, <1>4

LEMMA ReserveStep ==
  ASSUME AmountsInv, NEW a \in Attempts, Reserve(a)
  PROVE  AmountsInv'
<1> UNCHANGED <<request, product, rows>>
  BY DEF Reserve
<1>1. CASE Client(a) \in keys
  BY <1>1, RaiseStep DEF Reserve
<1>2. CASE Client(a) \notin keys
  <2>1. Goto(a, "body") /\ attempt[a].pc = "reserve"
    BY <1>2 DEF Reserve
  <2>2. Creates(a) => Req(a).currency \in _SUPPORTED_CURRENCIES
    BY <2>1 DEF AmountsInv, Admitted
  <2>3. "body" \in Places
    BY DEF Places
  <2> QED BY <2>1, <2>2, <2>3, GotoStep
<1> QED BY <1>1, <1>2

\* A transaction goes on with what it has read.
LEMMA LoadedStep ==
  ASSUME AmountsInv, UNCHANGED <<request, product, rows>>, NEW a \in Attempts,
         NEW status \in {"ABSENT", "DRAFT"}, Loaded(a, status),
         Creates(a) => /\ Req(a).currency \in _SUPPORTED_CURRENCIES
                       /\ accepts(product, Terms(a), Req(a).requested_term_months),
         ~Creates(a) => status = "DRAFT"
  PROVE  AmountsInv'
<1> DEFINE genesis == keys = {}
           new == [attempt[a] EXCEPT !.pc = "commit", !.status = status,
                                     !.genesis = genesis]
<1>0. attempt[a] \in AttemptType /\ attempt \in [Attempts -> AttemptType]
  BY DEF AmountsInv, ShapeInv
<1>1. genesis \in BOOLEAN
  OBVIOUS
<1>2. attempt' = [attempt EXCEPT ![a] = new]
  BY DEF Loaded
<1> HIDE DEF genesis
<1>3. new \in AttemptType /\ new.pc = "commit" /\ new.status = status
  BY <1>0, <1>1 DEF AttemptType, Places
<1> HIDE DEF new
<1>4. attempt'[a].pc = "commit" /\ attempt'[a].status = status
  BY <1>0, <1>2, <1>3
<1>5. Admitted(a)'
  BY <1>4 DEF Admitted, Creates, Terms, Req
<1> QED BY <1>2, <1>3, <1>5, AttemptStep

LEMMA LoadProductStep ==
  ASSUME AmountsInv, NEW a \in Attempts, LoadProduct(a)
  PROVE  AmountsInv'
<1> DEFINE accepted == accepts(product, Terms(a), Req(a).requested_term_months)
<1> UNCHANGED <<request, product, rows>>
  BY DEF LoadProduct
<1>1. CASE Req(a).product_id = "unlisted"
  BY <1>1, RaiseStep DEF LoadProduct
<1>2. CASE Req(a).product_id # "unlisted" /\ ~accepted
  BY <1>2, RaiseStep DEF LoadProduct, Terms
<1>3. CASE /\ Req(a).product_id # "unlisted" /\ accepted
           /\ ~Creatable(Req(a), Terms(a))
  BY <1>3, RaiseStep DEF LoadProduct, Terms
<1>4. CASE /\ Req(a).product_id # "unlisted" /\ accepted
           /\ Creatable(Req(a), Terms(a))
  <2>1. Loaded(a, "ABSENT") /\ attempt[a].pc = "body" /\ Creates(a)
    BY <1>4 DEF LoadProduct, Terms, Creates
  <2>2. Req(a).currency \in _SUPPORTED_CURRENCIES
    BY <2>1 DEF AmountsInv, Admitted
  <2> QED BY <1>4, <2>1, <2>2, LoadedStep
<1> QED BY <1>1, <1>2, <1>3, <1>4

LEMMA LoadApplicationStep ==
  ASSUME AmountsInv, NEW a \in Attempts, LoadApplication(a)
  PROVE  AmountsInv'
<1> UNCHANGED <<request, product, rows>>
  BY DEF LoadApplication
<1>1. CASE Req(a).application_id = "unlisted"
  BY <1>1, RaiseStep DEF LoadApplication
<1>2. CASE /\ Req(a).application_id # "unlisted"
           /\ rows[Req(a).application_id].status # "DRAFT"
  BY <1>2, RaiseStep DEF LoadApplication
<1>3. CASE /\ Req(a).application_id # "unlisted"
           /\ rows[Req(a).application_id].status = "DRAFT"
  <2>1. Loaded(a, "DRAFT") /\ ~Creates(a)
    BY <1>3 DEF LoadApplication, Creates
  <2> QED BY <2>1, LoadedStep
<1> QED BY <1>1, <1>2, <1>3

\* What creating an application writes.
LEMMA CreatedRow ==
  ASSUME AmountsInv, NEW a \in Attempts, attempt[a].pc = "commit", Creates(a)
  PROVE  /\ Terms(a) \in [amount : Int, currency : _SUPPORTED_CURRENCIES]
         /\ IsNearestEven(Req(a).requested_amount, MinorUnit(Terms(a).currency),
                          Terms(a).amount)
         /\ accepts(product, Terms(a), Req(a).requested_term_months)
         /\ Storable(Terms(a), Req(a).requested_term_months)
         /\ Req(a).requested_term_months \in Int
<1>1. /\ Req(a).requested_amount \in Int
      /\ Req(a).requested_term_months \in Int
  BY ClientOfAttempt, RequestsAssumption DEF AmountsInv, ShapeInv, Creates, Req
<1>2. /\ Req(a).currency \in _SUPPORTED_CURRENCIES
      /\ accepts(product, Terms(a), Req(a).requested_term_months)
  BY DEF AmountsInv, Admitted
<1>3. MinorUnit(Req(a).currency) \in Nat \ {0}
  BY <1>2, MinorUnitType
<1>4. /\ quantize(Req(a).requested_amount, MinorUnit(Req(a).currency)) \in Int
      /\ IsNearestEven(Req(a).requested_amount, MinorUnit(Req(a).currency),
           quantize(Req(a).requested_amount, MinorUnit(Req(a).currency)))
  BY <1>1, <1>3, RoundsHalfEven
<1>5. /\ Terms(a).amount =
           quantize(Req(a).requested_amount, MinorUnit(Req(a).currency))
      /\ Terms(a).currency = Req(a).currency
      /\ Terms(a) \in [amount : Int, currency : _SUPPORTED_CURRENCIES]
  BY <1>2, <1>4 DEF Terms, Money
<1>6. IsProduct(product)
  BY CatalogAssumption DEF AmountsInv, ShapeInv
<1>7. Storable(Terms(a), Req(a).requested_term_months)
  BY <1>1, <1>2, <1>4, <1>5, <1>6, AcceptedIsStorable
<1> QED BY <1>1, <1>2, <1>4, <1>5, <1>7

\* What a commit writes keeps every row within the catalogue.
LEMMA WrittenRows ==
  ASSUME AmountsInv, UNCHANGED <<request, product>>, NEW a \in Attempts,
         attempt[a].pc = "commit", ~Overtaken(a), rows' = Written(a)
  PROVE  rows' \in [Clients -> RowType \cup {NoRow}] /\ AmountsWithinCatalog'
<1>0. rows \in [Clients -> RowType \cup {NoRow}] /\ AmountsWithinCatalog
  BY DEF AmountsInv, ShapeInv
<1>1. CASE Creates(a)
  <2> DEFINE new == [status |-> "DRAFT", submitted_by |-> "none",
                     requested |-> Terms(a),
                     term_months |-> Req(a).requested_term_months]
  <2>1. rows' = [rows EXCEPT ![Client(a)] = new]
    BY <1>1 DEF Written, Creates, Terms
  <2>2. new \in RowType
    BY <1>1, CreatedRow DEF RowType
  <2>3. new.requested = Terms(a) /\ new.term_months = Req(a).requested_term_months
    OBVIOUS
  <2> HIDE DEF new
  <2>4. rows' \in [Clients -> RowType \cup {NoRow}] /\ rows'[Client(a)] = new
    BY <1>0, <2>1, <2>2, ClientOfAttempt
  <2>5. ASSUME NEW c \in Clients, c # Client(a) PROVE rows'[c] = rows[c]
    BY <1>0, <2>1, <2>5
  <2>6. AmountsWithinCatalog'
    BY <1>0, <1>1, <2>3, <2>4, <2>5, CreatedRow DEF AmountsWithinCatalog, Req
  <2> QED BY <2>4, <2>6
<1>2. CASE ~Creates(a)
  <2> DEFINE id == Req(a).application_id
             new == [rows[id] EXCEPT !.status = "SUBMITTED",
                                     !.submitted_by = Client(a)]
  <2>1. rows' = [rows EXCEPT ![id] = new]
    BY <1>2 DEF Written, Creates
  <2>2. rows[id].status = "DRAFT"
    <3>1. Req(a).operation = "submit_application"
      BY <1>2, ClientOfAttempt, RequestsAssumption
      DEF AmountsInv, ShapeInv, Creates, Req
    <3> QED BY <1>2, <3>1 DEF AmountsInv, Admitted, Overtaken
  <2>3. CASE id \in Clients
    <3>1. rows[id] # NoRow /\ rows[id] \in RowType
      BY <1>0, <2>2, <2>3 DEF NoRow
    <3>2. /\ new \in RowType
          /\ new.requested = rows[id].requested
          /\ new.term_months = rows[id].term_months
      BY <3>1, ClientOfAttempt DEF RowType
    <3> HIDE DEF new
    <3>3. rows' \in [Clients -> RowType \cup {NoRow}] /\ rows'[id] = new
      BY <1>0, <2>1, <2>3, <3>2
    <3>4. ASSUME NEW c \in Clients, c # id PROVE rows'[c] = rows[c]
      BY <1>0, <2>1, <3>4
    <3>5. AmountsWithinCatalog'
      BY <1>0, <3>1, <3>2, <3>3, <3>4 DEF AmountsWithinCatalog
    <3> QED BY <3>3, <3>5
  <2>4. CASE id \notin Clients
    <3> HIDE DEF new
    <3>1. rows' = rows
      BY <1>0, <2>1, <2>4
    <3> QED BY <1>0, <3>1 DEF AmountsWithinCatalog
  <2> QED BY <2>3, <2>4
<1> QED BY <1>1, <1>2

LEMMA CommitStep ==
  ASSUME AmountsInv, NEW a \in Attempts, Commit(a)
  PROVE  AmountsInv'
<1>1. /\ attempt[a].pc = "commit" /\ ~Overtaken(a) /\ rows' = Written(a)
      /\ UNCHANGED <<request, product>>
  BY DEF Commit
<1>2. rows' \in [Clients -> RowType \cup {NoRow}] /\ AmountsWithinCatalog'
  BY <1>1, WrittenRows
<1>3. PICK new \in AttemptType : /\ new.pc \in {"start", "answer"}
                                 /\ attempt' = [attempt EXCEPT ![a] = new]
  <2> DEFINE done == [attempt[a] EXCEPT !.pc = "start", !.status = "none",
                                        !.genesis = FALSE, !.committed = TRUE]
             cut == [attempt[a] EXCEPT !.pc = "answer", !.status = "none",
                                       !.genesis = FALSE, !.committed = TRUE,
                                       !.answer = _problem_response("DBAPIError")]
  <2>0. attempt[a] \in AttemptType
    BY DEF AmountsInv, ShapeInv
  <2>1. done \in AttemptType /\ done.pc = "start"
    BY <2>0 DEF AttemptType, Places
  <2>2. cut \in AttemptType /\ cut.pc = "answer"
    BY <2>0, ProblemType DEF AttemptType, Places
  <2>3. \/ attempt' = [attempt EXCEPT ![a] = done]
        \/ attempt' = [attempt EXCEPT ![a] = cut]
    BY DEF Commit
  <2> HIDE DEF done, cut
  <2> QED BY <2>1, <2>2, <2>3
<1>4. attempt \in [Attempts -> AttemptType]
  BY DEF AmountsInv, ShapeInv
<1>5. attempt' \in [Attempts -> AttemptType] /\ attempt'[a] = new
  BY <1>3, <1>4
<1>6. \A b \in Attempts : b # a => attempt'[b] = attempt[b]
  BY <1>3, <1>4
<1>7. ShapeInv'
  BY <1>1, <1>2, <1>5 DEF AmountsInv, ShapeInv
<1>8. ASSUME NEW b \in Attempts PROVE Admitted(b)'
  <2>1. CASE b = a
    BY <1>3, <1>5, <2>1 DEF Admitted
  <2>2. CASE b # a
    BY <1>1, <1>6, <2>2 DEF AmountsInv, Admitted, Creates, Terms, Req
  <2> QED BY <2>1, <2>2
<1> QED BY <1>2, <1>7, <1>8 DEF AmountsInv

\* The attempts in the server end with the process, all at once.
LEMMA CrashStep ==
  ASSUME AmountsInv, Crash
  PROVE  AmountsInv'
<1>1. UNCHANGED <<request, product, rows>>
  BY DEF Crash
<1>2. Lost \in AttemptType /\ Lost.pc = "lost"
  BY DEF Lost, Unsent, NoAnswer, AttemptType, Places, Answer
<1>3. attempt \in [Attempts -> AttemptType]
  BY DEF AmountsInv, ShapeInv
<1>4. attempt' = [a \in Attempts |-> IF a \in InServer THEN Lost ELSE attempt[a]]
  BY DEF Crash
<1>5. attempt' \in [Attempts -> AttemptType]
  BY <1>2, <1>3, <1>4
<1>6. \A a \in Attempts : attempt'[a] \in {Lost, attempt[a]}
  BY <1>4
<1>7. ShapeInv'
  BY <1>1, <1>5 DEF AmountsInv, ShapeInv
<1>8. ASSUME NEW a \in Attempts PROVE Admitted(a)'
  <2>1. CASE attempt'[a] = Lost
    BY <1>2, <2>1 DEF Admitted
  <2>2. CASE attempt'[a] = attempt[a]
    BY <1>1, <2>2 DEF AmountsInv, Admitted, Creates, Terms, Req
  <2> QED BY <1>6, <2>1, <2>2
<1>9. AmountsWithinCatalog'
  BY <1>1 DEF AmountsInv, AmountsWithinCatalog
<1> QED BY <1>7, <1>8, <1>9 DEF AmountsInv

\* Steps that touch neither attempts nor applications.
LEMMA QuietStep ==
  ASSUME AmountsInv, UNCHANGED <<request, product, rows, attempt>>
  PROVE  AmountsInv'
<1>1. ShapeInv' /\ AmountsWithinCatalog'
  BY DEF AmountsInv, ShapeInv, AmountsWithinCatalog
<1>2. \A a \in Attempts : Admitted(a)'
  BY DEF AmountsInv, Admitted, Creates, Terms, Req
<1> QED BY <1>1, <1>2 DEF AmountsInv

LEMMA InitAmounts ==
  ASSUME Init
  PROVE  AmountsInv
<1>1. Unsent \in AttemptType /\ Unsent.pc = "unsent"
  BY DEF Unsent, NoAnswer, AttemptType, Places, Answer
<1>2. /\ attempt = [a \in Attempts |-> Unsent]
      /\ rows = [c \in Clients |-> NoRow]
      /\ product \in Catalog
      /\ \A c \in Clients : request[c] \in Requests[c]
  BY DEF Init
<1>3. ShapeInv
  BY <1>1, <1>2 DEF ShapeInv
<1>4. \A a \in Attempts : Admitted(a)
  BY <1>1, <1>2 DEF Admitted
<1>5. AmountsWithinCatalog
  BY <1>2 DEF AmountsWithinCatalog
<1> QED BY <1>3, <1>4, <1>5 DEF AmountsInv

\* Every step of an attempt, and those of its client and the network.
LEMMA AttemptSteps ==
  ASSUME AmountsInv, NEW a \in Attempts, Send(a) \/ Serve(a) \/ LoseAnswer(a)
  PROVE  AmountsInv'
<1>1. CASE Send(a)
  BY <1>1, ResetStep DEF Send
<1>2. CASE ConnectionRefused(a)
  BY <1>2, ResetStep DEF ConnectionRefused, Lost
<1>3. CASE LoseAnswer(a)
  BY <1>3, ResetStep DEF LoseAnswer, Lost
<1>4. CASE StatementTimeout(a) \/ DatabaseFails(a) \/ CommitConflicts(a)
  BY <1>4, RaiseStep DEF StatementTimeout, DatabaseFails, CommitConflicts
<1>5. CASE StartWorkflow(a)
  <2>1. /\ [status |-> 201, code |-> "none"] \in Answer
        /\ [status |-> 200, code |-> "none"] \in Answer
    BY DEF Answer
  <2>2. UNCHANGED <<request, product, rows>> /\ Success(a)
    BY <1>5 DEF StartWorkflow
  <2>3. \/ Respond(a, [status |-> 201, code |-> "none"])
        \/ Respond(a, [status |-> 200, code |-> "none"])
    BY <2>2 DEF Success
  <2> QED BY <2>1, <2>2, <2>3, RespondStep
<1>6. CASE Deliver(a)
  <2>1. "answered" \in Places
    BY DEF Places
  <2> QED BY <1>6, <2>1, GotoStep DEF Deliver
<1> QED BY <1>1, <1>2, <1>3, <1>4, <1>5, <1>6, ReceiveStep, ReserveStep,
           LoadProductStep, LoadApplicationStep, CommitStep DEF Serve

LEMMA AmountsStep ==
  ASSUME AmountsInv, [Next]_vars
  PROVE  AmountsInv'
<1>1. CASE \E a \in Attempts : Send(a) \/ Serve(a) \/ LoseAnswer(a)
  BY <1>1, AttemptSteps
<1>2. CASE Starting \/ ProbeReadiness \/ Shutdown \/ Recovery \/ Environment
  BY <1>2, QuietStep
  DEF Starting, ProbeReadiness, Shutdown, Recovery, Environment, requestVars
<1>3. CASE Crash
  BY <1>3, CrashStep
<1>4. CASE UNCHANGED vars
  BY <1>4, QuietStep DEF vars, requestVars
<1> QED BY <1>1, <1>2, <1>3, <1>4 DEF Next

\* For any clients, requests, catalogue and number of attempts and failures, an
\* application on file has the requested amount rounded half to even, within
\* the bounds of its product, and fit for its columns and constraints
\* (CreateApplicationHandler.handle).
THEOREM AmountsStayWithinCatalog == FairSpec => []AmountsWithinCatalog
<1>1. Init => AmountsInv
  BY InitAmounts
<1>2. AmountsInv /\ [Next]_vars => AmountsInv'
  BY AmountsStep
<1>3. AmountsInv => AmountsWithinCatalog
  BY DEF AmountsInv
<1> QED BY <1>1, <1>2, <1>3, PTL DEF FairSpec

-----------------------------------------------------------------------------
(* AnswersTellTruth                                                        *)

Makes(c) == request[c].operation = "create_application"
Target(c) == request[c].application_id

\* The attempt has a transaction open under the key of its client.
Holds(t) == t.pc \in {"body", "commit"}

\* What an attempt t of client c may claim, wherever it is.  Up to the commit it
\* has no effect and no answer; a commit puts the key on file; and an answer is
\* backed by the key or by the row that it speaks of.
Truthful(c, t) ==
  /\ t.pc \in {"unsent", "network", "reserve", "body", "commit", "lost"} =>
       ~t.committed /\ t.answer = NoAnswer
  /\ Holds(t) => c \notin keys
  /\ t.pc = "start" => t.committed /\ t.answer = NoAnswer
  /\ t.committed => c \in keys
  /\ t.answer.status \in {200, 201} => t.committed
  /\ t.answer.status = 201 => Makes(c)
  /\ t.answer.status \in 400 .. 499 => ~t.committed
  /\ t.answer.code = "duplicate_request" => c \in keys
  /\ t.answer.code \in {"concurrency_conflict", "illegal_state_transition"} =>
       /\ ~Makes(c) /\ Target(c) \in Clients
       /\ rows[Target(c)].status = "SUBMITTED"
       /\ rows[Target(c)].submitted_by # c

\* A submission is on its way only to an application that exists.
Aimed(c, t) ==
  ~Makes(c) =>
    /\ t.pc \in {"network", "reserve", "body", "commit"} /\ Target(c) \in Clients =>
         rows[Target(c)] # NoRow
    /\ t.pc \in {"reserve", "body", "commit"} => Target(c) # "malformed"
    /\ t.pc = "commit" => Target(c) \in Clients

\* The request of the client is on file: TookEffect, and more of the row.
OnFile(c) ==
  IF Makes(c) THEN rows[c] # NoRow
  ELSE /\ Target(c) \in Clients
       /\ rows[Target(c)].status = "SUBMITTED"
       /\ rows[Target(c)].submitted_by = c

\* The tables agree with each other.
TablesInv ==
  /\ keys \subseteq Clients /\ started \subseteq Clients
  /\ \A c \in keys : OnFile(c)
  /\ \A c \in Clients : rows[c] # NoRow => c \in keys /\ Makes(c)
  /\ \A c \in Clients : rows[c].status = "SUBMITTED" => rows[c].submitted_by \in keys
  /\ \A c \in started : rows[c].status = "SUBMITTED"

\* The inductive invariant: one open transaction per key at most.
TruthInv ==
  /\ TablesInv
  /\ \A a \in Attempts :
       Truthful(Client(a), attempt[a]) /\ Aimed(Client(a), attempt[a])
  /\ \A a, b \in Attempts :
       Client(a) = Client(b) /\ Holds(attempt[a]) /\ Holds(attempt[b]) => a = b

\* A client either creates or submits, and what it submits is named in Clients,
\* unlisted or malformed.
LEMMA RequestKinds ==
  ASSUME ShapeInv, NEW c \in Clients
  PROVE  /\ ~Makes(c) => request[c].operation = "submit_application"
         /\ ~Makes(c) => Target(c) \in Clients \cup {"unlisted", "malformed"}
BY RequestsAssumption DEF ShapeInv, Makes, Target

\* The answers the handlers' exceptions become.
LEMMA ProblemCodes ==
  /\ \A exc \in {"ValueError", "DBAPIError", "IntegrityError"} :
       _problem_response(exc) = Problem(500, "internal_server_error")
  /\ _problem_response("RequestValidationError")
       = Problem(422, "request_validation_failed")
  /\ _problem_response("ApplicationNotFoundError")
       = Problem(404, "application_not_found")
  /\ _problem_response("ProductNotFoundError") = Problem(404, "product_not_found")
  /\ _problem_response("ProductRejectedRequestError")
       = Problem(422, "product_rejected_request")
  /\ _problem_response("DuplicateRequestError") = Problem(409, "duplicate_request")
  /\ _problem_response("ConcurrencyConflictError")
       = Problem(409, "concurrency_conflict")
  /\ _problem_response("IllegalStateTransitionError")
       = Problem(409, "illegal_state_transition")
BY DEF _problem_response, _DOMAIN_EXCEPTION_STATUS

\* An answer that claims nothing.
Plain(answer) ==
  /\ answer.status \notin {200, 201}
  /\ answer.code \notin {"duplicate_request", "concurrency_conflict",
                         "illegal_state_transition"}

LEMMA PlainProblems ==
  /\ \A exc \in {"ValueError", "DBAPIError", "IntegrityError",
                 "RequestValidationError", "ApplicationNotFoundError",
                 "ProductNotFoundError", "ProductRejectedRequestError"} :
       Plain(_problem_response(exc))
  /\ Plain(Problem(413, "request_body_too_large"))
<1>1. /\ Plain(Problem(500, "internal_server_error"))
      /\ Plain(Problem(422, "request_validation_failed"))
      /\ Plain(Problem(404, "application_not_found"))
      /\ Plain(Problem(404, "product_not_found"))
      /\ Plain(Problem(422, "product_rejected_request"))
      /\ Plain(Problem(413, "request_body_too_large"))
  BY DEF Plain, Problem
<1> QED BY <1>1, ProblemCodes

\* A step that changes one attempt and no table keeps the invariant, if the
\* attempt stays truthful and does not open a second transaction for its key,
\* and a workflow is started only for an application that is submitted.
LEMMA AttemptMovesOn ==
  ASSUME ShapeInv, TruthInv, UNCHANGED <<request, rows, keys>>,
         started' \subseteq Clients,
         \A d \in started' : rows[d].status = "SUBMITTED",
         NEW a \in Attempts, NEW new,
         attempt' = [attempt EXCEPT ![a] = new],
         Truthful(Client(a), new), Aimed(Client(a), new),
         Holds(new) => \A b \in Attempts :
           Client(b) = Client(a) /\ b # a => ~Holds(attempt[b])
  PROVE  TruthInv'
<1>1. attempt \in [Attempts -> AttemptType]
  BY DEF ShapeInv
<1>2. \A b \in Attempts : attempt'[b] = IF b = a THEN new ELSE attempt[b]
  BY <1>1
<1>3. TablesInv'
  BY DEF TruthInv, TablesInv, OnFile, Makes, Target
<1>4. ASSUME NEW b \in Attempts
      PROVE  (Truthful(Client(b), attempt[b]) /\ Aimed(Client(b), attempt[b]))'
  <2>1. Truthful(Client(b), attempt'[b]) /\ Aimed(Client(b), attempt'[b])
    BY <1>2 DEF TruthInv
  <2>2. Truthful(Client(b), attempt[b])'
    BY <2>1 DEF Truthful, Holds, Makes, Target
  <2>3. Aimed(Client(b), attempt[b])'
    BY <2>1 DEF Aimed, Makes, Target
  <2> QED BY <2>2, <2>3
<1>5. ASSUME NEW b \in Attempts, NEW d \in Attempts, Client(b) = Client(d),
             Holds(attempt[b])', Holds(attempt[d])'
      PROVE  b = d
  <2>1. Holds(attempt'[b]) /\ Holds(attempt'[d])
    BY <1>5 DEF Holds
  <2>2. CASE b # a /\ d # a
    BY <1>2, <1>5, <2>1, <2>2 DEF TruthInv
  <2>3. CASE b = a \/ d = a
    BY <1>2, <1>5, <2>1, <2>3
  <2> QED BY <2>2, <2>3
<1> QED BY <1>3, <1>4, <1>5 DEF TruthInv

LEMMA AttemptMoves ==
  ASSUME ShapeInv, TruthInv, UNCHANGED <<request, rows, keys, started>>,
         NEW a \in Attempts, NEW new,
         attempt' = [attempt EXCEPT ![a] = new],
         Truthful(Client(a), new), Aimed(Client(a), new),
         Holds(new) => \A b \in Attempts :
           Client(b) = Client(a) /\ b # a => ~Holds(attempt[b])
  PROVE  TruthInv'
<1>1. started' \subseteq Clients /\ \A d \in started' : rows[d].status = "SUBMITTED"
  BY DEF TruthInv, TablesInv
<1> QED BY <1>1, AttemptMovesOn

\* An attempt that has not committed is answered.
LEMMA RefusalMoves ==
  ASSUME ShapeInv, TruthInv, UNCHANGED <<request, rows, keys, started>>,
         NEW a \in Attempts, NEW answer, Respond(a, answer),
         attempt[a].pc \in {"network", "reserve", "body", "commit"},
         answer.status \notin {200, 201},
         answer.code = "duplicate_request" => Client(a) \in keys,
         answer.code \in {"concurrency_conflict", "illegal_state_transition"} =>
           /\ ~Makes(Client(a)) /\ Target(Client(a)) \in Clients
           /\ rows[Target(Client(a))].status = "SUBMITTED"
           /\ rows[Target(Client(a))].submitted_by # Client(a)
  PROVE  TruthInv'
<1> DEFINE t == attempt[a]
           new == [t EXCEPT !.pc = "answer", !.status = "none",
                            !.genesis = FALSE, !.answer = answer]
<1>1. t \in AttemptType
  BY DEF ShapeInv
<1>2. new.pc = "answer" /\ new.committed = t.committed /\ new.answer = answer
  BY <1>1 DEF AttemptType
<1>3. attempt' = [attempt EXCEPT ![a] = new]
  BY DEF Respond
<1>4. t.committed = FALSE
  BY <1>1 DEF TruthInv, Truthful, AttemptType
<1> HIDE DEF new
<1>5. Truthful(Client(a), new) /\ Aimed(Client(a), new) /\ ~Holds(new)
  BY <1>2, <1>4 DEF Truthful, Aimed, Holds
<1> QED BY <1>3, <1>5, AttemptMoves

LEMMA PlainMoves ==
  ASSUME ShapeInv, TruthInv, UNCHANGED <<request, rows, keys, started>>,
         NEW a \in Attempts, NEW answer, Respond(a, answer), Plain(answer),
         attempt[a].pc \in {"network", "reserve", "body", "commit"}
  PROVE  TruthInv'
BY RefusalMoves DEF Plain

\* An attempt goes on to the next place.
LEMMA GotoMoves ==
  ASSUME ShapeInv, TruthInv, UNCHANGED <<request, rows, keys, started>>,
         NEW a \in Attempts, NEW pc, Goto(a, pc),
         \/ attempt[a].pc = "network" /\ pc = "reserve"
            /\ (~Makes(Client(a)) => Target(Client(a)) # "malformed")
         \/ /\ attempt[a].pc = "reserve" /\ pc = "body" /\ Client(a) \notin keys
            /\ \A b \in Attempts : ~KeyHeld(a, b)
         \/ attempt[a].pc = "answer" /\ pc = "answered"
  PROVE  TruthInv'
<1> DEFINE t == attempt[a]
           new == [t EXCEPT !.pc = pc]
<1>1. t \in AttemptType /\ Truthful(Client(a), t) /\ Aimed(Client(a), t)
  BY DEF ShapeInv, TruthInv
<1>2. new.pc = pc /\ new.committed = t.committed /\ new.answer = t.answer
  BY <1>1 DEF AttemptType
<1>3. attempt' = [attempt EXCEPT ![a] = new]
  BY DEF Goto
<1> HIDE DEF new
<1>4. Truthful(Client(a), new)
  BY <1>1, <1>2 DEF Truthful, Holds
<1>5. Aimed(Client(a), new)
  BY <1>1, <1>2 DEF Aimed
<1>6. Holds(new) => \A b \in Attempts :
        Client(b) = Client(a) /\ b # a => ~Holds(attempt[b])
  BY <1>2 DEF Holds, KeyHeld
<1> QED BY <1>3, <1>4, <1>5, <1>6, AttemptMoves

\* A transaction goes on with what it has read.
LEMMA LoadedMoves ==
  ASSUME ShapeInv, TruthInv, UNCHANGED <<request, rows, keys, started>>,
         NEW a \in Attempts, NEW status, Loaded(a, status),
         attempt[a].pc = "body",
         ~Makes(Client(a)) => Target(Client(a)) \in Clients
  PROVE  TruthInv'
<1> DEFINE t == attempt[a]
           new == [t EXCEPT !.pc = "commit", !.status = status,
                            !.genesis = (keys = {})]
<1>1. t \in AttemptType /\ Truthful(Client(a), t) /\ Aimed(Client(a), t)
  BY DEF ShapeInv, TruthInv
<1>2. new.pc = "commit" /\ new.committed = t.committed /\ new.answer = t.answer
  BY <1>1 DEF AttemptType
<1>3. attempt' = [attempt EXCEPT ![a] = new]
  BY DEF Loaded
<1> HIDE DEF new
<1>4. Truthful(Client(a), new) /\ Aimed(Client(a), new)
  BY <1>1, <1>2 DEF Truthful, Aimed, Holds
<1>5. \A b \in Attempts : Client(b) = Client(a) /\ b # a => ~Holds(attempt[b])
  BY DEF TruthInv, Holds
<1> QED BY <1>3, <1>4, <1>5, AttemptMoves

LEMMA SendMoves ==
  ASSUME ShapeInv, TruthInv, NEW a \in Attempts, Send(a)
  PROVE  TruthInv'
<1> DEFINE c == Client(a)
           new == [Unsent EXCEPT !.pc = "network"]
<1>1. c \in Clients
  BY ClientOfAttempt
<1>2. new.pc = "network" /\ new.committed = FALSE /\ new.answer = NoAnswer
  BY DEF Unsent
<1>3. attempt' = [attempt EXCEPT ![a] = new] /\ UNCHANGED <<request, rows, keys, started>>
  BY DEF Send
<1>4. ~Makes(c) /\ Target(c) \in Clients => rows[Target(c)] # NoRow
  <2> SUFFICES ASSUME ~Makes(c), Target(c) \in Clients PROVE rows[Target(c)] # NoRow
    OBVIOUS
  <2>1. request[c].operation = "submit_application"
    BY <1>1, RequestKinds
  <2>2. PICK i \in Slots[Target(c)] :
          attempt[<<Target(c), i>>].answer.status = 201
    BY <2>1 DEF Send, KnowsTarget, Req, Target
  <2> DEFINE b == <<Target(c), i>>
  <2>3. b \in Attempts /\ Client(b) = Target(c)
    BY DEF Attempts, Client
  <2>4. Truthful(Target(c), attempt[b])
    BY <2>3 DEF TruthInv
  <2>5. Target(c) \in keys /\ Makes(Target(c))
    BY <2>2, <2>4 DEF Truthful
  <2> QED BY <2>5 DEF TruthInv, TablesInv, OnFile
<1> HIDE DEF new
<1>5. Truthful(c, new) /\ Aimed(c, new) /\ ~Holds(new)
  BY <1>2, <1>4 DEF Truthful, Aimed, Holds, NoAnswer
<1> QED BY <1>3, <1>5, AttemptMoves

LEMMA LostIsTruthful ==
  ASSUME NEW c
  PROVE  Truthful(c, Lost) /\ Aimed(c, Lost) /\ ~Holds(Lost)
<1>1. Lost.pc = "lost" /\ Lost.committed = FALSE /\ Lost.answer = NoAnswer
  BY DEF Lost, Unsent
<1> QED BY <1>1 DEF Truthful, Aimed, Holds, NoAnswer

LEMMA ReceiveMoves ==
  ASSUME ShapeInv, TruthInv, NEW a \in Attempts, Receive(a)
  PROVE  TruthInv'
<1> UNCHANGED <<request, rows, keys, started>> /\ attempt[a].pc = "network"
  BY DEF Receive
<1>1. CASE TooLarge(Req(a))
  BY <1>1, PlainProblems, PlainMoves DEF Receive
<1>2. CASE ~TooLarge(Req(a)) /\ ~Valid(Req(a))
  BY <1>2, PlainProblems, PlainMoves DEF Receive, Raise
<1>3. CASE ~TooLarge(Req(a)) /\ Valid(Req(a)) /\ ~Wellformed(Req(a))
  BY <1>3, PlainProblems, PlainMoves DEF Receive, Raise
<1>4. CASE ~TooLarge(Req(a)) /\ Valid(Req(a)) /\ Wellformed(Req(a))
  <2>1. Goto(a, "reserve")
    BY <1>4 DEF Receive
  <2>2. ~Makes(Client(a)) => Target(Client(a)) # "malformed"
    BY <1>4 DEF Wellformed, Makes, Target, Req
  <2> QED BY <2>1, <2>2, GotoMoves
<1> QED BY <1>1, <1>2, <1>3, <1>4

LEMMA ReserveMoves ==
  ASSUME ShapeInv, TruthInv, NEW a \in Attempts, Reserve(a)
  PROVE  TruthInv'
<1> UNCHANGED <<request, rows, keys, started>> /\ attempt[a].pc = "reserve"
  BY DEF Reserve
<1>1. CASE Client(a) \in keys
  <2>1. Respond(a, Problem(409, "duplicate_request"))
    BY <1>1, ProblemCodes DEF Reserve, Raise
  <2>2. /\ Problem(409, "duplicate_request").status = 409
        /\ Problem(409, "duplicate_request").code = "duplicate_request"
    BY DEF Problem
  <2> QED BY <1>1, <2>1, <2>2, RefusalMoves
<1>2. CASE Client(a) \notin keys
  <2>1. Goto(a, "body") /\ \A b \in Attempts : ~KeyHeld(a, b)
    BY <1>2 DEF Reserve
  <2> QED BY <1>2, <2>1, GotoMoves
<1> QED BY <1>1, <1>2

LEMMA LoadProductMoves ==
  ASSUME ShapeInv, TruthInv, NEW a \in Attempts, LoadProduct(a)
  PROVE  TruthInv'
<1> UNCHANGED <<request, rows, keys, started>> /\ attempt[a].pc = "body"
  BY DEF LoadProduct
<1>1. \/ \E exc \in {"ProductNotFoundError", "ProductRejectedRequestError",
                     "ValueError"} : Raise(a, exc)
      \/ Loaded(a, "ABSENT") /\ Makes(Client(a))
  BY DEF LoadProduct, Makes, Req
<1> QED BY <1>1, PlainProblems, PlainMoves, LoadedMoves DEF Raise

\* A submission that finds its application not a draft finds it submitted by
\* another client.
LEMMA FoundSubmitted ==
  ASSUME ShapeInv, TruthInv, NEW a \in Attempts, ~Makes(Client(a)),
         attempt[a].pc \in {"body", "commit"},
         Target(Client(a)) \in Clients,
         rows[Target(Client(a))].status # "DRAFT"
  PROVE  /\ rows[Target(Client(a))].status = "SUBMITTED"
         /\ rows[Target(Client(a))].submitted_by # Client(a)
<1> DEFINE c == Client(a)
           id == Target(c)
<1>1. Truthful(c, attempt[a]) /\ Aimed(c, attempt[a])
  BY DEF TruthInv
<1>2. rows[id] # NoRow
  BY <1>1 DEF Aimed
<1>3. rows[id] \in RowType
  BY <1>2 DEF ShapeInv
<1>4. rows[id].status = "SUBMITTED"
  BY <1>3 DEF RowType
<1>5. rows[id].submitted_by \in keys
  BY <1>4 DEF TruthInv, TablesInv
<1>6. c \notin keys
  BY <1>1 DEF Truthful, Holds
<1> QED BY <1>4, <1>5, <1>6

LEMMA LoadApplicationMoves ==
  ASSUME ShapeInv, TruthInv, NEW a \in Attempts, LoadApplication(a)
  PROVE  TruthInv'
<1> DEFINE c == Client(a)
<1>1. /\ UNCHANGED <<request, rows, keys, started>> /\ attempt[a].pc = "body"
      /\ ~Makes(c)
  BY DEF LoadApplication, Makes, Req
<1>2. Target(c) \in Clients \cup {"unlisted"}
  BY <1>1, ClientOfAttempt, RequestKinds DEF TruthInv, Aimed
<1>3. CASE Target(c) = "unlisted"
  <2>1. Raise(a, "ApplicationNotFoundError")
    BY <1>3 DEF LoadApplication, Target, Req
  <2> QED BY <1>1, <2>1, PlainProblems, PlainMoves DEF Raise
<1>4. CASE Target(c) # "unlisted" /\ rows[Target(c)].status # "DRAFT"
  <2>1. Raise(a, "IllegalStateTransitionError")
    BY <1>4 DEF LoadApplication, Target, Req
  <2>2. Respond(a, Problem(409, "illegal_state_transition"))
    BY <2>1, ProblemCodes DEF Raise
  <2>3. /\ Problem(409, "illegal_state_transition").status = 409
        /\ Problem(409, "illegal_state_transition").code = "illegal_state_transition"
    BY DEF Problem
  <2>4. /\ rows[Target(c)].status = "SUBMITTED"
        /\ rows[Target(c)].submitted_by # c
    BY <1>1, <1>2, <1>4, FoundSubmitted
  <2> QED BY <1>1, <1>2, <1>4, <2>2, <2>3, <2>4, RefusalMoves
<1>5. CASE Target(c) # "unlisted" /\ rows[Target(c)].status = "DRAFT"
  <2>1. Loaded(a, "DRAFT")
    BY <1>5 DEF LoadApplication, Target, Req
  <2> QED BY <1>1, <1>2, <1>5, <2>1, LoadedMoves
<1> QED BY <1>3, <1>4, <1>5

\* An attempt that was overtaken finds the application submitted by the other.
LEMMA ConflictMoves ==
  ASSUME AmountsInv, TruthInv, NEW a \in Attempts, CommitConflicts(a)
  PROVE  TruthInv'
<1> DEFINE c == Client(a)
<1>1. /\ UNCHANGED <<request, rows, keys, started>> /\ attempt[a].pc = "commit"
      /\ ShapeInv
  BY DEF CommitConflicts, AmountsInv
<1>2. CASE Raise(a, "IntegrityError")
  BY <1>1, <1>2, PlainProblems, PlainMoves DEF Raise
<1>3. CASE Overtaken(a) /\ Raise(a, "ConcurrencyConflictError")
  <2>1. Respond(a, Problem(409, "concurrency_conflict"))
    BY <1>3, ProblemCodes DEF Raise
  <2>2. /\ Problem(409, "concurrency_conflict").status = 409
        /\ Problem(409, "concurrency_conflict").code = "concurrency_conflict"
    BY DEF Problem
  <2>3. ~Makes(c) /\ rows[Target(c)].status # attempt[a].status
    BY <1>3 DEF Overtaken, Makes, Target, Req
  <2>4. attempt[a].status = "DRAFT"
    BY <1>1, <2>3 DEF AmountsInv, Admitted, Creates, Makes, Req
  <2>5. Target(c) \in Clients
    BY <1>1, <2>3 DEF TruthInv, Aimed
  <2>6. /\ rows[Target(c)].status = "SUBMITTED"
        /\ rows[Target(c)].submitted_by # c
    BY <1>1, <2>3, <2>4, <2>5, FoundSubmitted
  <2> QED BY <1>1, <2>1, <2>2, <2>3, <2>5, <2>6, RefusalMoves
<1> QED BY <1>2, <1>3 DEF CommitConflicts

LEMMA FailureMoves ==
  ASSUME ShapeInv, TruthInv, NEW a \in Attempts,
         StatementTimeout(a) \/ DatabaseFails(a)
  PROVE  TruthInv'
<1>1. /\ UNCHANGED <<request, rows, keys, started>>
      /\ attempt[a].pc \in {"reserve", "body", "commit"}
      /\ Respond(a, _problem_response("DBAPIError"))
  BY DEF StatementTimeout, DatabaseFails, Raise
<1> QED BY <1>1, PlainProblems, PlainMoves

LEMMA LossMoves ==
  ASSUME ShapeInv, TruthInv, NEW a \in Attempts,
         ConnectionRefused(a) \/ LoseAnswer(a)
  PROVE  TruthInv'
BY LostIsTruthful, AttemptMoves DEF ConnectionRefused, LoseAnswer

LEMMA CrashMoves ==
  ASSUME ShapeInv, TruthInv, Crash
  PROVE  TruthInv'
<1>1. UNCHANGED <<request, rows, keys, started>>
  BY DEF Crash
<1>2. \A b \in Attempts : attempt'[b] \in {Lost, attempt[b]}
  BY DEF Crash
<1>3. TablesInv'
  BY <1>1 DEF TruthInv, TablesInv, OnFile, Makes, Target
<1>4. ASSUME NEW b \in Attempts
      PROVE  (Truthful(Client(b), attempt[b]) /\ Aimed(Client(b), attempt[b]))'
  <2>1. Truthful(Client(b), attempt'[b]) /\ Aimed(Client(b), attempt'[b])
    BY <1>2, LostIsTruthful DEF TruthInv
  <2> QED BY <1>1, <2>1 DEF Truthful, Aimed, Holds, Makes, Target
<1>5. ASSUME NEW b \in Attempts, NEW d \in Attempts, Client(b) = Client(d),
             Holds(attempt[b])', Holds(attempt[d])'
      PROVE  b = d
  <2>1. Holds(attempt'[b]) /\ Holds(attempt'[d])
    BY <1>5 DEF Holds
  <2>2. Holds(attempt[b]) /\ Holds(attempt[d])
    BY <1>2, <2>1, LostIsTruthful
  <2> QED BY <1>5, <2>2 DEF TruthInv
<1> QED BY <1>3, <1>4, <1>5 DEF TruthInv

\* What a commit does to the rows: it makes the client's, or submits the
\* client's target, and leaves rows that are submitted alone.
LEMMA CommittedRows ==
  ASSUME AmountsInv, TruthInv, NEW a \in Attempts, Commit(a),
         NEW c, c = Client(a)
  PROVE  /\ c \in Clients /\ c \notin keys
         /\ \A d \in Clients : rows[d] # NoRow => rows'[d] # NoRow
         /\ \A d \in Clients : rows[d].status = "SUBMITTED" => rows'[d] = rows[d]
         /\ \A d \in Clients : rows'[d] # NoRow =>
              rows[d] # NoRow \/ (d = c /\ Makes(c))
         /\ \A d \in Clients : rows'[d].status = "SUBMITTED" =>
              rows[d].status = "SUBMITTED" \/ rows'[d].submitted_by = c
         /\ Makes(c) => rows'[c] # NoRow
         /\ ~Makes(c) => /\ Target(c) \in Clients
                         /\ rows'[Target(c)].status = "SUBMITTED"
                         /\ rows'[Target(c)].submitted_by = c
<1>1. /\ attempt[a].pc = "commit" /\ ~Overtaken(a) /\ rows' = Written(a)
  BY DEF Commit
<1>2. rows \in [Clients -> RowType \cup {NoRow}]
  BY DEF AmountsInv, ShapeInv
<1>3. c \in Clients /\ c \notin keys /\ Aimed(c, attempt[a])
  BY <1>1, ClientOfAttempt DEF TruthInv, Truthful, Holds
<1>4. NoRow.status = "ABSENT"
  BY DEF NoRow
<1>5. CASE Makes(c)
  <2> DEFINE new == [status |-> "DRAFT", submitted_by |-> "none",
                     requested |-> Terms(a),
                     term_months |-> Req(a).requested_term_months]
  <2>1. rows' = [rows EXCEPT ![c] = new]
    BY <1>1, <1>5 DEF Written, Makes, Terms, Req
  <2>2. new.status = "DRAFT" /\ new # NoRow
    BY <1>4
  <2> HIDE DEF new
  <2>3. rows'[c] = new /\ \A d \in Clients \ {c} : rows'[d] = rows[d]
    BY <1>2, <1>3, <2>1
  <2>4. rows[c] = NoRow
    BY <1>3 DEF TruthInv, TablesInv
  <2> QED BY <1>3, <1>4, <1>5, <2>2, <2>3, <2>4
<1>6. CASE ~Makes(c)
  <2> DEFINE id == Target(c)
             new == [rows[id] EXCEPT !.status = "SUBMITTED", !.submitted_by = c]
  <2>1. rows' = [rows EXCEPT ![id] = new]
    BY <1>1, <1>6 DEF Written, Makes, Target, Req
  <2>2. id \in Clients
    BY <1>1, <1>3, <1>6 DEF Aimed
  <2>3. rows[id].status = "DRAFT"
    <3>1. request[c].operation = "submit_application"
      BY <1>3, <1>6, RequestKinds DEF AmountsInv
    <3>2. attempt[a].status = "DRAFT"
      BY <1>1, <1>6 DEF AmountsInv, Admitted, Creates, Makes, Req
    <3> QED BY <1>1, <3>1, <3>2 DEF Overtaken, Target, Req
  <2>4. rows[id] # NoRow /\ rows[id] \in RowType
    BY <1>2, <1>4, <2>2, <2>3
  <2>5. new.status = "SUBMITTED" /\ new.submitted_by = c
    BY <2>4 DEF RowType
  <2> HIDE DEF new
  <2>6. rows'[id] = new /\ \A d \in Clients \ {id} : rows'[d] = rows[d]
    BY <1>2, <2>1, <2>2
  <2>7. new # NoRow
    BY <1>4, <2>5
  <2> QED BY <1>3, <1>6, <2>2, <2>3, <2>4, <2>5, <2>6, <2>7
<1> QED BY <1>5, <1>6

LEMMA CommitMoves ==
  ASSUME AmountsInv, TruthInv, NEW a \in Attempts, Commit(a)
  PROVE  TruthInv'
<1> DEFINE c == Client(a)
<1>0. c = Client(a)
  OBVIOUS
<1> HIDE DEF c
<1>1. /\ c \in Clients /\ c \notin keys
      /\ \A d \in Clients : rows[d] # NoRow => rows'[d] # NoRow
      /\ \A d \in Clients : rows[d].status = "SUBMITTED" => rows'[d] = rows[d]
      /\ Makes(c) => rows'[c] # NoRow
      /\ ~Makes(c) => /\ Target(c) \in Clients
                      /\ rows'[Target(c)].status = "SUBMITTED"
                      /\ rows'[Target(c)].submitted_by = c
  BY <1>0, CommittedRows
<1>2. /\ \A d \in Clients : rows'[d] # NoRow =>
           rows[d] # NoRow \/ (d = c /\ Makes(c))
      /\ \A d \in Clients : rows'[d].status = "SUBMITTED" =>
           rows[d].status = "SUBMITTED" \/ rows'[d].submitted_by = c
  BY <1>0, CommittedRows
<1>3. /\ keys' = keys \cup {c} /\ UNCHANGED <<request, started>>
      /\ attempt[a].pc = "commit"
  BY <1>0 DEF Commit
<1>4. TablesInv'
  <2>1. ASSUME NEW d \in keys' PROVE OnFile(d)'
    <3>1. CASE d = c
      BY <1>1, <1>3, <3>1 DEF OnFile, Makes, Target
    <3>2. CASE d \in keys
      BY <1>1, <1>3, <3>2 DEF TruthInv, TablesInv, OnFile, Makes, Target
    <3> QED BY <1>3, <3>1, <3>2
  <2>2. ASSUME NEW d \in Clients, rows'[d] # NoRow PROVE d \in keys' /\ Makes(d)'
    BY <1>2, <1>3, <2>2 DEF TruthInv, TablesInv, Makes
  <2>3. ASSUME NEW d \in Clients, rows'[d].status = "SUBMITTED"
        PROVE  rows'[d].submitted_by \in keys'
    BY <1>1, <1>2, <1>3, <2>3 DEF TruthInv, TablesInv
  <2>4. \A d \in started : rows'[d].status = "SUBMITTED"
    BY <1>1 DEF TruthInv, TablesInv
  <2> QED BY <1>1, <1>3, <2>1, <2>2, <2>3, <2>4 DEF TruthInv, TablesInv
<1>5. PICK new : /\ attempt' = [attempt EXCEPT ![a] = new]
                 /\ new.pc \in {"start", "answer"} /\ new.committed = TRUE
                 /\ new.pc = "start" => new.answer = NoAnswer
                 /\ new.pc = "answer" =>
                      new.answer = Problem(500, "internal_server_error")
  <2> DEFINE t == attempt[a]
             done == [t EXCEPT !.pc = "start", !.status = "none",
                               !.genesis = FALSE, !.committed = TRUE]
             cut == [t EXCEPT !.pc = "answer", !.status = "none",
                              !.genesis = FALSE, !.committed = TRUE,
                              !.answer = _problem_response("DBAPIError")]
  <2>1. t \in AttemptType /\ t.answer = NoAnswer
    BY <1>3 DEF AmountsInv, ShapeInv, TruthInv, Truthful
  <2>2. done.pc = "start" /\ done.committed = TRUE /\ done.answer = NoAnswer
    BY <2>1 DEF AttemptType
  <2>3. cut.pc = "answer" /\ cut.committed = TRUE
        /\ cut.answer = Problem(500, "internal_server_error")
    BY <2>1, ProblemCodes DEF AttemptType
  <2>4. \/ attempt' = [attempt EXCEPT ![a] = done]
        \/ attempt' = [attempt EXCEPT ![a] = cut]
    BY DEF Commit
  <2> HIDE DEF done, cut
  <2> QED BY <2>2, <2>3, <2>4
<1>6. \A b \in Attempts : attempt'[b] = IF b = a THEN new ELSE attempt[b]
  BY <1>5 DEF AmountsInv, ShapeInv
<1>7. ASSUME NEW b \in Attempts
      PROVE  (Truthful(Client(b), attempt[b]) /\ Aimed(Client(b), attempt[b]))'
  <2>1. CASE b = a
    <3>1. attempt'[b] = new /\ Client(b) = c
      BY <1>0, <1>6, <2>1
    <3>2. /\ NoAnswer.status = 0 /\ NoAnswer.code = "none"
          /\ Problem(500, "internal_server_error").status = 500
          /\ Problem(500, "internal_server_error").code = "internal_server_error"
      BY DEF NoAnswer, Problem
    <3>3. Truthful(Client(b), attempt[b])'
      BY <1>3, <1>5, <3>1, <3>2 DEF Truthful, Holds, Makes, Target
    <3>4. Aimed(Client(b), attempt[b])'
      BY <1>5, <3>1 DEF Aimed, Makes, Target
    <3> QED BY <3>3, <3>4
  <2>2. CASE b # a
    <3> DEFINE t == attempt[b]
               d == Client(b)
    <3>1. attempt'[b] = t /\ Truthful(d, t) /\ Aimed(d, t) /\ d \in Clients
      BY <1>6, <2>2, ClientOfAttempt DEF TruthInv
    <3>2. Holds(t) => d \notin keys'
      BY <1>0, <1>3, <2>2, <3>1 DEF TruthInv, Truthful, Holds
    <3>3. (Makes(d)' <=> Makes(d)) /\ Target(d)' = Target(d)
      BY <1>3 DEF Makes, Target
    <3> HIDE DEF t, d
    <3>4. Truthful(Client(b), attempt[b])'
      BY <1>1, <1>3, <3>1, <3>2, <3>3 DEF Truthful, Holds, d
    <3>5. Aimed(Client(b), attempt[b])'
      BY <1>1, <3>1, <3>3 DEF Aimed, d
    <3> QED BY <3>4, <3>5
  <2> QED BY <2>1, <2>2
<1>8. ASSUME NEW b \in Attempts, NEW d \in Attempts, Client(b) = Client(d),
             Holds(attempt[b])', Holds(attempt[d])'
      PROVE  b = d
  <2>1. Holds(attempt'[b]) /\ Holds(attempt'[d])
    BY <1>8 DEF Holds
  <2>2. b # a /\ d # a
    BY <1>5, <1>6, <2>1 DEF Holds
  <2> QED BY <1>6, <1>8, <2>1, <2>2 DEF TruthInv
<1> QED BY <1>4, <1>7, <1>8 DEF TruthInv

\* The answer after the commit, with or without a workflow.
LEMMA StartMoves ==
  ASSUME ShapeInv, TruthInv, NEW a \in Attempts, StartWorkflow(a)
  PROVE  TruthInv'
<1> DEFINE c == Client(a)
           t == attempt[a]
           answer == [status |-> IF Makes(c) THEN 201 ELSE 200, code |-> "none"]
           new == [t EXCEPT !.pc = "answer", !.status = "none",
                            !.genesis = FALSE, !.answer = answer]
<1>1. UNCHANGED <<request, rows, keys>> /\ t.pc = "start" /\ c \in Clients
  BY ClientOfAttempt DEF StartWorkflow
<1>2. t \in AttemptType /\ Truthful(c, t)
  BY DEF ShapeInv, TruthInv
<1>3. t.committed = TRUE /\ c \in keys
  BY <1>1, <1>2 DEF Truthful, AttemptType
<1>4. OnFile(c)
  BY <1>3 DEF TruthInv, TablesInv
<1>5. \/ started' = started
      \/ ~Makes(c) /\ started' = started \cup {Target(c)}
  BY DEF StartWorkflow, Makes, Target, Req
<1>6. started' \subseteq Clients /\ \A d \in started' : rows[d].status = "SUBMITTED"
  BY <1>4, <1>5 DEF TruthInv, TablesInv, OnFile
<1>7. attempt' = [attempt EXCEPT ![a] = new]
  BY DEF StartWorkflow, Success, Respond, Makes, Req
<1>8. answer.code = "none" /\ answer.status \in {200, 201} /\ (answer.status = 201 => Makes(c))
  OBVIOUS
<1> HIDE DEF answer
<1>9. new.pc = "answer" /\ new.committed = TRUE /\ new.answer = answer
  BY <1>2, <1>3 DEF AttemptType
<1> HIDE DEF new
<1>10. Truthful(c, new) /\ Aimed(c, new) /\ ~Holds(new)
  BY <1>3, <1>8, <1>9 DEF Truthful, Aimed, Holds
<1> QED BY <1>1, <1>6, <1>7, <1>10, AttemptMovesOn

LEMMA QuietMoves ==
  ASSUME ShapeInv, TruthInv, UNCHANGED <<request, rows, keys, started, attempt>>
  PROVE  TruthInv'
<1>1. TablesInv'
  BY DEF TruthInv, TablesInv, OnFile, Makes, Target
<1>2. ASSUME NEW b \in Attempts
      PROVE  (Truthful(Client(b), attempt[b]) /\ Aimed(Client(b), attempt[b]))'
  <2>1. Truthful(Client(b), attempt[b])'
    BY DEF TruthInv, Truthful, Holds, Makes, Target
  <2>2. Aimed(Client(b), attempt[b])'
    BY DEF TruthInv, Aimed, Makes, Target
  <2> QED BY <2>1, <2>2
<1> QED BY <1>1, <1>2 DEF TruthInv, Holds

LEMMA TruthStep ==
  ASSUME AmountsInv, TruthInv, [Next]_vars
  PROVE  TruthInv'
<1> ShapeInv
  BY DEF AmountsInv
<1>1. ASSUME NEW a \in Attempts, Send(a) \/ Serve(a) \/ LoseAnswer(a)
      PROVE  TruthInv'
  <2>1. CASE Deliver(a)
    BY <2>1, GotoMoves DEF Deliver
  <2> QED BY <1>1, <2>1, SendMoves, LossMoves, ReceiveMoves, ReserveMoves,
         FailureMoves, LoadProductMoves, LoadApplicationMoves, CommitMoves,
         ConflictMoves, StartMoves DEF Serve
<1>2. CASE Starting \/ ProbeReadiness \/ Shutdown \/ Recovery \/ Environment
  BY <1>2, QuietMoves
  DEF Starting, ProbeReadiness, Shutdown, Recovery, Environment, requestVars
<1>3. CASE UNCHANGED vars
  BY <1>3, QuietMoves DEF vars, requestVars
<1> QED BY <1>1, <1>2, <1>3, CrashMoves DEF Next

LEMMA InitTruth ==
  ASSUME Init
  PROVE  TruthInv
<1>1. /\ attempt = [a \in Attempts |-> Unsent] /\ rows = [c \in Clients |-> NoRow]
      /\ keys = {} /\ started = {}
  BY DEF Init
<1>2. Unsent.pc = "unsent" /\ Unsent.committed = FALSE /\ Unsent.answer = NoAnswer
  BY DEF Unsent
<1>3. TablesInv
  BY <1>1 DEF TablesInv, NoRow
<1>4. \A c : Truthful(c, Unsent) /\ Aimed(c, Unsent) /\ ~Holds(Unsent)
  BY <1>2 DEF Truthful, Aimed, Holds, NoAnswer
<1> QED BY <1>1, <1>3, <1>4 DEF TruthInv

\* Whatever is lost, retried, cut off or overtaken, every answer of the create
\* and submit routes says what became of the request, for any clients, requests
\* and attempts; and a workflow is started only for a submitted application.
THEOREM AnswersAreTrue == FairSpec => []AnswersTellTruth
<1>1. Init => AmountsInv /\ TruthInv
  BY InitAmounts, InitTruth
<1>2. AmountsInv /\ TruthInv /\ [Next]_vars => (AmountsInv /\ TruthInv)'
  BY AmountsStep, TruthStep
<1>3. AmountsInv /\ TruthInv => AnswersTellTruth
  <2> SUFFICES ASSUME AmountsInv, TruthInv PROVE AnswersTellTruth
    OBVIOUS
  <2>1. ASSUME NEW c \in keys PROVE TookEffect(c)
    BY DEF TruthInv, TablesInv, OnFile, TookEffect, Makes, Target
  <2>2. ASSUME NEW a \in Attempts, NEW c, c = Client(a), NEW t, t = attempt[a]
        PROVE  /\ t.answer.status \in {200, 201} => t.committed
               /\ t.committed => TookEffect(c)
               /\ t.answer.status \in 400 .. 499 => ~t.committed
               /\ t.answer.code = "duplicate_request" => TookEffect(c)
               /\ t.answer.code \in {"concurrency_conflict",
                                     "illegal_state_transition"} =>
                    /\ rows[request[c].application_id].status = "SUBMITTED"
                    /\ ~TookEffect(c)
    <3>1. Truthful(c, t)
      BY <2>2 DEF TruthInv
    <3>2. t.answer.code \in {"concurrency_conflict", "illegal_state_transition"} =>
            /\ rows[request[c].application_id].status = "SUBMITTED"
            /\ ~TookEffect(c)
      BY <3>1 DEF Truthful, TookEffect, Makes, Target
    <3> QED BY <2>1, <3>1, <3>2 DEF Truthful
  <2>3. \A id \in started : rows[id].status = "SUBMITTED"
    BY DEF TruthInv, TablesInv
  <2> QED BY <2>2, <2>3 DEF AnswersTellTruth
<1> QED BY <1>1, <1>2, <1>3, PTL DEF FairSpec

-----------------------------------------------------------------------------
(* TypeOK and the readiness probe                                          *)

\* A probe is answered by a process that serves.
ProbedInv ==
  /\ readiness = "ready" => client /\ bucket
  /\ process \notin {"serving", "draining"} => readiness = "none"

ProcessInv ==
  /\ process \in {"down", "ensure_object_store", "ensure_workflow_runner",
                  "serving", "draining"}
  /\ process # "down" => /\ settings \in Configurations
                         /\ settings.secret_provider = "env"
                         /\ settings.environment # "production"
  /\ up \subseteq Dependencies
  /\ bucket \in BOOLEAN /\ client \in BOOLEAN
  /\ readiness \in {"none", "ready", "not_ready"}
  /\ faults \in 0 .. MaxFaults

LEMMA FaultStep ==
  ASSUME ProcessInv, Fault
  PROVE  faults' \in 0 .. MaxFaults
BY MaxFaultsAssumption DEF ProcessInv, Fault

\* A probe that answers ready has found the bucket and a client.
LEMMA ReadyChecks ==
  ASSUME \A i \in DOMAIN READINESS_CHECKS : Healthy(READINESS_CHECKS[i])
  PROVE  client /\ bucket
<1>1. /\ 3 \in DOMAIN READINESS_CHECKS /\ READINESS_CHECKS[3] = "object_store"
      /\ 4 \in DOMAIN READINESS_CHECKS /\ READINESS_CHECKS[4] = "workflow_runner"
  BY DEF READINESS_CHECKS
<1>2. Healthy("object_store") /\ Healthy("workflow_runner")
  BY <1>1
<1> QED BY <1>2 DEF Healthy

LEMMA ProcessStep ==
  ASSUME ProcessInv, ProbedInv, [Next]_vars
  PROVE  ProcessInv' /\ ProbedInv'
<1>1. CASE UNCHANGED processVars
  BY <1>1 DEF ProcessInv, ProbedInv, processVars
<1>2. CASE Fault /\ UNCHANGED <<process, settings, up, bucket, client, readiness>>
  BY <1>2, FaultStep DEF ProcessInv, ProbedInv
<1>3. ASSUME NEW a \in Attempts, Send(a) \/ Serve(a) \/ LoseAnswer(a)
      PROVE  \/ UNCHANGED processVars
             \/ Fault /\ UNCHANGED <<process, settings, up, bucket, client, readiness>>
  BY <1>3 DEF Send, Serve, LoseAnswer, ConnectionRefused, Receive, Reserve,
     StatementTimeout, LoadProduct, LoadApplication, Commit, CommitConflicts,
     DatabaseFails, StartWorkflow, Deliver
<1>4. CASE \E s \in Configurations : StartProcess(s)
  BY <1>4 DEF ProcessInv, ProbedInv, StartProcess, build_container,
     _build_secret_provider, _build_authorization_provider
<1>5. CASE EnsureObjectStore
  BY <1>5 DEF ProcessInv, ProbedInv, EnsureObjectStore
<1>6. CASE EnsureWorkflowRunner
  BY <1>6 DEF ProcessInv, ProbedInv, EnsureWorkflowRunner
<1>7. CASE Probe
  BY <1>7, ReadyChecks DEF ProcessInv, ProbedInv, Probe
<1>8. CASE ShutdownContainer
  BY <1>8 DEF ProcessInv, ProbedInv, ShutdownContainer, ProcessEnds
<1>9. CASE CrashProcess
  BY <1>9, FaultStep DEF ProcessInv, ProbedInv, CrashProcess, ProcessEnds
<1>10. CASE \E d \in Fragile : DependencyRecovers(d)
  BY <1>10, FragileAssumption DEF ProcessInv, ProbedInv, DependencyRecovers
<1>11. CASE StopProcess
  BY <1>11, FaultStep DEF ProcessInv, ProbedInv, StopProcess
<1>12. CASE \E d \in Fragile : DependencyFails(d)
  BY <1>12, FaultStep DEF ProcessInv, ProbedInv, DependencyFails
<1> QED BY <1>1, <1>2, <1>3, <1>4, <1>5, <1>6, <1>7, <1>8, <1>9, <1>10, <1>11,
           <1>12 DEF Next, vars, Starting, ProbeReadiness, Shutdown, Crash,
           Recovery, Environment

LEMMA InitProcess ==
  ASSUME Init
  PROVE  ProcessInv /\ ProbedInv
<1>1. process = "down" /\ up = Dependencies /\ readiness = "none" /\ faults = 0
  BY DEF Init, ProcessInit
<1>2. bucket = FALSE /\ client = FALSE
  BY DEF Init, ProcessInit
<1>3. bucket \in BOOLEAN /\ client \in BOOLEAN
  BY <1>2
<1>4. faults \in 0 .. MaxFaults
  BY <1>1, MaxFaultsAssumption
<1> QED BY <1>1, <1>3, <1>4 DEF ProcessInv, ProbedInv

\* The state is of its type, and a process that runs has settings with an
\* adapter for each provider they name (build_container).
THEOREM TypeCorrect == FairSpec => []TypeOK
<1>1. Init => AmountsInv /\ TruthInv /\ ProcessInv /\ ProbedInv
  BY InitAmounts, InitTruth, InitProcess
<1>2. AmountsInv /\ TruthInv /\ ProcessInv /\ ProbedInv /\ [Next]_vars
        => (AmountsInv /\ TruthInv /\ ProcessInv /\ ProbedInv)'
  BY AmountsStep, TruthStep, ProcessStep
<1>3. AmountsInv /\ TruthInv /\ ProcessInv => TypeOK
  <2> SUFFICES ASSUME AmountsInv, TruthInv, ProcessInv PROVE TypeOK
    OBVIOUS
  <2>1. \A c \in Clients : rows[c].status \in {"ABSENT", "DRAFT", "SUBMITTED"}
    BY DEF AmountsInv, ShapeInv, RowType, NoRow
  <2>2. \A a \in Attempts : attempt[a].pc \in Places
    BY DEF AmountsInv, ShapeInv, AttemptType
  <2> QED BY <2>1, <2>2
       DEF TypeOK, ProcessInv, AmountsInv, ShapeInv, TruthInv, TablesInv, Places
<1> QED BY <1>1, <1>2, <1>3, PTL DEF FairSpec

\* The safety half of ReadinessTellsTruth: a process that missed the bucket or
\* Temporal when it started never claims to be ready (readiness_checks).
THEOREM NeverFalselyReady == FairSpec => [](readiness = "ready" => client /\ bucket)
<1>1. Init => ProcessInv /\ ProbedInv
  BY InitProcess
<1>2. ProcessInv /\ ProbedInv /\ [Next]_vars => (ProcessInv /\ ProbedInv)'
  BY ProcessStep
<1>3. ProbedInv => (readiness = "ready" => client /\ bucket)
  BY DEF ProbedInv
<1> QED BY <1>1, <1>2, <1>3, PTL DEF FairSpec
==============================================================================
