---------------------------- MODULE DocumentIntake ---------------------------
(***************************************************************************)
(* A document from its upload to the facts extracted from it: the upload   *)
(* handler (application/commands/upload_document.py) with the file safety  *)
(* scanner, the object store, which takes no part in the database          *)
(* transaction, and the per-document extraction                            *)
(* (application/commands/process_document.py) with the PDF parser and the  *)
(* regex extractor.  Uploads run concurrently with extraction and may be   *)
(* cut off between any two of their steps.                                 *)
(*                                                                         *)
(* A file is a record of what the code looks at: its size, extension and   *)
(* leading bytes, whether pypdf can open it (the scanner goes no further)  *)
(* and how many pages it has, what pypdf meets when it extracts the text   *)
(* of the pages (the parser does), and the markers and fields the text     *)
(* shows.                                                                  *)
(***************************************************************************)
EXTENDS Naturals

CONSTANTS
  Files,         \* the files a client may upload
  UploadKeys,    \* the Idempotency-Key values of uploads
  Sessions,      \* the uploads that can be under way at a time
  Workflows,     \* the executions whose extraction activity runs
  MaxSizeBytes,  \* document_max_size_bytes
  MaxPages,      \* document_max_pages
  MaxAttempts,   \* maximum_attempts of the activity's retry policy
  Times,         \* bound: the times the clocks of the API processes show
  MaxDocuments,  \* bound: document ids handed out
  MaxFaults      \* bound: failures injected into one behaviour

ASSUME LimitsAssumption == MaxSizeBytes \in Nat /\ MaxPages \in Nat
ASSUME AttemptsAssumption == MaxAttempts \in Nat
ASSUME TimesAssumption == Times \subseteq Nat
ASSUME BoundsAssumption == MaxDocuments \in Nat /\ MaxFaults \in Nat

VARIABLES
  upload,     \* the upload sessions
  nextId,     \* the number of document ids handed out
  objects,    \* the object store: key, bytes and content type
  documents,  \* applications.documents
  keys,       \* committed idempotency keys of uploads
  activity,   \* each execution's extraction activity: between attempts, in one
              \* (or answered, when nothing is left to do), or failed for good
  attempt,    \* the attempts it has started
  todo,       \* the listed documents its loop has yet to process
  processed,  \* committed idempotency keys of extractions
  facts,      \* extracted_facts
  runs,       \* extraction_runs
  faults      \* failures injected so far

uploadVars == <<upload, nextId, objects, documents, keys>>
activityVars == <<activity, attempt, todo>>
extractionVars == <<activityVars, processed, facts, runs>>
vars == <<uploadVars, extractionVars, faults>>

NoFile == [extension |-> "none"]
Closed == [pc |-> "idle", key |-> "none", file |-> NoFile, id |-> 0]

Init ==
  /\ upload = [s \in Sessions |-> Closed]
  /\ nextId = 0
  /\ objects = {}
  /\ documents = {}
  /\ keys = {}
  /\ activity = [w \in Workflows |-> "scheduled"]
  /\ attempt = [w \in Workflows |-> 0]
  /\ todo = [w \in Workflows |-> {}]
  /\ processed = {}
  /\ facts = {}
  /\ runs = {}
  /\ faults = 0

-----------------------------------------------------------------------------
(* StubFileSafetyScanner                                                   *)

_ALLOWED_EXTENSIONS ==
  [pdf |-> "application/pdf", png |-> "image/png",
   jpg |-> "image/jpeg",      jpeg |-> "image/jpeg"]

\* The type the leading bytes say the file has, "unknown" for none of the
\* three the scanner looks for.
_sniff_content_type(f) == f.magic

\* Mutant: only the leading bytes are looked at.
SafeByMagic(f) == f.magic # "unknown"

\* What `scan` lets through.
Safe(f) ==
  /\ f.size <= MaxSizeBytes
  /\ f.extension \in DOMAIN _ALLOWED_EXTENSIONS
  /\ _sniff_content_type(f) = _ALLOWED_EXTENSIONS[f.extension]
  /\ _sniff_content_type(f) = "application/pdf" =>
       f.opens /\ ~f.encrypted /\ f.pages <= MaxPages
  /\ _sniff_content_type(f) # "application/pdf" => 1 <= MaxPages

-----------------------------------------------------------------------------
(* UploadDocumentHandler.handle                                            *)

\* Mutant: the key is not held while the upload is under way.
NotHeld(k) == FALSE

\* An open transaction has inserted the key; a second insert of it waits.
Held(k) == \E s \in Sessions : upload[s].pc # "idle" /\ upload[s].key = k

\* The key is reserved, the application found and the file scanned.  A used
\* key and an unsafe file are refused, and nothing is kept of the attempt.
BeginUpload(s, k, f) ==
  /\ upload[s] = Closed
  /\ ~Held(k)
  /\ k \notin keys
  /\ Safe(f)
  /\ nextId < MaxDocuments
  /\ nextId' = nextId + 1
  /\ upload' = [upload EXCEPT ![s] = [pc |-> "put", key |-> k, file |-> f,
                                      id |-> nextId + 1]]
  /\ UNCHANGED <<objects, documents, keys, extractionVars, faults>>

Object(u) ==
  [id |-> u.id, file |-> u.file, content_type |-> _sniff_content_type(u.file)]

PutObject(s) ==
  /\ upload[s].pc = "put"
  /\ objects' = objects \cup {Object(upload[s])}
  /\ upload' = [upload EXCEPT ![s].pc = "commit"]
  /\ UNCHANGED <<nextId, documents, keys, extractionVars, faults>>

\* Mutant: the row is committed before the object is stored.
RowFirst == {"put"}

\* Where the handler inserts the row and commits.
CommitPoint == {"commit"}

\* The row, its event and the key become visible together.  The row carries the
\* time the handler reads off the clock of its own process.
CommitUpload(s, now) ==
  LET u == upload[s]
  IN /\ u.pc \in CommitPoint
     /\ documents' = documents \cup
          {[id |-> u.id, key |-> u.key, checksum |-> u.file,
            uploaded_at |-> now]}
     /\ keys' = keys \cup {u.key}
     /\ upload' = [upload EXCEPT ![s] = Closed]
     /\ UNCHANGED <<nextId, objects, extractionVars, faults>>

\* The store answers too late or not at all, the transaction fails, or the API
\* process dies: the transaction rolls back, an object that was stored stays.
FailUpload(s) ==
  /\ upload[s].pc # "idle"
  /\ faults < MaxFaults
  /\ faults' = faults + 1
  /\ \/ UNCHANGED objects
     \/ /\ upload[s].pc = "put"
        /\ objects' = objects \cup {Object(upload[s])}
  /\ upload' = [upload EXCEPT ![s] = Closed]
  /\ UNCHANGED <<nextId, documents, keys, extractionVars>>

-----------------------------------------------------------------------------
(* extract_document_facts_activity and ProcessDocumentHandler.handle       *)

\* An attempt lists the documents once, in a transaction of its own; the
\* workflow runs the activity only when there is a document.
ListDocuments(w) ==
  /\ activity[w] = "scheduled"
  /\ attempt[w] < MaxAttempts
  /\ documents # {}
  /\ activity' = [activity EXCEPT ![w] = "running"]
  /\ attempt' = [attempt EXCEPT ![w] = @ + 1]
  /\ todo' = [todo EXCEPT ![w] = documents]
  /\ UNCHANGED <<uploadVars, processed, facts, runs, faults>>

\* A failed attempt is followed by another one, which lists again, until the
\* retry policy has no more: the execution then fails with the activity.
AttemptFails(w) ==
  /\ activity' = [activity EXCEPT ![w] =
       IF attempt[w] < MaxAttempts THEN "scheduled" ELSE "failed"]
  /\ todo' = [todo EXCEPT ![w] = {}]
  /\ UNCHANGED <<uploadVars, attempt, processed, facts, runs>>

\* The attempt is lost or times out, or its answer is lost, having processed
\* any of its documents.
LoseAttempt(w) ==
  /\ activity[w] = "running"
  /\ faults < MaxFaults
  /\ faults' = faults + 1
  /\ AttemptFails(w)

\* The facts each field of a recognised template yields.
IncomeProofFacts ==
  [employer |-> {"EMPLOYER_NAME"}, gross_pay |-> {"GROSS_MONTHLY_INCOME"},
   tenure |-> {"TENURE_MONTHS"}]

IdentityDocumentFacts ==
  [name |-> {"APPLICANT_GIVEN_NAME", "APPLICANT_FAMILY_NAME"},
   date_of_birth |-> {"DATE_OF_BIRTH"},
   address |-> {"STREET_ADDRESS", "CITY"},
   synthetic_id |-> {"SYNTHETIC_ID"}]

\* Mutant: what is not a pay stub is taken for an identity document.
ClassifyGuess(f) ==
  IF "pay_stub" \in f.markers THEN "INCOME_PROOF" ELSE "IDENTITY_DOCUMENT"

\* The first marker found decides.
classify(f) ==
  IF "pay_stub" \in f.markers THEN "INCOME_PROOF"
  ELSE IF "identity" \in f.markers THEN "IDENTITY_DOCUMENT"
  ELSE "UNKNOWN"

FactsIn(template, f) ==
  UNION { template[x] : x \in DOMAIN template \cap f.fields }

extract_facts(f, classification) ==
  IF classification = "INCOME_PROOF" THEN FactsIn(IncomeProofFacts, f)
  ELSE IF classification = "IDENTITY_DOCUMENT"
       THEN FactsIn(IdentityDocumentFacts, f)
  ELSE {}

\* What extract_text raises: only PDFs have a parser, and of the errors pypdf
\* meets on a page it maps one.
ParserError(o) ==
  IF o.content_type # "application/pdf" THEN "UnsupportedDocumentTypeError"
  ELSE [extracts |-> "none", PdfReadError |-> "ExtractionFailedError",
        other |-> "other"][o.file.text]

Parses(o) == ParserError(o) = "none"

\* Mutant: only one of the two is caught.
UnreadableOnly == {"ExtractionFailedError"}

\* The errors the handler catches, to record a run without facts.
Caught == {"UnsupportedDocumentTypeError", "ExtractionFailedError"}

StoredObject(d) == CHOOSE o \in objects : o.id = d.id

Stored(d) == \E o \in objects : o.id = d.id

\* The object can be read and, if it cannot be parsed, the error is caught.
Handled(d) ==
  /\ Stored(d)
  /\ Parses(StoredObject(d)) \/ ParserError(StoredObject(d)) \in Caught

\* The documents are listed by upload time and processed one after the other.
IsNext(w, d) ==
  d \in todo[w] /\ \A e \in todo[w] : d.uploaded_at <= e.uploaded_at

\* One transaction: the key, the run and its facts.  A key reserved by an
\* earlier attempt passes the document over.
ProcessDocument(w, d) ==
  LET o == StoredObject(d)
      class == IF Parses(o) THEN classify(o.file) ELSE "UNKNOWN"
      found == IF Parses(o) THEN extract_facts(o.file, class) ELSE {}
  IN /\ IsNext(w, d)
     /\ todo' = [todo EXCEPT ![w] = @ \ {d}]
     /\ IF <<w, d.id>> \in processed
        THEN UNCHANGED <<processed, facts, runs>>
        ELSE /\ Handled(d)
             /\ processed' = processed \cup {<<w, d.id>>}
             /\ runs' = runs \cup {[wf |-> w, doc |-> d.id,
                                    classification |-> class,
                                    parsed |-> Parses(o)]}
             /\ facts' = facts \cup
                  { [wf |-> w, doc |-> d.id, type |-> t, source |-> d.checksum]
                    : t \in found }
     /\ UNCHANGED <<uploadVars, activity, attempt, faults>>

\* A missing object and an error that is not caught roll the transaction back,
\* the key included, and fail the attempt with the rest of its documents.
RaiseFromDocument(w, d) ==
  /\ IsNext(w, d)
  /\ <<w, d.id>> \notin processed
  /\ ~Handled(d)
  /\ AttemptFails(w)
  /\ UNCHANGED faults

-----------------------------------------------------------------------------

Uploading(s) == PutObject(s) \/ \E now \in Times : CommitUpload(s, now)

Extraction(w) ==
  \/ ListDocuments(w)
  \/ \E d \in todo[w] : ProcessDocument(w, d) \/ RaiseFromDocument(w, d)

Next ==
  \/ \E s \in Sessions :
       \/ \E k \in UploadKeys, f \in Files : BeginUpload(s, k, f)
       \/ Uploading(s)
       \/ FailUpload(s)
  \/ \E w \in Workflows : Extraction(w) \/ LoseAttempt(w)

Spec == Init /\ [][Next]_vars

\* Requests that were accepted go on and the worker retries its activity.
Fairness ==
  /\ \A s \in Sessions : WF_vars(Uploading(s))
  /\ \A w \in Workflows : WF_vars(Extraction(w))

FairSpec == Spec /\ Fairness

-----------------------------------------------------------------------------
(* Properties                                                              *)

\* Every table and every session holds values of its type; only files that the
\* scanner's limits allow are ever in the store.
TypeOK ==
  /\ upload \in [Sessions ->
       [pc : {"put", "commit"}, key : UploadKeys, file : Files,
        id : 1 .. MaxDocuments] \cup {Closed}]
  /\ nextId \in 0 .. MaxDocuments
  /\ objects \subseteq [id : 1 .. MaxDocuments, file : Files,
                        content_type : {"application/pdf", "image/png",
                                        "image/jpeg"}]
  /\ \A o \in objects :
       /\ o.file.size <= MaxSizeBytes
       /\ o.content_type = "application/pdf" => ~o.file.encrypted
  /\ documents \subseteq [id : 1 .. MaxDocuments, key : UploadKeys,
                          checksum : Files, uploaded_at : Times]
  /\ keys \subseteq UploadKeys
  /\ activity \in [Workflows -> {"scheduled", "running", "failed"}]
  /\ attempt \in [Workflows -> 0 .. MaxAttempts]
  /\ todo \in [Workflows -> SUBSET documents]
  /\ processed \subseteq Workflows \X (1 .. MaxDocuments)
  /\ faults \in 0 .. MaxFaults

\* Every row of the documents table has its object in the store, with the bytes
\* the row's checksum is of: however an upload ends, extraction can read what
\* the table lists.  The converse is not promised.
RowsHaveObjects ==
  \A d \in documents :
    \E o \in objects : o.id = d.id /\ o.file = d.checksum

\* However often an upload is retried, before or after it was cut off, its key
\* stands for one document.
OneDocumentPerKey ==
  /\ \A d, e \in documents : d.key = e.key => d = e
  /\ \A s \in Sessions : upload[s].pc # "idle" => upload[s].key \notin keys

\* No fact is made up: each names the file it was read from, the file is a PDF
\* of a known template that shows the field, and a run that classified its
\* document as UNKNOWN has none.
FactsHaveProvenance ==
  \A x \in facts :
    LET f == x.source
    IN /\ \E d \in documents : d.id = x.doc /\ d.checksum = f
       /\ f.magic = "application/pdf"
       /\ \/ /\ "pay_stub" \in f.markers
             /\ \E y \in f.fields \cap DOMAIN IncomeProofFacts :
                  x.type \in IncomeProofFacts[y]
          \/ /\ "identity" \in f.markers
             /\ \E y \in f.fields \cap DOMAIN IdentityDocumentFacts :
                  x.type \in IdentityDocumentFacts[y]
       /\ \A r \in runs :
            r.wf = x.wf /\ r.doc = x.doc => r.classification # "UNKNOWN"

\* A text that meets an error pypdf does not call PdfReadError: the parser does
\* not map it and the handler does not catch it.
BreaksParser(f) == f.magic = "application/pdf" /\ f.text = "other"

\* The retry policy outlasts the failures that may still come.
AttemptsSuffice(w) == attempt[w] + (MaxFaults - faults) <= MaxAttempts

\* Every document an execution has listed is concluded by it, the ones that have
\* no parser or are corrupt included, as long as lost attempts do not use up the
\* retry policy.  The one exception is where the code falls short of "not a hard
\* failure" (process_document.py:5-9): a text that breaks the parser may cost
\* its own document and the ones uploaded after it, and no other.  A document
\* uploaded after the listing is not promised to be concluded.
ListedIsConcluded ==
  \A w \in Workflows : \A i \in 1 .. MaxDocuments :
    (AttemptsSuffice(w) /\ \E d \in todo[w] : d.id = i) ~>
      \/ \E r \in runs : r.wf = w /\ r.doc = i
      \/ \E d, e \in documents : /\ d.id = i
                                /\ e.uploaded_at <= d.uploaded_at
                                /\ BreaksParser(e.checksum)
==============================================================================
