------------------------- MODULE DocumentIntakeProofs ------------------------
(***************************************************************************)
(* For any files, any number of concurrent uploads, executions and         *)
(* failures: the documents table never lists what the store cannot give, a *)
(* key stands for one document, and every fact can be traced to the file   *)
(* it was read from.                                                       *)
(***************************************************************************)
EXTENDS DocumentIntake, TLAPS

UploadType ==
  [pc : {"put", "commit"}, key : UploadKeys, file : Files,
   id : 1 .. MaxDocuments]

\* What an upload under way owns: a document id and a key that nobody else
\* uses, a file the scanner let through and, once it may commit, the object.
OwnsUpload(u) ==
  /\ Safe(u.file)
  /\ u.id <= nextId
  /\ u.key \notin keys
  /\ \A d \in documents : d.id # u.id
  /\ \A o \in objects : o.id = u.id => o = Object(u)
  /\ u.pc = "commit" => Object(u) \in objects

UploadsInv ==
  \A s \in Sessions : upload[s] # Closed => OwnsUpload(upload[s])

UploadsApart ==
  \A s, t \in Sessions :
    s # t /\ upload[s] # Closed /\ upload[t] # Closed =>
      upload[s].id # upload[t].id /\ upload[s].key # upload[t].key

\* An id names one object, which holds a file the scanner let through.
StoreInv ==
  /\ \A o \in objects : /\ o.id <= nextId
                        /\ Safe(o.file)
                        /\ o.content_type = _sniff_content_type(o.file)
  /\ \A o, p \in objects : o.id = p.id => o = p

RowsInv ==
  /\ \A d \in documents : d.id <= nextId /\ d.key \in keys
  /\ RowsHaveObjects
  /\ \A d, e \in documents : d.key = e.key => d = e

\* Runs and facts are written in the transaction that writes their key.
ExtractionInv ==
  /\ \A r \in runs : <<r.wf, r.doc>> \in processed
  /\ \A x \in facts : <<x.wf, x.doc>> \in processed
  /\ FactsHaveProvenance

Inv ==
  TypeOK /\ UploadsInv /\ UploadsApart /\ StoreInv /\ RowsInv /\ ExtractionInv

-----------------------------------------------------------------------------
(* Sessions and files                                                      *)

LEMMA ClosedIsIdle ==
  /\ Closed.pc = "idle"
  /\ \A u \in UploadType : u # Closed /\ u.pc # "idle"
BY DEF Closed, UploadType

\* A session is closed or is in one of its two places.
LEMMA SessionCases ==
  ASSUME TypeOK, NEW s \in Sessions
  PROVE  /\ upload[s] \in UploadType \cup {Closed}
         /\ upload[s].pc # "idle" <=> upload[s] # Closed
         /\ upload[s] # Closed => upload[s] \in UploadType
<1>1. upload[s] \in UploadType \cup {Closed}
  BY DEF TypeOK, UploadType
<1> QED BY <1>1, ClosedIsIdle

\* The content types the scanner's table knows.
LEMMA SafeContentType ==
  ASSUME NEW f, Safe(f)
  PROVE  f.magic \in {"application/pdf", "image/png", "image/jpeg"}
BY DEF Safe, _ALLOWED_EXTENSIONS, _sniff_content_type

LEMMA ObjectFields ==
  ASSUME NEW u
  PROVE  /\ Object(u).id = u.id
         /\ Object(u).file = u.file
         /\ Object(u).content_type = u.file.magic
BY DEF Object, _sniff_content_type

LEMMA ObjectTyped ==
  ASSUME NEW u \in UploadType, Safe(u.file)
  PROVE  /\ Object(u) \in [id : 1 .. MaxDocuments, file : Files,
                           content_type : {"application/pdf", "image/png",
                                           "image/jpeg"}]
         /\ Object(u).file.size <= MaxSizeBytes
         /\ Object(u).content_type = "application/pdf" =>
              ~Object(u).file.encrypted
<1>1. u.file.magic \in {"application/pdf", "image/png", "image/jpeg"}
  BY SafeContentType
<1>2. u.id \in 1 .. MaxDocuments /\ u.file \in Files
  BY DEF UploadType
<1>3. u.file.size <= MaxSizeBytes
  BY DEF Safe
<1>4. u.file.magic = "application/pdf" => ~u.file.encrypted
  BY DEF Safe, _sniff_content_type
<1> QED BY <1>1, <1>2, <1>3, <1>4 DEF Object, _sniff_content_type

LEMMA InitInv ==
  ASSUME Init
  PROVE  Inv
<1>1. nextId \in 0 .. MaxDocuments /\ faults \in 0 .. MaxFaults
  BY BoundsAssumption DEF Init
<1>2. /\ activity \in [Workflows -> {"scheduled", "running", "failed"}]
      /\ attempt \in [Workflows -> 0 .. MaxAttempts]
  BY AttemptsAssumption DEF Init
<1>3. TypeOK
  BY <1>1, <1>2 DEF Init, TypeOK
<1>4. UploadsInv /\ UploadsApart /\ StoreInv /\ RowsInv /\ ExtractionInv
  BY DEF Init, UploadsInv, UploadsApart, StoreInv, RowsInv, RowsHaveObjects,
         ExtractionInv, FactsHaveProvenance
<1> QED BY <1>3, <1>4 DEF Inv

-----------------------------------------------------------------------------
(* The upload                                                              *)

\* Facts stay traceable while the documents table grows.
LEMMA ExtractionKept ==
  ASSUME ExtractionInv, documents \subseteq documents',
         UNCHANGED <<processed, facts, runs>>
  PROVE  ExtractionInv'
BY DEF ExtractionInv, FactsHaveProvenance

LEMMA BeginInv ==
  ASSUME Inv, NEW s \in Sessions, NEW k \in UploadKeys, NEW f \in Files,
         BeginUpload(s, k, f)
  PROVE  Inv'
<1> DEFINE u == [pc |-> "put", key |-> k, file |-> f, id |-> nextId + 1]
<1>1. /\ upload' = [upload EXCEPT ![s] = u]
      /\ nextId' = nextId + 1 /\ nextId < MaxDocuments
      /\ Safe(f) /\ k \notin keys /\ ~Held(k)
      /\ UNCHANGED <<objects, documents, keys, extractionVars, faults>>
  BY DEF BeginUpload
<1>2. nextId \in Nat /\ nextId' \in 1 .. MaxDocuments
  BY <1>1, BoundsAssumption DEF Inv, TypeOK
<1>3. u \in UploadType /\ u.id = nextId + 1 /\ u.key = k /\ u.file = f /\ u.pc = "put"
  BY <1>1, <1>2 DEF UploadType
<1> HIDE DEF u
<1>4. upload' \in [Sessions -> UploadType \cup {Closed}]
  BY <1>1, <1>3 DEF Inv, TypeOK, UploadType
<1>5. TypeOK'
  BY <1>1, <1>2, <1>4 DEF Inv, TypeOK, UploadType, extractionVars, activityVars
<1>6. /\ \A o \in objects : o.id <= nextId /\ o.id \in Nat
      /\ \A d \in documents : d.id <= nextId /\ d.id \in Nat
  BY DEF Inv, TypeOK, StoreInv, RowsInv
<1>8. \A t \in Sessions \ {s} : upload'[t] = upload[t]
  BY <1>1
<1>9. upload'[s] = u
  BY <1>1 DEF Inv, TypeOK
<1>7. OwnsUpload(upload[s])'
  BY <1>1, <1>2, <1>3, <1>6, <1>9 DEF OwnsUpload, Safe
<1>10. ASSUME NEW t \in Sessions, t # s, upload[t] # Closed
       PROVE  /\ OwnsUpload(upload[t]) /\ OwnsUpload(upload[t])'
              /\ upload[t].id <= nextId /\ upload[t].id \in Nat
              /\ upload[t].key # k
  <2>1. OwnsUpload(upload[t]) /\ upload[t] \in UploadType
    BY <1>10, SessionCases DEF Inv, UploadsInv
  <2>2. upload[t].id <= nextId /\ upload[t].id \in Nat
    BY <2>1 DEF OwnsUpload, UploadType
  <2>3. upload[t].key # k
    BY <1>1, <1>10, SessionCases DEF Held, Inv
  <2>4. upload[t].id <= nextId'
    BY <1>1, <1>2, <2>2
  <2>5. upload'[t] = upload[t]
    BY <1>8, <1>10
  <2>6. OwnsUpload(upload[t])'
    BY <1>1, <2>1, <2>4, <2>5 DEF OwnsUpload, Safe, Object, _sniff_content_type
  <2> QED BY <2>1, <2>2, <2>3, <2>6
<1>11. UploadsInv'
  <2> SUFFICES ASSUME NEW t \in Sessions, upload'[t] # Closed
               PROVE  OwnsUpload(upload[t])'
    BY DEF UploadsInv
  <2> QED BY <1>7, <1>8, <1>10
<1>12. UploadsApart'
  <2> SUFFICES ASSUME NEW a \in Sessions, NEW b \in Sessions, a # b,
                      upload'[a] # Closed, upload'[b] # Closed
               PROVE  upload'[a].id # upload'[b].id /\ upload'[a].key # upload'[b].key
    BY DEF UploadsApart
  <2>1. CASE a # s /\ b # s
    BY <2>1, <1>8 DEF Inv, UploadsApart
  <2>2. CASE a = s
    BY <2>2, <1>2, <1>3, <1>8, <1>9, <1>10
  <2>3. CASE b = s
    BY <2>3, <1>2, <1>3, <1>8, <1>9, <1>10
  <2> QED BY <2>1, <2>2, <2>3
<1>13. StoreInv'
  BY <1>1, <1>2, <1>6 DEF Inv, StoreInv, Safe
<1>14. RowsInv'
  BY <1>1, <1>2, <1>6 DEF Inv, RowsInv, RowsHaveObjects
<1>15. ExtractionInv'
  BY <1>1, ExtractionKept DEF Inv, extractionVars
<1> QED BY <1>5, <1>11, <1>12, <1>13, <1>14, <1>15 DEF Inv

\* Storing the object of an upload under way leaves every promise about the
\* store, the rows and the other uploads as it was.
LEMMA StoreGrows ==
  ASSUME Inv, NEW s \in Sessions, upload[s] # Closed,
         \/ objects' = objects
         \/ objects' = objects \cup {Object(upload[s])},
         UNCHANGED <<nextId, documents, keys>>
  PROVE  /\ StoreInv' /\ RowsInv'
         /\ objects' \subseteq [id : 1 .. MaxDocuments, file : Files,
                                content_type : {"application/pdf", "image/png",
                                                "image/jpeg"}]
         /\ \A o \in objects' :
              /\ o.file.size <= MaxSizeBytes
              /\ o.content_type = "application/pdf" => ~o.file.encrypted
         /\ \A t \in Sessions :
              t # s /\ upload[t] # Closed /\ upload'[t] = upload[t] =>
                OwnsUpload(upload[t])'
<1> DEFINE u == upload[s]
           o0 == Object(upload[s])
<1>1. OwnsUpload(u) /\ u \in UploadType
  BY SessionCases DEF Inv, UploadsInv
<1>2. o0.id = u.id /\ o0.file = u.file /\ o0.content_type = u.file.magic
  BY ObjectFields
<1>3. Safe(u.file) /\ u.id <= nextId /\ \A o \in objects : o.id = u.id => o = o0
  BY <1>1 DEF OwnsUpload
<1>4. /\ o0 \in [id : 1 .. MaxDocuments, file : Files,
                 content_type : {"application/pdf", "image/png", "image/jpeg"}]
      /\ o0.file.size <= MaxSizeBytes
      /\ o0.content_type = "application/pdf" => ~o0.file.encrypted
  BY <1>1, <1>3, ObjectTyped
<1>5. ASSUME NEW t \in Sessions, t # s, upload[t] # Closed,
             upload'[t] = upload[t]
      PROVE  OwnsUpload(upload[t])'
  <2>1. OwnsUpload(upload[t]) /\ upload[t].id # u.id
    BY <1>5 DEF Inv, UploadsInv, UploadsApart
  <2>2. ASSUME NEW o \in objects', o.id = upload[t].id PROVE o = Object(upload[t])
    BY <2>1, <2>2, <1>2 DEF OwnsUpload
  <2> HIDE DEF u, o0
  <2>3. upload[t].pc = "commit" => Object(upload[t]) \in objects'
    BY <2>1 DEF OwnsUpload
  <2> QED BY <2>1, <2>2, <2>3, <1>5 DEF OwnsUpload, Safe, Object, _sniff_content_type
<1> HIDE DEF u, o0
<1>6. objects' = objects \/ objects' = objects \cup {o0}
  BY DEF o0
<1>7. StoreInv'
  <2>1. \A o \in objects' : /\ o.id <= nextId
                            /\ Safe(o.file)
                            /\ o.content_type = o.file.magic
    BY <1>2, <1>3, <1>6 DEF Inv, StoreInv, _sniff_content_type
  <2>2. \A o, p \in objects' : o.id = p.id => o = p
    BY <1>2, <1>3, <1>6 DEF Inv, StoreInv
  <2> QED BY <2>1, <2>2 DEF StoreInv, Safe, _sniff_content_type
<1>8. RowsInv'
  BY <1>6 DEF Inv, RowsInv, RowsHaveObjects
<1>9. objects' \subseteq [id : 1 .. MaxDocuments, file : Files,
                          content_type : {"application/pdf", "image/png",
                                          "image/jpeg"}]
  BY <1>4, <1>6 DEF Inv, TypeOK
<1>10. \A o \in objects' :
         /\ o.file.size <= MaxSizeBytes
         /\ o.content_type = "application/pdf" => ~o.file.encrypted
  BY <1>4, <1>6 DEF Inv, TypeOK
<1> QED BY <1>5, <1>7, <1>8, <1>9, <1>10

LEMMA PutInv ==
  ASSUME Inv, NEW s \in Sessions, PutObject(s)
  PROVE  Inv'
<1> DEFINE u == [upload[s] EXCEPT !.pc = "commit"]
<1>1. /\ upload[s].pc = "put"
      /\ objects' = objects \cup {Object(upload[s])}
      /\ upload' = [upload EXCEPT ![s] = u]
      /\ UNCHANGED <<nextId, documents, keys, extractionVars, faults>>
  BY DEF PutObject, Inv, TypeOK
<1>2. upload[s] # Closed /\ upload[s] \in UploadType /\ OwnsUpload(upload[s])
  BY <1>1, SessionCases DEF Inv, UploadsInv
<1>3. /\ u \in UploadType /\ u.id = upload[s].id /\ u.key = upload[s].key
      /\ u.file = upload[s].file
  BY <1>2 DEF UploadType
<1>4. Object(u) = Object(upload[s])
  BY <1>3 DEF Object
<1> HIDE DEF u
<1>5. /\ \A t \in Sessions \ {s} : upload'[t] = upload[t]
      /\ upload'[s] = u
  BY <1>1 DEF Inv, TypeOK
<1>6. upload' \in [Sessions -> UploadType \cup {Closed}]
  BY <1>1, <1>3 DEF Inv, TypeOK, UploadType
<1>7. /\ StoreInv' /\ RowsInv'
      /\ \A t \in Sessions :
           t # s /\ upload[t] # Closed /\ upload'[t] = upload[t] =>
             OwnsUpload(upload[t])'
  BY <1>1, <1>2, StoreGrows
<1>8. TypeOK'
  BY <1>1, <1>2, <1>6, StoreGrows DEF Inv, TypeOK, UploadType, extractionVars, activityVars
<1>9. OwnsUpload(upload[s])'
  BY <1>1, <1>2, <1>3, <1>4, <1>5 DEF OwnsUpload, Safe, Object, _sniff_content_type
<1>10. UploadsInv'
  <2> SUFFICES ASSUME NEW t \in Sessions, upload'[t] # Closed
               PROVE  OwnsUpload(upload[t])'
    BY DEF UploadsInv
  <2> QED BY <1>5, <1>7, <1>9
<1>11. UploadsApart'
  BY <1>2, <1>3, <1>5 DEF Inv, UploadsApart
<1>12. ExtractionInv'
  BY <1>1, ExtractionKept DEF Inv, extractionVars
<1> QED BY <1>7, <1>8, <1>10, <1>11, <1>12 DEF Inv

LEMMA FailInv ==
  ASSUME Inv, NEW s \in Sessions, FailUpload(s)
  PROVE  Inv'
<1>1. /\ upload[s].pc # "idle"
      /\ objects' = objects \/ objects' = objects \cup {Object(upload[s])}
      /\ upload' = [upload EXCEPT ![s] = Closed]
      /\ UNCHANGED <<nextId, documents, keys, extractionVars>>
      /\ faults < MaxFaults /\ faults' = faults + 1
  BY DEF FailUpload
<1>2. upload[s] # Closed
  BY <1>1, SessionCases DEF Inv
<1>3. /\ \A t \in Sessions \ {s} : upload'[t] = upload[t]
      /\ upload'[s] = Closed
  BY <1>1 DEF Inv, TypeOK
<1>4. upload' \in [Sessions -> UploadType \cup {Closed}]
  BY <1>1 DEF Inv, TypeOK, UploadType
<1>5. /\ StoreInv' /\ RowsInv'
      /\ \A t \in Sessions :
           t # s /\ upload[t] # Closed /\ upload'[t] = upload[t] =>
             OwnsUpload(upload[t])'
  BY <1>1, <1>2, StoreGrows
<1>6. faults' \in 0 .. MaxFaults
  BY <1>1, BoundsAssumption DEF Inv, TypeOK
<1>7. TypeOK'
  BY <1>1, <1>2, <1>4, <1>6, StoreGrows DEF Inv, TypeOK, UploadType, extractionVars, activityVars
<1>8. UploadsInv'
  <2> SUFFICES ASSUME NEW t \in Sessions, upload'[t] # Closed
               PROVE  OwnsUpload(upload[t])'
    BY DEF UploadsInv
  <2> QED BY <1>3, <1>5
<1>9. UploadsApart'
  BY <1>3 DEF Inv, UploadsApart
<1>10. ExtractionInv'
  BY <1>1, ExtractionKept DEF Inv, extractionVars
<1> QED BY <1>5, <1>7, <1>8, <1>9, <1>10 DEF Inv

LEMMA CommitInv ==
  ASSUME Inv, NEW s \in Sessions, NEW now \in Times, CommitUpload(s, now)
  PROVE  Inv'
<1> DEFINE u == upload[s]
           row == [id |-> u.id, key |-> u.key, checksum |-> u.file,
                  uploaded_at |-> now]
<1>1. /\ u.pc = "commit"
      /\ documents' = documents \cup {row}
      /\ keys' = keys \cup {u.key}
      /\ upload' = [upload EXCEPT ![s] = Closed]
      /\ UNCHANGED <<nextId, objects, extractionVars, faults>>
  BY DEF CommitUpload, CommitPoint
<1>2. u # Closed /\ u \in UploadType /\ OwnsUpload(u)
  BY <1>1, SessionCases DEF Inv, UploadsInv
<1>3. /\ row.id = u.id /\ row.key = u.key /\ row.checksum = u.file
      /\ row \in [id : 1 .. MaxDocuments, key : UploadKeys, checksum : Files,
                 uploaded_at : Times]
  BY <1>2 DEF UploadType
<1>4. /\ \A t \in Sessions \ {s} : upload'[t] = upload[t]
      /\ upload'[s] = Closed
  BY <1>1 DEF Inv, TypeOK
<1>5. upload' \in [Sessions -> UploadType \cup {Closed}]
  BY <1>1 DEF Inv, TypeOK, UploadType
<1>6. /\ Object(u) \in objects /\ Object(u).id = u.id /\ Object(u).file = u.file
      /\ u.id <= nextId /\ u.key \notin keys
  BY <1>1, <1>2, ObjectFields DEF OwnsUpload
<1>7. \A t \in Sessions \ {s} :
        upload[t] # Closed => upload[t].id # u.id /\ upload[t].key # u.key
  BY <1>2 DEF Inv, UploadsApart
<1>8. UploadsInv'
  <2> SUFFICES ASSUME NEW t \in Sessions, upload'[t] # Closed
               PROVE  OwnsUpload(upload[t])'
    BY DEF UploadsInv
  <2>1. t # s /\ upload'[t] = upload[t] /\ upload[t] # Closed
    BY <1>4
  <2>2. OwnsUpload(upload[t]) /\ upload[t].id # u.id /\ upload[t].key # u.key
    BY <2>1, <1>7 DEF Inv, UploadsInv
  <2> HIDE DEF row, u
  <2> QED BY <1>1, <1>3, <2>1, <2>2
       DEF OwnsUpload, Safe, Object, _sniff_content_type
<1> HIDE DEF row, u
<1>9. TypeOK'
  <2>1. keys' \subseteq UploadKeys
    BY <1>1, <1>2 DEF Inv, TypeOK, UploadType
  <2>2. todo' \in [Workflows -> SUBSET documents']
    BY <1>1 DEF Inv, TypeOK, extractionVars, activityVars
  <2>3. documents' \subseteq [id : 1 .. MaxDocuments, key : UploadKeys,
                              checksum : Files, uploaded_at : Times]
    BY <1>1, <1>3 DEF Inv, TypeOK
  <2> QED BY <1>1, <1>5, <2>1, <2>2, <2>3
       DEF Inv, TypeOK, UploadType, extractionVars, activityVars
<1>10. UploadsApart'
  BY <1>4 DEF Inv, UploadsApart
<1>11. StoreInv'
  BY <1>1 DEF Inv, StoreInv, Safe
<1>12. RowsInv'
  <2>1. \A d \in documents' : d.id <= nextId' /\ d.key \in keys'
    BY <1>1, <1>3, <1>6 DEF Inv, RowsInv
  <2>2. RowsHaveObjects'
    BY <1>1, <1>3, <1>6 DEF Inv, RowsInv, RowsHaveObjects
  <2>3. \A d, e \in documents' : d.key = e.key => d = e
    BY <1>1, <1>3, <1>6 DEF Inv, RowsInv
  <2> QED BY <2>1, <2>2, <2>3 DEF RowsInv
<1>13. ExtractionInv'
  BY <1>1, ExtractionKept DEF Inv, extractionVars
<1> QED BY <1>8, <1>9, <1>10, <1>11, <1>12, <1>13 DEF Inv

-----------------------------------------------------------------------------
(* The extraction                                                          *)

\* Nothing an upload relies on changes while documents are extracted.
LEMMA UploadKept ==
  ASSUME Inv, UNCHANGED uploadVars
  PROVE  UploadsInv' /\ UploadsApart' /\ StoreInv' /\ RowsInv'
<1>1. UploadsInv'
  BY DEF Inv, uploadVars, UploadsInv, OwnsUpload, Safe, Object,
         _sniff_content_type
<1>2. UploadsApart' /\ StoreInv' /\ RowsInv'
  BY DEF Inv, uploadVars, UploadsApart, StoreInv, RowsInv, RowsHaveObjects, Safe,
         _sniff_content_type
<1> QED BY <1>1, <1>2

LEMMA ListInv ==
  ASSUME Inv, NEW w \in Workflows, ListDocuments(w)
  PROVE  Inv'
<1>1. UploadsInv' /\ UploadsApart' /\ StoreInv' /\ RowsInv'
  BY UploadKept DEF ListDocuments
<1>2. attempt' \in [Workflows -> 0 .. MaxAttempts]
  BY AttemptsAssumption DEF Inv, TypeOK, ListDocuments
<1>3. TypeOK'
  BY <1>2 DEF Inv, TypeOK, ListDocuments, uploadVars
<1>4. ExtractionInv'
  BY ExtractionKept DEF Inv, ListDocuments, uploadVars
<1> QED BY <1>1, <1>3, <1>4 DEF Inv

\* A failed attempt writes nothing, whatever made it fail.
LEMMA AttemptFailsInv ==
  ASSUME Inv, NEW w \in Workflows, AttemptFails(w), faults' \in 0 .. MaxFaults
  PROVE  Inv'
<1>1. UploadsInv' /\ UploadsApart' /\ StoreInv' /\ RowsInv'
  BY UploadKept DEF AttemptFails
<1>2. activity' \in [Workflows -> {"scheduled", "running", "failed"}]
  BY DEF Inv, TypeOK, AttemptFails
<1>3. todo' \in [Workflows -> SUBSET documents']
  BY DEF Inv, TypeOK, AttemptFails, uploadVars
<1>4. TypeOK'
  BY <1>2, <1>3 DEF Inv, TypeOK, AttemptFails, uploadVars
<1>5. ExtractionInv'
  BY ExtractionKept DEF Inv, AttemptFails, uploadVars
<1> QED BY <1>1, <1>4, <1>5 DEF Inv

LEMMA LoseInv ==
  ASSUME Inv, NEW w \in Workflows, LoseAttempt(w)
  PROVE  Inv'
<1>1. faults' \in 0 .. MaxFaults
  BY BoundsAssumption DEF Inv, TypeOK, LoseAttempt
<1> QED BY <1>1, AttemptFailsInv DEF LoseAttempt

LEMMA RaiseInv ==
  ASSUME Inv, NEW w \in Workflows, NEW d, RaiseFromDocument(w, d)
  PROVE  Inv'
<1>1. faults' \in 0 .. MaxFaults
  BY DEF Inv, TypeOK, RaiseFromDocument
<1> QED BY <1>1, AttemptFailsInv DEF RaiseFromDocument

\* What extraction reads under a row's id is the file the row was written for.
LEMMA ReadsItsFile ==
  ASSUME Inv, NEW d \in documents
  PROVE  /\ StoredObject(d) \in objects
         /\ StoredObject(d).file = d.checksum
         /\ StoredObject(d).content_type = d.checksum.magic
<1>1. PICK p \in objects : p.id = d.id /\ p.file = d.checksum
  BY DEF Inv, RowsInv, RowsHaveObjects
<1>2. StoredObject(d) \in objects /\ StoredObject(d).id = d.id
  BY <1>1 DEF StoredObject
<1>3. StoredObject(d) = p
  BY <1>1, <1>2 DEF Inv, StoreInv
<1> QED BY <1>1, <1>2, <1>3 DEF Inv, StoreInv, _sniff_content_type

\* A fact type is found in a text only through a field the text shows, of the
\* template its marker names; a text of neither template yields none.
LEMMA FoundInTemplate ==
  ASSUME NEW f, NEW t \in extract_facts(f, classify(f))
  PROVE  /\ classify(f) # "UNKNOWN"
         /\ \/ /\ "pay_stub" \in f.markers
               /\ \E y \in f.fields \cap DOMAIN IncomeProofFacts :
                    t \in IncomeProofFacts[y]
            \/ /\ "identity" \in f.markers
               /\ \E y \in f.fields \cap DOMAIN IdentityDocumentFacts :
                    t \in IdentityDocumentFacts[y]
<1>1. CASE "pay_stub" \in f.markers
  <2>1. classify(f) = "INCOME_PROOF"
    BY <1>1 DEF classify
  <2>2. t \in FactsIn(IncomeProofFacts, f)
    BY <2>1 DEF extract_facts
  <2> QED BY <1>1, <2>1, <2>2 DEF FactsIn
<1>2. CASE "pay_stub" \notin f.markers /\ "identity" \in f.markers
  <2>1. classify(f) = "IDENTITY_DOCUMENT"
    BY <1>2 DEF classify
  <2>2. t \in FactsIn(IdentityDocumentFacts, f)
    BY <2>1 DEF extract_facts
  <2> QED BY <1>2, <2>1, <2>2 DEF FactsIn
<1>3. CASE "pay_stub" \notin f.markers /\ "identity" \notin f.markers
  BY <1>3 DEF classify, extract_facts
<1> QED BY <1>1, <1>2, <1>3

LEMMA ProcessInv ==
  ASSUME Inv, NEW w \in Workflows, NEW d \in todo[w], ProcessDocument(w, d)
  PROVE  Inv'
<1>1. UNCHANGED uploadVars /\ UNCHANGED <<activity, attempt, faults>>
      /\ todo' = [todo EXCEPT ![w] = @ \ {d}]
  BY DEF ProcessDocument
<1>2. UploadsInv' /\ UploadsApart' /\ StoreInv' /\ RowsInv'
  BY <1>1, UploadKept
<1>3. d \in documents /\ d.id \in 1 .. MaxDocuments
  BY DEF Inv, TypeOK
<1>4. todo' \in [Workflows -> SUBSET documents']
  BY <1>1 DEF Inv, TypeOK, uploadVars
<1>5. CASE <<w, d.id>> \in processed
  <2>1. UNCHANGED <<processed, facts, runs>>
    BY <1>5 DEF ProcessDocument
  <2>2. TypeOK'
    BY <2>1, <1>1, <1>4 DEF Inv, TypeOK, uploadVars
  <2>3. ExtractionInv'
    BY <2>1, <1>1, ExtractionKept DEF Inv, uploadVars
  <2> QED BY <1>2, <2>2, <2>3 DEF Inv
<1>6. CASE <<w, d.id>> \notin processed
  <2> DEFINE o == StoredObject(d)
             class == IF Parses(o) THEN classify(o.file) ELSE "UNKNOWN"
             found == IF Parses(o) THEN extract_facts(o.file, class) ELSE {}
             run == [wf |-> w, doc |-> d.id, classification |-> class,
                     parsed |-> Parses(o)]
             fact(t) == [wf |-> w, doc |-> d.id, type |-> t,
                         source |-> d.checksum]
  <2>1. /\ processed' = processed \cup {<<w, d.id>>}
        /\ runs' = runs \cup {run}
        /\ facts' = facts \cup { fact(t) : t \in found }
    BY <1>6 DEF ProcessDocument
  <2>2. o.file = d.checksum /\ o.content_type = d.checksum.magic
    BY <1>3, ReadsItsFile
  <2>3. ASSUME NEW t \in found
        PROVE  /\ d.checksum.magic = "application/pdf"
               /\ class # "UNKNOWN"
               /\ \/ /\ "pay_stub" \in d.checksum.markers
                     /\ \E y \in d.checksum.fields \cap DOMAIN IncomeProofFacts :
                          t \in IncomeProofFacts[y]
                  \/ /\ "identity" \in d.checksum.markers
                     /\ \E y \in d.checksum.fields
                                   \cap DOMAIN IdentityDocumentFacts :
                          t \in IdentityDocumentFacts[y]
    <3>1. Parses(o)
      BY <2>3
    <3>2. class = classify(d.checksum)
          /\ t \in extract_facts(d.checksum, classify(d.checksum))
      BY <3>1, <2>2, <2>3
    <3>3. d.checksum.magic = "application/pdf"
      BY <3>1, <2>2 DEF Parses, ParserError
    <3> QED BY <3>2, <3>3, FoundInTemplate
  <2>4. /\ run.wf = w /\ run.doc = d.id /\ run.classification = class
        /\ \A t : /\ fact(t).wf = w /\ fact(t).doc = d.id
                  /\ fact(t).type = t /\ fact(t).source = d.checksum
    OBVIOUS
  <2> HIDE DEF o, class, found, run, fact
  <2>5. TypeOK'
    BY <2>1, <1>1, <1>3, <1>4 DEF Inv, TypeOK, uploadVars
  <2>6. /\ \A r \in runs' : <<r.wf, r.doc>> \in processed'
        /\ \A x \in facts' : <<x.wf, x.doc>> \in processed'
    BY <2>1, <2>4 DEF Inv, ExtractionInv
  \* A key that is new has neither runs nor facts.
  <2>7. /\ \A r \in runs : ~(r.wf = w /\ r.doc = d.id)
        /\ \A x \in facts : ~(x.wf = w /\ x.doc = d.id)
    BY <1>6 DEF Inv, ExtractionInv
  <2>8. documents' = documents
    BY <1>1 DEF uploadVars
  <2>9. ASSUME NEW x \in facts', x \in facts,
               NEW r \in runs', r.wf = x.wf, r.doc = x.doc
        PROVE  r.classification # "UNKNOWN"
    <3>1. r \in runs
      BY <2>1, <2>4, <2>7, <2>9
    <3> QED BY <3>1, <2>9 DEF Inv, ExtractionInv, FactsHaveProvenance
  <2>10. ASSUME NEW t \in found, NEW r \in runs', r.wf = w, r.doc = d.id
         PROVE  r.classification # "UNKNOWN"
    <3>1. r = run
      BY <2>1, <2>7, <2>10
    <3> QED BY <3>1, <2>3, <2>4
  <2>11. FactsHaveProvenance'
    <3> SUFFICES ASSUME NEW x \in facts'
                 PROVE  LET f == x.source
                        IN /\ \E e \in documents : e.id = x.doc /\ e.checksum = f
                           /\ f.magic = "application/pdf"
                           /\ \/ /\ "pay_stub" \in f.markers
                                 /\ \E y \in f.fields \cap DOMAIN IncomeProofFacts :
                                      x.type \in IncomeProofFacts[y]
                              \/ /\ "identity" \in f.markers
                                 /\ \E y \in f.fields
                                               \cap DOMAIN IdentityDocumentFacts :
                                      x.type \in IdentityDocumentFacts[y]
                           /\ \A r \in runs' :
                                r.wf = x.wf /\ r.doc = x.doc =>
                                  r.classification # "UNKNOWN"
      BY <2>8 DEF FactsHaveProvenance
    <3>1. CASE x \in facts
      BY <3>1, <2>9 DEF Inv, ExtractionInv, FactsHaveProvenance
    <3>2. CASE x \notin facts
      <4>1. PICK t \in found : x = fact(t)
        BY <3>2, <2>1
      <4>2. x.wf = w /\ x.doc = d.id /\ x.type = t /\ x.source = d.checksum
        BY <4>1, <2>4
      <4>3. \A r \in runs' : r.wf = w /\ r.doc = d.id => r.classification # "UNKNOWN"
        BY <2>10
      <4> QED BY <4>2, <4>3, <2>3, <1>3
    <3> QED BY <3>1, <3>2
  <2>12. ExtractionInv'
    BY <2>6, <2>11 DEF ExtractionInv
  <2> QED BY <1>2, <2>5, <2>12 DEF Inv
<1> QED BY <1>5, <1>6

-----------------------------------------------------------------------------
(* Theorems                                                                *)

LEMMA StepInv ==
  ASSUME Inv, [Next]_vars
  PROVE  Inv'
<1>1. CASE UNCHANGED vars
  <2>1. UNCHANGED uploadVars /\ UNCHANGED extractionVars /\ UNCHANGED faults
    BY <1>1 DEF vars
  <2>2. UploadsInv' /\ UploadsApart' /\ StoreInv' /\ RowsInv'
    BY <2>1, UploadKept
  <2>3. ExtractionInv'
    BY <2>1, ExtractionKept DEF Inv, uploadVars, extractionVars
  <2>4. TypeOK'
    BY <2>1 DEF Inv, TypeOK, uploadVars, extractionVars, activityVars
  <2> QED BY <2>2, <2>3, <2>4 DEF Inv
<1>2. CASE Next
  BY <1>2, BeginInv, PutInv, CommitInv, FailInv, ListInv, LoseInv, ProcessInv,
           RaiseInv
     DEF Next, Uploading, Extraction
<1> QED BY <1>1, <1>2

LEMMA Invariant == Spec => []Inv
<1>1. Init => Inv
  BY InitInv
<1>2. Inv /\ [Next]_vars => Inv'
  BY StepInv
<1> QED BY <1>1, <1>2, PTL DEF Spec

\* Every table and session keeps its type, and only files within the scanner's
\* limits are ever stored (StubFileSafetyScanner.scan).
THEOREM TypeCorrect == Spec => []TypeOK
<1>1. Inv => TypeOK
  BY DEF Inv
<1> QED BY <1>1, Invariant, PTL

\* However uploads interleave and wherever they are cut off, a row of the
\* documents table has its object, with its bytes (UploadDocumentHandler).
THEOREM RowsAreBacked == Spec => []RowsHaveObjects
<1>1. Inv => RowsHaveObjects
  BY DEF Inv, RowsInv
<1> QED BY <1>1, Invariant, PTL

\* An Idempotency-Key stands for at most one document, and an upload under way
\* has a key that no finished one used (UploadDocumentHandler).
THEOREM KeysAreUnique == Spec => []OneDocumentPerKey
<1>1. Inv => OneDocumentPerKey
  <2> SUFFICES ASSUME Inv PROVE OneDocumentPerKey
    OBVIOUS
  <2>1. \A s \in Sessions : upload[s].pc # "idle" => upload[s].key \notin keys
    BY SessionCases DEF Inv, UploadsInv, OwnsUpload
  <2> QED BY <2>1 DEF Inv, RowsInv, OneDocumentPerKey
<1> QED BY <1>1, Invariant, PTL

\* Every extracted fact was read from the file its document row names, by the
\* template that file shows (ProcessDocumentHandler, RegexDocumentExtractor).
THEOREM FactsAreTraceable == Spec => []FactsHaveProvenance
<1>1. Inv => FactsHaveProvenance
  BY DEF Inv, ExtractionInv
<1> QED BY <1>1, Invariant, PTL
==============================================================================
