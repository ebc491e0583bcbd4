------------------------- MODULE FileTransfersProofs -------------------------
(***************************************************************************)
(* Proofs about FileTransfers, for any number of requests being served,    *)
(* any sets of batches and files, and any number of deaths of the host:    *)
(* type correctness, that the clipboard is asked once to take a batch, and *)
(* that effects happen only under the permit of their admission.           *)
(***************************************************************************)
EXTENDS FileTransfers, TLAPS

-----------------------------------------------------------------------------
(* The inductive invariant.                                                *)

Older == Posts \cup Singles

BatchPlaces == {"store", "cancel", "stored", "verify", "mark", "settle"}

\* Where a request may be: past uploadMu only its holder, and the older paths
\* keep to their places.
PlaceOK(h) ==
  /\ At(h, "idle") => req[h] = Idle
  /\ req[h].at \notin {"idle", "accepted"} /\ req[h].kind \in NeedsUpload => upload = h
  /\ req[h].at \in BatchPlaces => req[h].file \in Batches
  /\ req[h].kind = "receipt" => req[h].at \in {"accepted", "lookup"}

\* Whoever is about to offer a batch has recorded that, durably before the copy.
BatchOK(h) ==
  req[h].file \in Batches =>
    /\ req[h].at \in {"mark", "copy"} => attempts[req[h].file] = 0
    /\ req[h].at \in {"copy", "keep", "settle"} => "none" \notin survives[req[h].file]

\* Who is to publish has found nothing; who offers has published.
OlderOK(h) ==
  /\ req[h].file \in Posts =>
       /\ req[h].at \in {"receive", "guard", "effect"} => record[req[h].file] = "none"
       /\ req[h].at \in {"offer", "claim", "copy"} =>
            attempts[req[h].file] = 0 \/ req[h].file \in undone
  /\ req[h].file \in Older /\ req[h].at \in {"offer", "claim", "copy", "keep"} =>
       record[req[h].file] # "none"
  /\ req[h].file \in Singles /\ ~At(h, "idle") =>
       attempts[req[h].file] = 0 /\ req[h].file \notin undone

HandlerOK(h) == PlaceOK(h) /\ BatchOK(h) /\ OlderOK(h)

\* A batch whose record could be gone has never been offered; an older file that
\* has been offered is published, unless a power loss has undone that.
FileOK(f) ==
  /\ "saved" \in survives[f] => f \in Singles
  /\ f \in Batches => attempts[f] <= 1 /\ ("none" \in survives[f] => attempts[f] = 0)
  /\ f \in Older =>
       /\ attempts[f] >= 1 => record[f] # "none" \/ f \in undone
       /\ attempts[f] > 1 => f \in Posts /\ f \in undone

\* A single file is the business of one request.
Alone ==
  \A g, h \in Handlers :
    g # h /\ ~At(g, "idle") /\ ~At(h, "idle") /\ req[g].file \in Singles
      => req[g].file # req[h].file

FInv ==
  /\ TypeOK /\ Alone
  /\ \A h \in Handlers : HandlerOK(h)
  /\ \A f \in Files : FileOK(f)

-----------------------------------------------------------------------------
(* Types.                                                                  *)

LEMMA IdleTyped == Idle \in Requests /\ Idle.at = "idle" /\ Idle.at \notin Gated
<1>1. (CHOOSE f \in Files : TRUE) \in Files
  BY TransferAssumption
<1>2. NoPermit \in Permits
  BY DEF NoPermit, Permits, Scopes
<1>3. QED
  BY <1>1, <1>2 DEF Idle, Requests, Places, Gated, Kinds

LEMMA PermitTyped ==
  ASSUME GateTypeOK(Handlers), NEW scope \in Scopes
  PROVE  Permit(scope) \in Permits
BY DEF GateTypeOK, Permit, Permits

-----------------------------------------------------------------------------
(* Footprints.                                                             *)

\* Nobody else is at a place where the disk of this file matters.
Owns(h) ==
  /\ req[h].at # "idle"
  /\ req[h].file \in Batches => gate \in {h, "free"}
  /\ req[h].file \in Posts => req[h].kind = "post" /\ req[h].at # "accepted"

\* A step of one handler keeps the invariant if it keeps what concerns this
\* handler and its file, and touches the disk only of a file it owns.
LEMMA HandlerStep ==
  ASSUME FInv, TypeOK', NEW h \in Handlers,
         \A g \in Handlers : g # h => req'[g] = req[g],
         req'[h].at = "idle" \/ (req[h].at # "idle" /\ req'[h].file = req[h].file),
         HandlerOK(h)', NEW mine \in Files, mine = req[h].file, FileOK(mine)',
         \A g \in Handlers : g # h /\ upload = g => upload' = g,
         undone' = undone,
         \A f \in Files : f # mine =>
            record'[f] = record[f] /\ survives'[f] = survives[f] /\ attempts'[f] = attempts[f],
         Owns(h) \/ UNCHANGED <<record, survives, attempts>>
  PROVE  FInv'
<1>1. Alone'
  BY DEF FInv, Alone, At
<1>2. ASSUME NEW g \in Handlers PROVE HandlerOK(g)'
  <2>1. CASE g = h
    BY <2>1
  <2>2. CASE g # h
    <3>1. HandlerOK(g) /\ req'[g] = req[g] /\ req[g].file \in Files /\ req[h].file \in Files
      BY <2>2 DEF FInv, TypeOK, Requests
    <3>2. PlaceOK(g)'
      BY <2>2, <3>1 DEF HandlerOK, PlaceOK, At
    <3>3. CASE req[g].file # req[h].file \/ UNCHANGED <<record, survives, attempts>>
      BY <3>1, <3>2, <3>3 DEF HandlerOK, BatchOK, OlderOK, At
    <3>4. CASE req[g].file = req[h].file /\ Owns(h)
      <4>1. CASE req[g].file \in Batches
        <5>1. req[g].at \notin Gated
          BY <2>2, <3>4, <4>1, TransferAssumption DEF Owns, FInv, TypeOK
        <5>2. BatchOK(g)'
          BY <3>1, <5>1 DEF BatchOK, Gated
        <5>3. OlderOK(g)'
          BY <3>1, <4>1, TransferAssumption DEF OlderOK, Older
        <5>4. QED
          BY <3>2, <5>2, <5>3 DEF HandlerOK
      <4>2. CASE req[g].file \in Posts
        <5>1. req[g].at \in {"idle", "accepted", "lookup"}
          <6>1. upload = h
            BY <3>4, <4>2 DEF Owns, FInv, HandlerOK, PlaceOK, NeedsUpload
          <6>2. req[g].at = "idle" \/ req[g].kind \in {"post", "receipt"}
            BY <4>2, TransferAssumption DEF FInv, TypeOK, Identities, Requests
          <6>3. QED
            BY <2>2, <3>1, <6>1, <6>2 DEF HandlerOK, PlaceOK, NeedsUpload
        <5>2. BatchOK(g)' /\ OlderOK(g)'
          BY <3>1, <4>2, <5>1, TransferAssumption DEF BatchOK, OlderOK, Older
        <5>3. QED
          BY <3>2, <5>2 DEF HandlerOK
      <4>3. CASE req[g].file \in Singles
        <5>1. req[g].at = "idle"
          BY <2>2, <3>4, <4>3 DEF Owns, FInv, Alone, At
        <5>2. BatchOK(g)' /\ OlderOK(g)'
          BY <3>1, <4>3, <5>1, TransferAssumption DEF BatchOK, OlderOK, Older, At
        <5>3. QED
          BY <3>2, <5>2 DEF HandlerOK
      <4>4. QED
        BY <3>1, <4>1, <4>2, <4>3 DEF Files
    <3>5. QED
      BY <3>3, <3>4
  <2>3. QED
    BY <2>1, <2>2
<1>3. ASSUME NEW f \in Files PROVE FileOK(f)'
  <2>1. CASE f = mine
    BY <2>1
  <2>2. CASE f # mine
    BY <2>2 DEF FInv, FileOK
  <2>3. QED
    BY <2>1, <2>2
<1>4. QED
  BY <1>1, <1>2, <1>3 DEF FInv

\* What a step of one handler leaves the disk and the history: typed.
DiskTyped ==
  /\ phase' \in [Batches -> Phases]
  /\ record' \in [Files -> Records] /\ survives' \in [Files -> SUBSET Records]
  /\ \A f \in Files : record'[f] \in survives'[f]
  /\ attempts' \in [Files -> Nat] /\ copied' \subseteq Files /\ undone' \subseteq Files

LEMMA TypesKept ==
  ASSUME TypeOK, NEW h \in Handlers, NEW r \in Requests, req' = [req EXCEPT ![h] = r],
         r.file \in Identities[r.kind] \/ r.at = "idle",
         r.at \in Gated <=> gate' = h,
         gate' = gate \/ (gate \in {h, "free"} /\ gate' \in {h, "free"}),
         UNCHANGED <<todo, session, incomplete, closing, restarts>>, sent' \in Nat,
         DiskTyped, told' \in [Files -> SUBSET Claims],
         store' \in Handlers \cup {"free"}, upload' \in Handlers \cup {"free"}
  PROVE  TypeOK'
<1> USE TransferAssumption
<1>1. GateTypeOK(Handlers)'
  BY DEF TypeOK, GateTypeOK, session
<1>2. req' \in [Handlers -> Requests] /\ restarts' \in Nat
  BY DEF TypeOK
<1>3. ASSUME NEW g \in Handlers
      PROVE  /\ req'[g].file \in Identities[req'[g].kind] \/ req'[g].at = "idle"
             /\ req'[g].at \in Gated <=> gate' = g
  <2>1. CASE g = h
    BY <2>1 DEF TypeOK
  <2>2. CASE g # h
    <3>1. req'[g] = req[g] /\ (gate' = g <=> gate = g)
      BY <2>2 DEF TypeOK
    <3>2. QED
      BY <3>1 DEF TypeOK
  <2>3. QED
    BY <2>1, <2>2
<1>4. QED
  BY <1>1, <1>2, <1>3 DEF TypeOK, DiskTyped

\* A handler goes to another place, or takes or leaves locks on the way.
LEMMA MoveStep ==
  ASSUME FInv, NEW h \in Handlers, NEW r \in Requests, req' = [req EXCEPT ![h] = r],
         ~At(h, "idle"), r.file = req[h].file, r.kind = req[h].kind,
         r.at \in Gated <=> gate' = h,
         gate' = gate \/ (gate \in {h, "free"} /\ gate' \in {h, "free"}),
         Ungated, UNCHANGED told, DiskTyped,
         store' \in {store, h, "free"}, upload' \in {upload, h}, upload' # upload => upload = "free",
         NEW mine \in Files, mine = req[h].file,
         HandlerOK(h)', FileOK(mine)', undone' = undone,
         \A f \in Files : f # mine =>
            record'[f] = record[f] /\ survives'[f] = survives[f] /\ attempts'[f] = attempts[f],
         Owns(h) \/ UNCHANGED <<record, survives, attempts>>
  PROVE  FInv'
<1> USE TransferAssumption
<1>1. req[h] \in Requests /\ req[h].file \in Identities[req[h].kind]
  BY DEF FInv, TypeOK, At
<1>2. TypeOK'
  <2>1. told' \in [Files -> SUBSET Claims]
    BY DEF FInv, TypeOK
  <2>2. store' \in Handlers \cup {"free"} /\ upload' \in Handlers \cup {"free"}
    BY DEF FInv, TypeOK
  <2>3. UNCHANGED <<todo, session, incomplete, closing, restarts>> /\ sent' \in Nat
    BY DEF FInv, TypeOK, Ungated, bounds
  <2>4. QED
    BY <1>1, <2>1, <2>2, <2>3, TypesKept DEF FInv
<1>3. \A g \in Handlers : g # h => req'[g] = req[g]
  BY DEF FInv, TypeOK
<1>4. req'[h].file = req[h].file /\ req[h].at # "idle" /\ req[h].file \in Files
  BY <1>1 DEF FInv, TypeOK, At, Requests
<1>5. \A g \in Handlers : g # h /\ upload = g => upload' = g
  OBVIOUS
<1>6. QED
  BY <1>2, <1>3, <1>4, <1>5, HandlerStep

\* A handler answers.
LEMMA AnswerStep ==
  ASSUME FInv, NEW h \in Handlers, NEW claims \in SUBSET Claims, Answer(h, claims),
         ~At(h, "idle"), Ungated, DiskTyped,
         NEW mine \in Files, mine = req[h].file, FileOK(mine)', undone' = undone,
         \A f \in Files : f # mine =>
            record'[f] = record[f] /\ survives'[f] = survives[f] /\ attempts'[f] = attempts[f],
         Owns(h) \/ UNCHANGED <<record, survives, attempts>>
  PROVE  FInv'
<1> USE TransferAssumption
<1>1. /\ req' = [req EXCEPT ![h] = Idle] /\ req'[h] = Idle
      /\ \A g \in Handlers : g # h => req'[g] = req[g]
  BY DEF Answer, FInv, TypeOK
<1>2. TypeOK'
  <2>1. told' \in [Files -> SUBSET Claims]
    BY DEF FInv, TypeOK, Answer, Requests
  <2>2. store' \in Handlers \cup {"free"} /\ upload' \in Handlers \cup {"free"}
    BY DEF FInv, TypeOK, Answer, Without
  <2>3. UNCHANGED <<todo, session, incomplete, closing, restarts>> /\ sent' \in Nat
    BY DEF FInv, TypeOK, Ungated, bounds
  <2>4. gate' # h /\ (gate' = gate \/ (gate = h /\ gate' = "free"))
    BY DEF FInv, TypeOK, GateTypeOK, Answer, Without
  <2>5. QED
    BY <1>1, <2>1, <2>2, <2>3, <2>4, IdleTyped, TypesKept DEF FInv
<1>3. HandlerOK(h)'
  BY <1>1, IdleTyped DEF HandlerOK, PlaceOK, BatchOK, OlderOK, At, Idle, BatchPlaces
<1>4. \A g \in Handlers : g # h /\ upload = g => upload' = g
  BY DEF Answer, Without
<1>5. QED
  BY <1>1, <1>2, <1>3, <1>4, IdleTyped, HandlerStep

\* Neither the records nor the history change.
Untouched == UNCHANGED <<record, survives, history>> /\ phase' \in [Batches -> Phases]

LEMMA UntouchedEffect ==
  ASSUME FInv, Untouched
  PROVE  /\ DiskTyped /\ undone' = undone /\ UNCHANGED <<record, survives, attempts>>
         /\ \A f \in Files : FileOK(f)'
<1>1. DiskTyped
  BY DEF Untouched, DiskTyped, FInv, TypeOK, history
<1>2. \A f \in Files : FileOK(f)'
  BY DEF Untouched, history, FInv, FileOK
<1>3. QED
  BY <1>1, <1>2 DEF Untouched, history

LEMMA PlainAnswer ==
  ASSUME FInv, NEW h \in Handlers, NEW claims \in SUBSET Claims, Answer(h, claims),
         ~At(h, "idle"), Ungated, Untouched
  PROVE  FInv'
<1>1. req[h].file \in Files
  BY DEF FInv, TypeOK, Requests
<1>2. FileOK(req[h].file) /\ DiskTyped /\ undone' = undone
      /\ UNCHANGED <<record, survives, attempts>> /\ \A f \in Files : FileOK(f)'
  BY <1>1, UntouchedEffect DEF FInv
<1>3. QED
  BY <1>1, <1>2, AnswerStep

\* A handler that does not hold the gate goes to another place outside it.
LEMMA PlainMove ==
  ASSUME FInv, NEW h \in Handlers, NEW r \in Requests, req' = [req EXCEPT ![h] = r],
         req[h].at \notin Gated \cup {"idle", "accepted"},
         r.at \notin Gated \cup {"idle", "accepted"},
         r.file = req[h].file, r.kind = req[h].kind,
         Ungated, Untouched, UNCHANGED <<gate, upload, told>>, store' \in {store, h},
         r.at \in BatchPlaces => r.file \in Batches,
         r.kind = "receipt" => r.at = "lookup",
         r.file \in Posts /\ r.at \in {"receive", "guard"} => record[r.file] = "none",
         r.file \in Posts /\ r.at \in {"offer", "claim"} =>
            attempts[r.file] = 0 \/ r.file \in undone,
         r.file \in Older /\ r.at \in {"offer", "claim"} => record[r.file] # "none"
  PROVE  FInv'
<1>1. req[h].file \in Files /\ req'[h] = r
  BY DEF FInv, TypeOK, Requests
<1>2. FileOK(req[h].file) /\ DiskTyped /\ undone' = undone
      /\ UNCHANGED <<record, survives, attempts>> /\ \A f \in Files : FileOK(f)'
  BY <1>1, UntouchedEffect DEF FInv
<1>3. HandlerOK(h)
  BY DEF FInv
<1>4. PlaceOK(h)'
  BY <1>1, <1>3 DEF HandlerOK, PlaceOK, At, Gated
<1>5. BatchOK(h)'
  BY <1>1 DEF BatchOK, Gated
<1>6. OlderOK(h)'
  BY <1>1, <1>2, <1>3 DEF HandlerOK, OlderOK, At, Gated
<1>7. HandlerOK(h)'
  BY <1>4, <1>5, <1>6 DEF HandlerOK
<1>8. r.at \in Gated <=> gate' = h
  BY DEF FInv, TypeOK
<1>9. ~At(h, "idle")
  BY DEF At
<1>10. QED
  BY <1>1, <1>2, <1>7, <1>8, <1>9, MoveStep

\* Goes, as a change of one request.
LEMMA GoesEffect ==
  ASSUME FInv, NEW h \in Handlers, NEW place \in Places,
         req' = [req EXCEPT ![h].at = place]
  PROVE  \E r \in Requests : /\ req' = [req EXCEPT ![h] = r]
                             /\ r = [req[h] EXCEPT !.at = place]
                             /\ r.at = place /\ r.file = req[h].file /\ r.kind = req[h].kind
<1>1. req[h] \in Requests
  BY DEF FInv, TypeOK
<1>2. [req[h] EXCEPT !.at = place] \in Requests
  BY <1>1 DEF Requests
<1>3. QED
  BY <1>1, <1>2 DEF Requests

\* A request for a batch goes to another place outside the gate.
LEMMA BatchGoes ==
  ASSUME FInv, NEW h \in Handlers,
         NEW place \in {"guard", "cancel", "stored", "lookup", "verify", "claim"},
         req' = [req EXCEPT ![h].at = place],
         req[h].at \in {"store", "cancel", "lookup", "verify"}, req[h].file \in Batches,
         Ungated, Untouched, UNCHANGED <<gate, upload, told>>, store' \in {store, h}
  PROVE  FInv'
<1>1. place \in Places /\ place \notin Gated \cup {"idle", "accepted"}
      /\ req[h].at \notin Gated \cup {"idle", "accepted"}
  BY DEF Places, Gated
<1>2. PICK r \in Requests :
        /\ req' = [req EXCEPT ![h] = r]
        /\ r.at = place /\ r.file = req[h].file /\ r.kind = req[h].kind
  BY <1>1, GoesEffect
<1>3. r.kind # "receipt" /\ r.file \notin Posts /\ r.file \notin Older
  BY <1>2, TransferAssumption DEF FInv, TypeOK, Identities, Requests, Older
<1>4. QED
  BY <1>1, <1>2, <1>3, PlainMove

-----------------------------------------------------------------------------
(* A request, and its admission.                                           *)

LEMMA AcceptStep ==
  ASSUME FInv, NEW h \in Handlers, NEW k \in Kinds, NEW f \in Files, NEW e \in {0, epoch},
         Accept(h, k, f, e)
  PROVE  FInv'
<1> USE TransferAssumption
<1> DEFINE r == [Idle EXCEPT !.at = "accepted", !.kind = k, !.file = f, !.epoch = e]
<1>1. r \in Requests /\ r.at = "accepted" /\ r.kind = k /\ r.file = f /\ r.at \notin Gated
  <2>1. e \in Nat
    BY DEF FInv, TypeOK, GateTypeOK
  <2>2. QED
    BY <2>1, IdleTyped DEF Requests, Places, Gated
<1>2. /\ req' = [req EXCEPT ![h] = r] /\ req'[h] = r
      /\ \A g \in Handlers : g # h => req'[g] = req[g]
  BY DEF Accept, FInv, TypeOK
<1>3. req[h].at = "idle" /\ gate # h
  BY DEF Accept, At, FInv, TypeOK, Gated
<1>4. /\ UNCHANGED <<control, disk, store, upload, restarts, history, told>>
      /\ sent' \in Nat /\ f \in Identities[k]
  BY DEF Accept, FInv, TypeOK
<1>5. TypeOK'
  <2>1. DiskTyped
    BY <1>4 DEF DiskTyped, FInv, TypeOK, disk, history
  <2>2. /\ UNCHANGED <<todo, session, incomplete, closing, restarts>> /\ gate' = gate
        /\ told' \in [Files -> SUBSET Claims]
        /\ store' \in Handlers \cup {"free"} /\ upload' \in Handlers \cup {"free"}
    BY <1>4 DEF FInv, TypeOK, control
  <2>3. QED
    BY <1>1, <1>2, <1>3, <1>4, <2>1, <2>2, TypesKept DEF FInv
<1>6. f \in Singles => /\ record[f] = "none" /\ f \notin undone
                      /\ \A other \in Handlers : At(other, "idle") \/ req[other].file # f
  BY DEF Accept, At
<1>7. Alone'
  BY <1>1, <1>2, <1>6 DEF FInv, Alone, At
<1>8. ASSUME NEW x \in Files PROVE FileOK(x)'
  BY <1>4 DEF FInv, FileOK, disk, history
<1>9. ASSUME NEW g \in Handlers PROVE HandlerOK(g)'
  <2>1. CASE g = h
    <3>1. f \in Singles => attempts[f] = 0
      BY <1>6 DEF FInv, FileOK, Older, TypeOK
    <3>2. PlaceOK(h)' /\ BatchOK(h)'
      BY <1>1, <1>2 DEF PlaceOK, BatchOK, At, BatchPlaces
    <3>3. req'[h].at = "accepted" /\ req'[h].file = f /\ attempts' = attempts /\ undone' = undone
      BY <1>1, <1>2, <1>4 DEF history
    <3>4. OlderOK(h)'
      BY <1>6, <3>1, <3>3 DEF OlderOK
    <3>5. QED
      BY <2>1, <3>2, <3>4 DEF HandlerOK
  <2>2. CASE g # h
    BY <1>2, <1>4, <2>2 DEF FInv, HandlerOK, PlaceOK, BatchOK, OlderOK, At, disk, history
  <2>3. QED
    BY <2>1, <2>2
<1>10. QED
  BY <1>5, <1>7, <1>8, <1>9 DEF FInv

LEMMA QuietUntouched == FInv /\ Quiet => Ungated /\ Untouched
BY DEF Quiet, Untouched, disk, FInv, TypeOK

LEMMA ArriveStep ==
  ASSUME FInv, NEW h \in Handlers, Arrive(h)
  PROVE  FInv'
<1>1. At(h, "accepted") /\ ~At(h, "idle") /\ Ungated /\ Untouched
  BY QuietUntouched DEF Arrive, At
<1>2. CASE Answer(h, Error)
  BY <1>1, <1>2, PlainAnswer DEF Error
<1>3. ASSUME NEW scope \in Scopes,
             req' = [req EXCEPT ![h].at = First[req[h].kind], ![h].permit = Permit(scope)],
             req[h].kind \in NeedsUpload => upload = "free",
             upload' = IF req[h].kind \in NeedsUpload THEN h ELSE upload,
             UNCHANGED <<gate, store, told>>
      PROVE  FInv'
  <2> DEFINE r == [req[h] EXCEPT !.at = First[req[h].kind], !.permit = Permit(scope)]
  <2>1. req[h] \in Requests /\ req[h].kind \in Kinds /\ req[h].file \in Identities[req[h].kind]
    BY <1>1 DEF FInv, TypeOK, Requests, At
  <2>2. First[req[h].kind] \in {"lookup", "receive", "cancel", "store"}
    BY <2>1 DEF First
  <2>3. /\ r \in Requests /\ r.at = First[req[h].kind]
        /\ r.file = req[h].file /\ r.kind = req[h].kind
    BY <2>1, <2>2, PermitTyped DEF Requests, Places, FInv, TypeOK
  <2>4. req' = [req EXCEPT ![h] = r] /\ req'[h] = r
    BY <1>3, <2>1 DEF FInv, TypeOK
  <2> HIDE DEF r
  <2>5. /\ DiskTyped /\ undone' = undone /\ UNCHANGED <<record, survives, attempts>>
        /\ \A f \in Files : FileOK(f)'
    BY <1>1, <2>1, UntouchedEffect DEF Requests
  <2>6. HandlerOK(h)'
    <3>1. HandlerOK(h)
      BY DEF FInv
    <3>2. r.kind = "receipt" => r.at = "lookup"
      BY <2>3, <2>1 DEF First
    <3>3. req[h].file \in Posts => r.at = "lookup"
      BY <2>1, <2>3, TransferAssumption DEF Identities, First
    <3>4. PlaceOK(h)'
      <4>1. r.at \in BatchPlaces => r.file \in Batches
        BY <2>1, <2>3 DEF Identities, First, BatchPlaces
      <4>2. QED
        BY <1>3, <2>2, <2>3, <2>4, <3>2, <4>1 DEF PlaceOK, At
    <3>5. BatchOK(h)'
      BY <2>2, <2>3, <2>4 DEF BatchOK
    <3>6. /\ req'[h].at \in {"lookup", "receive", "cancel", "store"}
          /\ req'[h].file = req[h].file /\ attempts' = attempts /\ undone' = undone
          /\ req[h].file \in Posts => req'[h].at = "lookup"
      BY <2>2, <2>3, <2>4, <2>5, <3>3
    <3>7. req[h].file \in Singles => attempts[req[h].file] = 0 /\ req[h].file \notin undone
      BY <1>1, <3>1 DEF HandlerOK, OlderOK, At
    <3>8. OlderOK(h)'
      BY <3>6, <3>7 DEF OlderOK
    <3>9. QED
      BY <3>4, <3>5, <3>8 DEF HandlerOK
  <2>7. r.at \in Gated <=> gate' = h
    BY <1>1, <1>3, <2>2, <2>3 DEF FInv, TypeOK, Gated, At
  <2>8. upload' \in {upload, h} /\ (upload' # upload => upload = "free") /\ store' = store
        /\ gate' = gate /\ UNCHANGED told
    BY <1>3
  <2>9. QED
    BY <1>1, <2>1, <2>3, <2>4, <2>5, <2>6, <2>7, <2>8, MoveStep DEF Requests
<1>4. QED
  BY <1>1, <1>2, <1>3 DEF Arrive, Scopes

LEMMA RefuseStep ==
  ASSUME FInv, NEW h \in Handlers, Refuse(h)
  PROVE  FInv'
<1>1. ~At(h, "idle") /\ Ungated /\ Untouched /\ Answer(h, Error)
  BY QuietUntouched DEF Refuse, At
<1>2. QED
  BY <1>1, PlainAnswer DEF Error

-----------------------------------------------------------------------------
(* Version 2: what the store is asked for.                                 *)

\* The store's operations as the contract describes them.
LEMMA PhaseTyped ==
  ASSUME TypeOK, NEW b \in Batches,
         \/ Promise!Receive(b, "manifest") \/ Promise!Store(b) \/ Promise!Cancel(b)
         \/ Promise!Break(b) \/ Promise!Expire(b) \/ Promise!Forget(b)
  PROVE  phase' \in [Batches -> Phases]
<1>1. phase \in [Batches -> Phases]
  BY DEF TypeOK
<1>2. \E p \in Phases : phase' = [phase EXCEPT ![b] = p]
  BY DEF Promise!Receive, Promise!Store, Promise!Cancel, Promise!Break, Promise!Expire,
         Promise!Forget, Promise!Become, Phases
<1>3. QED
  BY <1>1, <1>2

\* A request at the store is one for a batch, which the store may hand on.
LEMMA StorePlace ==
  ASSUME FInv, NEW h \in Handlers, req[h].at \in {"store", "cancel", "stored"}
  PROVE  ~At(h, "idle") /\ req[h].file \in Batches
BY DEF FInv, HandlerOK, PlaceOK, BatchPlaces, At

LEMMA ReplyClaims == ASSUME NEW h, Reply(h) PROVE \E c \in SUBSET Claims : Answer(h, c)
BY DEF Reply, Claims

LEMMA AskStep ==
  ASSUME FInv, NEW h \in Handlers,
         Status(h) \/ Begin(h) \/ Chunk(h) \/ Commit(h) \/ Clipboard(h)
  PROVE  FInv'
<1>1. req[h].at = "store" /\ Ungated /\ Untouched
  BY QuietUntouched DEF Status, Begin, Chunk, Commit, Clipboard, Asks, At
<1>2. ~At(h, "idle") /\ req[h].file \in Batches
  BY <1>1, StorePlace
<1>3. CASE Answer(h, Error)
  BY <1>1, <1>2, <1>3, PlainAnswer DEF Error
<1>4. CASE Reply(h)
  BY <1>1, <1>2, <1>4, ReplyClaims, PlainAnswer
<1>5. CASE Goes(h, "stored") \/ Goes(h, "lookup")
  BY <1>1, <1>2, <1>5, BatchGoes DEF Goes, locks
<1>6. CASE Guards(h)
  BY <1>1, <1>2, <1>6, BatchGoes DEF Guards
<1>7. QED
  BY <1>3, <1>4, <1>5, <1>6 DEF Status, Begin, Chunk, Commit, Clipboard

LEMMA DiscardStep ==
  ASSUME FInv, NEW h \in Handlers, Discard(h) \/ Cancel(h)
  PROVE  FInv'
<1>1. req[h].at \in {"store", "cancel"}
  BY DEF Discard, Cancel, Asks, At
<1>2. ~At(h, "idle") /\ req[h].file \in Batches
  BY <1>1, StorePlace
<1>3. Ungated /\ UNCHANGED <<record, survives, history>>
  BY DEF Discard, Cancel
<1>4. phase' \in [Batches -> Phases]
  BY <1>2, PhaseTyped DEF Discard, Cancel, FInv, TypeOK
<1>5. Untouched
  BY <1>3, <1>4 DEF Untouched
<1>6. CASE Answer(h, Error) \/ Answer(h, {"cancelled"})
  BY <1>2, <1>3, <1>5, <1>6, PlainAnswer DEF Error, Claims
<1>7. CASE Reply(h)
  BY <1>2, <1>3, <1>5, <1>7, ReplyClaims, PlainAnswer
<1>8. CASE Goes(h, "stored") \/ Goes(h, "cancel")
  BY <1>1, <1>2, <1>3, <1>5, <1>8, BatchGoes DEF Goes, locks
<1>9. QED
  BY <1>6, <1>7, <1>8 DEF Discard, Cancel

LEMMA SweepStep == ASSUME FInv, NEW b \in Batches, Sweep(b) PROVE FInv'
<1>1. phase' \in [Batches -> Phases]
  BY PhaseTyped DEF Sweep, FInv
<1>2. /\ UNCHANGED <<control, record, survives, store, upload, req, bounds, history>>
      /\ told' = [told EXCEPT ![b] = @ \ {"cancelled"}]
  BY DEF Sweep
<1>3. TypeOK'
  <2>1. told' \in [Files -> SUBSET Claims]
    BY <1>2 DEF FInv, TypeOK, Files
  <2>2. QED
    BY <1>1, <1>2, <2>1
       DEF FInv, TypeOK, GateTypeOK, control, session, bounds, history
<1>4. Alone' /\ \A h \in Handlers : HandlerOK(h)'
  BY <1>2 DEF FInv, Alone, HandlerOK, PlaceOK, BatchOK, OlderOK, At, history
<1>5. \A f \in Files : FileOK(f)'
  BY <1>2 DEF FInv, FileOK, history
<1>6. QED
  BY <1>3, <1>4, <1>5 DEF FInv

-----------------------------------------------------------------------------
(* The effects behind the permit for files, and the older paths.           *)

\* A handler keeps its file and kind, and is in the type's places.
LEMMA Served ==
  ASSUME FInv, NEW h \in Handlers
  PROVE  /\ req[h] \in Requests /\ req[h].file \in Files /\ HandlerOK(h)
         /\ FileOK(req[h].file) /\ (req[h].at \in Gated <=> gate = h)
         /\ record[req[h].file] \in survives[req[h].file]
         /\ ~At(h, "idle") => req[h].file \in Identities[req[h].kind]
<1>1. req[h] \in Requests /\ req[h].file \in Files
  BY DEF FInv, TypeOK, Requests
<1>2. QED
  BY <1>1 DEF FInv, TypeOK, At

LEMMA GuardStep == ASSUME FInv, NEW h \in Handlers, Guard(h) PROVE FInv'
<1>1. req[h].at = "guard" /\ ~At(h, "idle") /\ Ungated /\ Untouched
  BY QuietUntouched DEF Guard, At
<1>2. CASE Answer(h, Error)
  BY <1>1, <1>2, PlainAnswer DEF Error
<1>3. CASE Enter(h, "effect")
  <2>0. "effect" \in Places /\ req' = [req EXCEPT ![h].at = "effect"]
    BY <1>3 DEF Enter, Places, Gated
  <2>1. PICK r \in Requests :
          /\ req' = [req EXCEPT ![h] = r]
          /\ r.at = "effect" /\ r.file = req[h].file /\ r.kind = req[h].kind
    <3>1. req[h] \in Requests /\ [req[h] EXCEPT !.at = "effect"] \in Requests
      BY <2>0, Served DEF Requests
    <3>2. QED
      BY <2>0, <3>1 DEF Requests
  <2>2. /\ DiskTyped /\ undone' = undone /\ UNCHANGED <<record, survives, attempts>>
        /\ \A f \in Files : FileOK(f)'
    BY <1>1, UntouchedEffect
  <2>3. req'[h] = r /\ gate = "free" /\ gate' = h /\ UNCHANGED <<store, upload, told>>
    BY <1>3, <2>1 DEF Enter, FInv, TypeOK
  <2>4. HandlerOK(h)'
    BY <1>1, <2>1, <2>2, <2>3, Served
       DEF HandlerOK, PlaceOK, BatchOK, OlderOK, At, BatchPlaces
  <2>5. r.at \in Gated
    BY <2>1 DEF Gated
  <2>6. QED
    BY <1>1, <2>1, <2>2, <2>3, <2>4, <2>5, Served, MoveStep
<1>4. QED
  BY <1>2, <1>3 DEF Guard

LEMMA StoreEffectStep == ASSUME FInv, NEW h \in Handlers, StoreEffect(h) PROVE FInv'
<1>1. /\ req[h].at = "effect" /\ ~At(h, "idle") /\ Ungated /\ req[h].file \in Batches
      /\ UNCHANGED <<record, survives, history>>
  BY DEF StoreEffect, At
<1>2. phase' \in [Batches -> Phases]
  BY <1>1, PhaseTyped DEF StoreEffect, FInv, TypeOK
<1>3. Untouched
  BY <1>1, <1>2 DEF Untouched
<1>4. CASE Answer(h, {})
  BY <1>1, <1>3, <1>4, PlainAnswer
<1>5. CASE Leaves(h, [req[h] EXCEPT !.at = "stored"])
  <2>1. PICK r \in Requests :
          /\ req' = [req EXCEPT ![h] = r]
          /\ r.at = "stored" /\ r.file = req[h].file /\ r.kind = req[h].kind
    <3>1. req[h] \in Requests /\ "stored" \in Places
      BY Served DEF Places
    <3>2. [req[h] EXCEPT !.at = "stored"] \in Requests
      BY <3>1 DEF Requests
    <3>3. QED
      BY <1>5, <3>1, <3>2 DEF Leaves, Requests
  <2>2. /\ DiskTyped /\ undone' = undone /\ UNCHANGED <<record, survives, attempts>>
        /\ \A f \in Files : FileOK(f)'
    BY <1>3, UntouchedEffect
  <2>3. /\ req'[h] = r /\ gate' = "free" /\ store' \in {store, "free"}
        /\ UNCHANGED <<upload, told>>
    BY <1>5, <2>1 DEF Leaves, Without, FInv, TypeOK
  <2>4. HandlerOK(h)'
    BY <1>1, <2>1, <2>2, <2>3, Served, TransferAssumption
       DEF HandlerOK, PlaceOK, BatchOK, OlderOK, At, BatchPlaces, Older
  <2>5. r.at \notin Gated /\ gate = h /\ gate' # h
    BY <1>1, <2>1, <2>3, Served, TransferAssumption DEF Gated
  <2>6. QED
    BY <1>1, <2>1, <2>2, <2>3, <2>4, <2>5, Served, MoveStep
<1>6. QED
  BY <1>4, <1>5 DEF StoreEffect, Error

LEMMA ReadClaims ==
  ASSUME FInv, NEW f \in Batches \cup Posts
  PROVE  Reads(f) \in SUBSET Claims
<1>1. FileOK(f) /\ record[f] \in survives[f] /\ record[f] \in Records
  BY DEF FInv, TypeOK, Files
<1>2. record[f] # "saved"
  BY <1>1, TransferAssumption DEF FileOK
<1>3. QED
  BY <1>1, <1>2 DEF Reads, Claims, Records

LEMMA LookupPostStep == ASSUME FInv, NEW h \in Handlers, LookupPost(h) PROVE FInv'
<1>1. req[h].at = "lookup" /\ ~At(h, "idle") /\ Ungated /\ Untouched /\ req[h].file \in Posts
  BY QuietUntouched DEF LookupPost, At
<1>2. CASE Answer(h, Error) \/ Answer(h, Reads(req[h].file))
  BY <1>1, <1>2, ReadClaims, PlainAnswer DEF Error
<1>3. CASE record[req[h].file] = "none" /\ req[h].kind = "post" /\ Goes(h, "receive")
  <2>0. "receive" \in Places /\ req' = [req EXCEPT ![h].at = "receive"]
    BY <1>3 DEF Goes, Places
  <2>1. PICK r \in Requests :
          /\ req' = [req EXCEPT ![h] = r]
          /\ r.at = "receive" /\ r.file = req[h].file /\ r.kind = req[h].kind
    <3>1. req[h] \in Requests /\ [req[h] EXCEPT !.at = "receive"] \in Requests
      BY <2>0, Served DEF Requests
    <3>2. QED
      BY <2>0, <3>1 DEF Requests
  <2>2. UNCHANGED <<gate, store, upload, told>>
    BY <1>3 DEF Goes, locks
  <2>3. QED
    BY <1>1, <1>3, <2>1, <2>2, PlainMove DEF Gated, BatchPlaces
<1>4. QED
  BY <1>2, <1>3 DEF LookupPost

LEMMA ReceiveStep == ASSUME FInv, NEW h \in Handlers, Receive(h) PROVE FInv'
<1>1. req[h].at = "receive" /\ Ungated /\ Untouched
  BY QuietUntouched DEF Receive, At
<1>2. UNCHANGED <<gate, store, upload, told>>
  BY DEF Receive, Goes, locks
<1>3. PICK r \in Requests :
        /\ req' = [req EXCEPT ![h] = r]
        /\ r.at = "guard" /\ r.file = req[h].file /\ r.kind = req[h].kind
  <2>1. Permit("clipboard") \in Permits
    BY PermitTyped DEF Scopes, FInv, TypeOK
  <2>2. [req[h] EXCEPT !.at = "guard"] \in Requests
        /\ [req[h] EXCEPT !.at = "guard", !.paste = Permit("clipboard")] \in Requests
    <3>1. req[h] \in Requests /\ "guard" \in Places
      BY Served DEF Places
    <3>2. QED
      BY <2>1, <3>1 DEF Requests
  <2>3. QED
    BY <2>2, Served DEF Receive, Goes, Requests
<1>4. QED
  BY <1>1, <1>2, <1>3, Served, PlainMove DEF Gated, BatchPlaces, HandlerOK, PlaceOK, OlderOK

\* What a step that leaves a record does to the disk.
LEMMA FoundEffect ==
  ASSUME FInv, NEW f \in Files, NEW what \in Records, NEW later \in SUBSET Records,
         what \in later, Found(f, what, later), UNCHANGED history
  PROVE  /\ DiskTyped /\ attempts' = attempts /\ undone' = undone
         /\ record'[f] = what /\ survives'[f] = later
         /\ \A g \in Files : g # f =>
               record'[g] = record[g] /\ survives'[g] = survives[g] /\ attempts'[g] = attempts[g]
BY DEF FInv, TypeOK, Found, DiskTyped, history

\* A request past its upload lock for an older file is the only one for it.
LEMMA OlderOwner ==
  ASSUME FInv, NEW h \in Handlers, req[h].file \in Older,
         req[h].at \notin {"idle", "accepted", "lookup"}
  PROVE  Owns(h)
<1>1. req[h].file \in Posts => req[h].kind = "post"
  BY Served, TransferAssumption DEF HandlerOK, PlaceOK, Identities, At, Requests
<1>2. QED
  BY <1>1, TransferAssumption DEF Owns, Older

LEMMA PublishStep == ASSUME FInv, NEW h \in Handlers, Publish(h) PROVE FInv'
<1>0. PICK f \in Files : f = req[h].file
  BY Served
<1>1. /\ req[h].at = "effect" /\ ~At(h, "idle") /\ Ungated /\ f \in Older /\ f \notin Batches
      /\ UNCHANGED history /\ req[h] \in Requests /\ f \in Files
  BY <1>0, Served DEF Publish, At, Older, Files
<1>2. Owns(h) /\ gate = h /\ FileOK(f) /\ HandlerOK(h)
  BY <1>0, <1>1, OlderOwner, Served DEF Gated
<1>3. ASSUME NEW r \in Requests, NEW what \in Records, NEW later \in SUBSET Records,
             what \in later, what # "none", "saved" \in later => f \in Singles,
             Found(f, what, later), Leaves(h, r),
             r.file = f, r.kind = req[h].kind, r.at \in {"offer", "claim"}
      PROVE  FInv'
  <2>1. /\ DiskTyped /\ attempts' = attempts /\ undone' = undone
        /\ record'[f] = what /\ survives'[f] = later
        /\ \A g \in Files : g # f =>
              record'[g] = record[g] /\ survives'[g] = survives[g] /\ attempts'[g] = attempts[g]
    BY <1>1, <1>3, FoundEffect
  <2>2. FileOK(f)'
    BY <1>1, <1>2, <1>3, <2>1 DEF FileOK
  <2>3. /\ req' = [req EXCEPT ![h] = r] /\ req'[h] = r /\ gate' = "free" /\ store' \in {store, "free"}
        /\ UNCHANGED <<upload, told>>
    BY <1>3 DEF Leaves, Without, FInv, TypeOK
  <2>4. f \in Posts => attempts[f] = 0 \/ f \in undone
    BY <1>0, <1>1, <1>2, Served DEF HandlerOK, OlderOK, FileOK, FInv, TypeOK
  <2>5. HandlerOK(h)'
    <3>1. PlaceOK(h)' /\ BatchOK(h)'
      BY <1>0, <1>1, <1>2, <1>3, <2>3 DEF HandlerOK, PlaceOK, BatchOK, At, BatchPlaces
    <3>2. OlderOK(h)'
      BY <1>0, <1>1, <1>2, <1>3, <2>1, <2>3, <2>4 DEF HandlerOK, OlderOK, At
    <3>3. QED
      BY <3>1, <3>2 DEF HandlerOK
  <2>6. r.at \notin Gated /\ gate' # h
    BY <1>3, <2>3, TransferAssumption DEF Gated
  <2>7. QED
    BY <1>0, <1>1, <1>2, <1>3, <2>1, <2>2, <2>3, <2>5, <2>6, MoveStep
<1>4. ASSUME Answer(h, {}), Found(f, "saved", {"none", "saved"}), f \in Singles
      PROVE  FInv'
  <2>1. /\ DiskTyped /\ attempts' = attempts /\ undone' = undone
        /\ record'[f] = "saved" /\ survives'[f] = {"none", "saved"}
        /\ \A g \in Files : g # f =>
              record'[g] = record[g] /\ survives'[g] = survives[g] /\ attempts'[g] = attempts[g]
    BY <1>1, <1>4, FoundEffect DEF Records
  <2>2. FileOK(f)'
    BY <1>1, <1>2, <1>4, <2>1 DEF FileOK
  <2>3. QED
    BY <1>0, <1>1, <1>2, <1>4, <2>1, <2>2, AnswerStep
<1>5. CASE Answer(h, Error) /\ UNCHANGED disk
  <2>1. Untouched
    BY <1>1, <1>5 DEF Untouched, disk, FInv, TypeOK
  <2>2. QED
    BY <1>1, <1>5, <2>1, PlainAnswer DEF Error
<1>6. CASE /\ f \in Posts /\ Found(f, "unavailable", {"none", "uncertain", "unavailable"})
           /\ Leaves(h, [req[h] EXCEPT !.at = "offer"])
  <2>1. [req[h] EXCEPT !.at = "offer"] \in Requests
    BY <1>1 DEF Requests, Places
  <2>2. QED
    BY <1>0, <1>1, <1>3, <1>6, <2>1 DEF Records, Requests
<1>7. CASE /\ f \in Singles /\ Found(f, "saved", {"none", "saved"})
           /\ Leaves(h, [req[h] EXCEPT !.at = "claim", !.permit = req[h].paste])
  <2>1. [req[h] EXCEPT !.at = "claim", !.permit = req[h].paste] \in Requests
    BY <1>1 DEF Requests, Places
  <2>2. QED
    BY <1>0, <1>1, <1>3, <1>7, <2>1, ZenonT(30) DEF Records, Requests
<1>8. QED
  BY <1>0, <1>4, <1>5, <1>6, <1>7 DEF Publish

LEMMA OfferStep == ASSUME FInv, NEW h \in Handlers, Offer(h) PROVE FInv'
<1>1. req[h].at = "offer" /\ ~At(h, "idle") /\ Ungated /\ Untouched
  BY QuietUntouched DEF Offer, At
<1>2. CASE Answer(h, {"unavailable"})
  BY <1>1, <1>2, PlainAnswer DEF Claims
<1>3. CASE /\ req' = [req EXCEPT ![h].at = "claim", ![h].permit = Permit("clipboard")]
           /\ UNCHANGED <<locks, told>>
  <2>1. Permit("clipboard") \in Permits
    BY PermitTyped DEF Scopes, FInv, TypeOK
  <2>2. req[h] \in Requests /\ "claim" \in Places
    BY Served DEF Places
  <2>3. [req[h] EXCEPT !.at = "claim", !.permit = Permit("clipboard")] \in Requests
    BY <2>1, <2>2 DEF Requests
  <2>4. PICK r \in Requests :
          /\ req' = [req EXCEPT ![h] = r]
          /\ r.at = "claim" /\ r.file = req[h].file /\ r.kind = req[h].kind
    BY <1>3, <2>2, <2>3 DEF Requests
  <2>5. UNCHANGED <<gate, store, upload, told>>
    BY <1>3 DEF locks
  <2>6. QED
    BY <1>1, <2>4, <2>5, Served, PlainMove DEF Gated, BatchPlaces, HandlerOK, PlaceOK, OlderOK
<1>4. QED
  BY <1>2, <1>3 DEF Offer

LEMMA ReadStoredStep == ASSUME FInv, NEW h \in Handlers, ReadStored(h) PROVE FInv'
<1>1. req[h].at = "stored" /\ Ungated /\ Untouched
  BY QuietUntouched DEF ReadStored, At
<1>2. ~At(h, "idle") /\ req[h].file \in Batches
  BY <1>1, StorePlace
<1>3. QED
  BY <1>1, <1>2, ReadClaims, PlainAnswer DEF ReadStored, Claims

LEMMA LookupBatchStep == ASSUME FInv, NEW h \in Handlers, LookupBatch(h) PROVE FInv'
<1>1. req[h].at = "lookup" /\ ~At(h, "idle") /\ Ungated /\ Untouched /\ req[h].file \in Batches
  BY QuietUntouched DEF LookupBatch, At
<1>2. CASE Answer(h, {"stored"} \cup Reads(req[h].file))
  BY <1>1, <1>2, ReadClaims, PlainAnswer DEF Claims
<1>3. CASE Goes(h, "verify")
  BY <1>1, <1>3, BatchGoes DEF Goes, locks
<1>4. QED
  BY <1>2, <1>3 DEF LookupBatch

LEMMA VerifyStep == ASSUME FInv, NEW h \in Handlers, Verify(h) PROVE FInv'
<1>1. req[h].at = "verify" /\ ~At(h, "idle") /\ Ungated /\ Untouched
  BY QuietUntouched DEF Verify, At
<1>2. req[h].file \in Batches
  BY <1>1, Served DEF HandlerOK, PlaceOK, BatchPlaces
<1>3. CASE Answer(h, {"stored"})
  BY <1>1, <1>3, PlainAnswer DEF Claims
<1>4. CASE Goes(h, "claim")
  BY <1>1, <1>2, <1>4, BatchGoes DEF Goes, locks
<1>5. QED
  BY <1>3, <1>4 DEF Verify

-----------------------------------------------------------------------------
(* The copy to the clipboard.                                              *)

\* An answer of a handler that leaves the disk alone.
LEMMA DisklessAnswer ==
  ASSUME FInv, NEW h \in Handlers, NEW claims \in SUBSET Claims, Answer(h, claims),
         ~At(h, "idle"), Ungated, UNCHANGED <<disk, history>>
  PROVE  FInv'
<1>1. Untouched
  BY DEF Untouched, disk, FInv, TypeOK
<1>2. QED
  BY <1>1, PlainAnswer

LEMMA ClaimStep == ASSUME FInv, NEW h \in Handlers, Claim(h) PROVE FInv'
<1>0. PICK f \in Files : f = req[h].file
  BY Served
<1>1. /\ req[h].at = "claim" /\ ~At(h, "idle") /\ Ungated /\ UNCHANGED history
      /\ HandlerOK(h) /\ FileOK(f) /\ req[h] \in Requests
  BY <1>0, Served DEF Claim, At
<1>2. ASSUME NEW claims \in SUBSET Claims, Answer(h, claims), UNCHANGED disk
      PROVE  FInv'
  BY <1>1, <1>2, DisklessAnswer
<1>3. ASSUME NEW place \in {"copy", "mark"}, Enter(h, place), DiskTyped,
             attempts' = attempts, undone' = undone, FileOK(f)',
             record'[f] = record[f] \/ f \in Batches,
             \A g \in Files : g # f => record'[g] = record[g] /\ survives'[g] = survives[g],
             place = "mark" => f \in Batches /\ attempts[f] = 0, place = "copy" => f \in Older
      PROVE  FInv'
  <2>1. [req[h] EXCEPT !.at = place] \in Requests
    BY <1>1, <1>3 DEF Requests, Places, Gated
  <2>2. PICK r \in Requests :
          /\ req' = [req EXCEPT ![h] = r]
          /\ r.at = place /\ r.file = f /\ r.kind = req[h].kind
    BY <1>0, <1>1, <1>3, <2>1 DEF Enter, Requests
  <2>3. /\ req'[h] = r /\ gate = "free" /\ gate' = h /\ UNCHANGED <<store, upload, told>>
        /\ r.at \in Gated
    BY <1>3, <2>2 DEF Enter, FInv, TypeOK, Gated
  <2>4. HandlerOK(h)'
    <3>1. PlaceOK(h)'
      BY <1>0, <1>1, <1>3, <2>2, <2>3 DEF HandlerOK, PlaceOK, At, BatchPlaces
    <3>2. BatchOK(h)'
      BY <1>3, <2>2, <2>3, TransferAssumption DEF BatchOK, Older
    <3>3. OlderOK(h)'
      BY <1>0, <1>1, <1>3, <2>2, <2>3, TransferAssumption DEF HandlerOK, OlderOK, At, Older
    <3>4. QED
      BY <3>1, <3>2, <3>3 DEF HandlerOK
  <2>5. Owns(h)
    BY <1>0, <1>1, <1>3, <2>3, Served, TransferAssumption
       DEF Owns, HandlerOK, PlaceOK, Identities, At, Requests
  <2>6. QED
    BY <1>0, <1>1, <1>3, <2>2, <2>3, <2>4, <2>5, MoveStep
<1>4. CASE f \notin Batches /\ Enter(h, "copy") /\ UNCHANGED disk
  <2>1. FileOK(f)' /\ attempts' = attempts /\ undone' = undone /\ DiskTyped
    BY <1>1, <1>4 DEF FileOK, disk, history, DiskTyped, FInv, TypeOK
  <2>2. f \in Older
    BY <1>4 DEF Files, Older
  <2>3. QED
    BY <1>3, <1>4, <2>1, <2>2 DEF disk
<1>5. CASE /\ f \in Batches /\ record[f] = "none" /\ Enter(h, "mark")
           /\ Found(f, "uncertain", {"none", "uncertain"})
  <2>1. /\ DiskTyped /\ attempts' = attempts /\ undone' = undone
        /\ record'[f] = "uncertain" /\ survives'[f] = {"none", "uncertain"}
        /\ \A g \in Files : g # f =>
              record'[g] = record[g] /\ survives'[g] = survives[g] /\ attempts'[g] = attempts[g]
    BY <1>1, <1>5, FoundEffect DEF Records
  <2>2. attempts[f] = 0
    BY <1>0, <1>1, <1>5, Served DEF FileOK
  <2>3. FileOK(f)'
    BY <1>1, <1>5, <2>1, <2>2, TransferAssumption DEF FileOK, Older
  <2>4. QED
    BY <1>3, <1>5, <2>1, <2>2, <2>3
<1>6. CASE f \in Batches /\ Answer(h, {"stored"} \cup Reads(f)) /\ UNCHANGED disk
  <2>1. {"stored"} \cup Reads(f) \in SUBSET Claims
    BY <1>6, ReadClaims DEF Claims
  <2>2. QED
    BY <1>2, <1>6, <2>1
<1>7. CASE (Answer(h, Error) \/ Answer(h, {"unavailable"})) /\ UNCHANGED disk
  BY <1>2, <1>7 DEF Error, Claims
<1>8. QED
  BY <1>0, <1>4, <1>5, <1>6, <1>7 DEF Claim

\* Whoever holds the gate owns the file of a batch.
LEMMA GatedOwner ==
  ASSUME FInv, NEW h \in Handlers, req[h].at \in Gated
  PROVE  Owns(h) /\ ~At(h, "idle") /\ gate = h
<1>1. req[h].at \notin {"idle", "accepted", "lookup"} /\ ~At(h, "idle") /\ gate = h
  BY Served DEF Gated, At
<1>2. req[h].file \in Older => Owns(h)
  BY <1>1, OlderOwner
<1>3. req[h].file \in Batches => Owns(h)
  BY <1>1, TransferAssumption DEF Owns
<1>4. QED
  BY <1>1, <1>2, <1>3, Served DEF Files, Older

LEMMA MarkStep == ASSUME FInv, NEW h \in Handlers, Mark(h) PROVE FInv'
<1>0. PICK f \in Files : f = req[h].file
  BY Served
<1>1. /\ req[h].at = "mark" /\ Ungated /\ UNCHANGED history
      /\ HandlerOK(h) /\ FileOK(f) /\ req[h] \in Requests
  BY <1>0, Served DEF Mark, At
<1>2. Owns(h) /\ ~At(h, "idle") /\ gate = h
  BY <1>1, GatedOwner DEF Gated
<1>3. CASE Answer(h, Error) /\ UNCHANGED disk
  BY <1>1, <1>2, <1>3, DisklessAnswer DEF Error
<1>4. CASE Found(f, "uncertain", {"uncertain"}) /\ Goes(h, "copy")
  <2>1. /\ DiskTyped /\ attempts' = attempts /\ undone' = undone
        /\ record'[f] = "uncertain" /\ survives'[f] = {"uncertain"}
        /\ \A g \in Files : g # f =>
              record'[g] = record[g] /\ survives'[g] = survives[g] /\ attempts'[g] = attempts[g]
    BY <1>1, <1>4, FoundEffect DEF Records
  <2>2. f \in Batches /\ attempts[f] = 0
    BY <1>0, <1>1 DEF HandlerOK, PlaceOK, BatchOK, BatchPlaces
  <2>3. FileOK(f)'
    BY <1>1, <2>1, <2>2, TransferAssumption DEF FileOK, Older
  <2>4. [req[h] EXCEPT !.at = "copy"] \in Requests
    BY <1>1 DEF Requests, Places, Gated
  <2>5. PICK r \in Requests :
          /\ req' = [req EXCEPT ![h] = r]
          /\ r.at = "copy" /\ r.file = f /\ r.kind = req[h].kind
    BY <1>0, <1>1, <1>4, <2>4 DEF Goes, Requests
  <2>6. /\ req'[h] = r /\ gate' = h /\ gate' = gate /\ UNCHANGED <<store, upload, told>>
        /\ r.at \in Gated
    BY <1>2, <1>4, <2>5 DEF Goes, locks, FInv, TypeOK, Gated
  <2>7. HandlerOK(h)'
    BY <1>0, <1>1, <2>1, <2>2, <2>5, <2>6, TransferAssumption
       DEF HandlerOK, PlaceOK, BatchOK, OlderOK, At, BatchPlaces, Older
  <2>8. QED
    BY <1>0, <1>1, <1>2, <2>1, <2>3, <2>5, <2>6, <2>7, MoveStep
<1>5. QED
  BY <1>0, <1>3, <1>4 DEF Mark

\* The clipboard was asked, or was not asked, to take a file.
CopyTyped ==
  /\ DiskTyped /\ UNCHANGED <<record, survives, undone>>
  /\ \A g \in Files : attempts'[g] \in {attempts[g], attempts[g] + 1}

LEMMA CopyStep == ASSUME FInv, NEW h \in Handlers, Copy(h) PROVE FInv'
<1>0. PICK f \in Files : f = req[h].file
  BY Served
<1>1. /\ req[h].at = "copy" /\ Ungated /\ HandlerOK(h) /\ FileOK(f) /\ req[h] \in Requests
  BY <1>0, Served DEF Copy, At
<1>2. Owns(h) /\ ~At(h, "idle") /\ gate = h
  BY <1>1, GatedOwner DEF Gated
<1>3. UNCHANGED <<disk, undone>> /\ (attempts' = attempts \/ attempts' = [attempts EXCEPT ![f] = @ + 1])
      /\ copied' \in {copied, copied \cup {f}}
  BY <1>0 DEF Copy
<1>4. CopyTyped /\ \A g \in Files : g # f => attempts'[g] = attempts[g]
  BY <1>3 DEF CopyTyped, DiskTyped, disk, FInv, TypeOK
<1>5. FileOK(f)'
  <2>1. attempts[f] \in Nat /\ attempts'[f] \in {attempts[f], attempts[f] + 1}
    BY <1>4 DEF CopyTyped, FInv, TypeOK
  <2>2. CASE f \in Batches
    <3>1. attempts[f] = 0 /\ "none" \notin survives[f]
      BY <1>0, <1>1, <2>2 DEF HandlerOK, BatchOK
    <3>2. QED
      BY <1>1, <1>4, <2>1, <2>2, <3>1, TransferAssumption DEF FileOK, CopyTyped, Older
  <2>3. CASE f \in Older
    <3>1. record[f] # "none" /\ (attempts[f] = 0 \/ (f \in Posts /\ f \in undone))
      BY <1>0, <1>1, <1>2, <2>3 DEF HandlerOK, OlderOK, Older
    <3>2. QED
      BY <1>1, <1>4, <2>1, <2>3, <3>1, TransferAssumption DEF FileOK, CopyTyped, Older
  <2>4. QED
    BY <2>2, <2>3 DEF Files, Older
<1>6. ASSUME NEW result \in {"unavailable", "ready"}, Answer(h, {result})
      PROVE  FInv'
  BY <1>0, <1>1, <1>2, <1>4, <1>5, <1>6, AnswerStep DEF CopyTyped, Claims
<1>7. ASSUME NEW result \in {"unavailable", "ready"}, f \in Batches \cup Posts,
             req' = [req EXCEPT ![h].at = "keep", ![h].result = result], UNCHANGED <<locks, told>>
      PROVE  FInv'
  <2>1. [req[h] EXCEPT !.at = "keep", !.result = result] \in Requests
    BY <1>1 DEF Requests, Places, Gated
  <2>2. PICK r \in Requests :
          /\ req' = [req EXCEPT ![h] = r]
          /\ r.at = "keep" /\ r.file = f /\ r.kind = req[h].kind
    BY <1>0, <1>1, <1>7, <2>1 DEF Requests
  <2>3. /\ req'[h] = r /\ gate' = h /\ gate' = gate /\ UNCHANGED <<store, upload, told>>
        /\ r.at \in Gated
    BY <1>2, <1>7, <2>2 DEF locks, FInv, TypeOK, Gated
  <2>4. HandlerOK(h)'
    <3>1. PlaceOK(h)'
      BY <1>0, <1>1, <2>2, <2>3 DEF HandlerOK, PlaceOK, At, BatchPlaces
    <3>2. BatchOK(h)'
      BY <1>0, <1>1, <1>4, <2>2, <2>3 DEF HandlerOK, BatchOK, CopyTyped
    <3>3. OlderOK(h)'
      BY <1>0, <1>1, <1>4, <1>7, <2>2, <2>3, TransferAssumption
         DEF HandlerOK, OlderOK, CopyTyped, Older
    <3>4. QED
      BY <3>1, <3>2, <3>3 DEF HandlerOK
  <2>5. QED
    BY <1>0, <1>1, <1>2, <1>4, <1>5, <2>2, <2>3, <2>4, MoveStep DEF CopyTyped
<1>8. QED
  BY <1>0, <1>6, <1>7 DEF Copy, Error

LEMMA KeepStep == ASSUME FInv, NEW h \in Handlers, Keep(h) PROVE FInv'
<1>0. PICK f \in Files : f = req[h].file
  BY Served
<1>1. /\ req[h].at = "keep" /\ Ungated /\ UNCHANGED history /\ HandlerOK(h) /\ FileOK(f)
      /\ req[h] \in Requests /\ req[h].result \in {"unavailable", "ready"}
  BY <1>0, Served DEF Keep, At, Requests
<1>2. Owns(h) /\ ~At(h, "idle") /\ gate = h
  BY <1>1, GatedOwner DEF Gated
<1>3. CASE (Answer(h, {"stored"}) \/ Answer(h, {"unavailable"})) /\ UNCHANGED disk
  BY <1>1, <1>2, <1>3, DisklessAnswer DEF Claims
<1>4. CASE /\ f \in Posts /\ Found(f, "ready", survives[f] \cup {"ready"})
           /\ Answer(h, {"ready", "prepared"})
  <2>1. /\ DiskTyped /\ attempts' = attempts /\ undone' = undone
        /\ record'[f] = "ready" /\ survives'[f] = survives[f] \cup {"ready"}
        /\ \A g \in Files : g # f =>
              record'[g] = record[g] /\ survives'[g] = survives[g] /\ attempts'[g] = attempts[g]
    <3>1. survives[f] \cup {"ready"} \in SUBSET Records /\ "ready" \in Records
      BY DEF FInv, TypeOK, Records
    <3>2. QED
      BY <1>1, <1>4, <3>1, FoundEffect
  <2>2. FileOK(f)'
    BY <1>1, <1>4, <2>1, TransferAssumption DEF FileOK
  <2>3. QED
    BY <1>0, <1>1, <1>2, <1>4, <2>1, <2>2, AnswerStep DEF Claims
<1>5. CASE /\ f \in Batches /\ Goes(h, "settle")
           /\ Found(f, req[h].result, {"uncertain", req[h].result})
  <2>1. /\ DiskTyped /\ attempts' = attempts /\ undone' = undone
        /\ record'[f] = req[h].result /\ survives'[f] = {"uncertain", req[h].result}
        /\ \A g \in Files : g # f =>
              record'[g] = record[g] /\ survives'[g] = survives[g] /\ attempts'[g] = attempts[g]
    BY <1>1, <1>5, FoundEffect DEF Records
  <2>2. FileOK(f)' /\ "none" \notin survives'[f]
    BY <1>1, <1>5, <2>1, TransferAssumption DEF FileOK, Older
  <2>3. [req[h] EXCEPT !.at = "settle"] \in Requests
    BY <1>1 DEF Requests, Places, Gated
  <2>4. PICK r \in Requests :
          /\ req' = [req EXCEPT ![h] = r]
          /\ r.at = "settle" /\ r.file = f /\ r.kind = req[h].kind
    BY <1>0, <1>1, <1>5, <2>3 DEF Goes, Requests
  <2>5. /\ req'[h] = r /\ gate' = h /\ gate' = gate /\ UNCHANGED <<store, upload, told>>
        /\ r.at \in Gated
    BY <1>2, <1>5, <2>4 DEF Goes, locks, FInv, TypeOK, Gated
  <2>6. HandlerOK(h)'
    BY <1>0, <1>1, <1>5, <2>1, <2>2, <2>4, <2>5, TransferAssumption
       DEF HandlerOK, PlaceOK, BatchOK, OlderOK, At, BatchPlaces, Older
  <2>7. QED
    BY <1>0, <1>1, <1>2, <2>1, <2>2, <2>4, <2>5, <2>6, MoveStep
<1>6. QED
  BY <1>0, <1>3, <1>4, <1>5 DEF Keep

LEMMA SettleStep == ASSUME FInv, NEW h \in Handlers, Settle(h) PROVE FInv'
<1>0. PICK f \in Files : f = req[h].file
  BY Served
<1>1. /\ req[h].at = "settle" /\ Ungated /\ UNCHANGED history /\ HandlerOK(h) /\ FileOK(f)
      /\ req[h] \in Requests /\ req[h].result \in {"unavailable", "ready"}
  BY <1>0, Served DEF Settle, At, Requests
<1>2. Owns(h) /\ ~At(h, "idle") /\ f \in Batches
  BY <1>0, <1>1, GatedOwner DEF Gated, HandlerOK, PlaceOK, BatchPlaces
<1>3. CASE Answer(h, {"stored"}) /\ UNCHANGED disk
  BY <1>1, <1>2, <1>3, DisklessAnswer DEF Claims
<1>4. ASSUME NEW claims \in SUBSET Claims, Answer(h, claims),
             Found(f, req[h].result, {req[h].result})
      PROVE  FInv'
  <2>1. /\ DiskTyped /\ attempts' = attempts /\ undone' = undone
        /\ record'[f] = req[h].result /\ survives'[f] = {req[h].result}
        /\ \A g \in Files : g # f =>
              record'[g] = record[g] /\ survives'[g] = survives[g] /\ attempts'[g] = attempts[g]
    BY <1>1, <1>4, FoundEffect DEF Records
  <2>2. FileOK(f)'
    BY <1>1, <1>2, <2>1, TransferAssumption DEF FileOK, Older
  <2>3. QED
    BY <1>0, <1>1, <1>2, <1>4, <2>1, <2>2, AnswerStep
<1>5. {"stored", req[h].result} \cup (IF req[h].result = "ready" THEN {"prepared"} ELSE {})
        \in SUBSET Claims
  BY <1>1 DEF Claims
<1>6. QED
  BY <1>0, <1>3, <1>4, <1>5 DEF Settle

-----------------------------------------------------------------------------
(* The control session, and the host's death.                              *)

\* A section of a transition keeps the types of the gate, and takes the gate
\* from no handler.
LEMMA GateKept ==
  ASSUME GateTypeOK(Handlers), ControlStep \/ Transition
  PROVE  /\ GateTypeOK(Handlers)'
         /\ \A h \in Handlers : gate' = h <=> gate = h
<1> USE TransferAssumption, GateAssumption DEF GateTypeOK, session
<1>1. CASE Join \/ Release
  BY <1>1 DEF Join, Release
<1>6. CASE Disconnect
  BY <1>6 DEF Disconnect, Step
<1>7. CASE Shutdown \/ ShutdownResources
  BY <1>7 DEF Shutdown, ShutdownResources
<1>2. CASE Reset(TRUE) \/ Geometry(TRUE)
  BY <1>2 DEF Reset, Geometry
<1>3. CASE Connect("theirs")
  <2>1. <<"geometry", "theirs", "reset">> \in Seq(Step)
    BY DEF Step
  <2>2. QED
    BY <1>3, <2>1 DEF Connect
<1>4. ASSUME NEW policy \in Policies, SetPermissions(policy)
      PROVE  /\ GateTypeOK(Handlers)'
             /\ \A h \in Handlers : gate' = h <=> gate = h
  <2>1. todo' \in Seq(Step)
    <3>1. <<>> \in Seq(Step) /\ <<"reset">> \in Seq(Step) /\ <<"geometry">> \in Seq(Step)
      BY DEF Step
    <3>2. \A s, t \in Seq(Step) : s \o t \in Seq(Step)
      OBVIOUS
    <3>3. PICK s \in Seq(Step), t \in Seq(Step) : todo' = s \o t
      BY <1>4, <3>1 DEF SetPermissions
    <3>4. QED
      BY <3>2, <3>3
  <2>2. QED
    BY <1>4, <2>1 DEF SetPermissions
<1>5. QED
  BY <1>1, <1>2, <1>3, <1>4, <1>6, <1>7 DEF ControlStep, Transition

\* The invariant is kept while requests and disk stand still.
LEMMA StandStill ==
  ASSUME FInv, GateTypeOK(Handlers)', \A h \in Handlers : gate' = h <=> gate = h, Elsewhere
  PROVE  FInv'
<1>1. /\ UNCHANGED <<phase, record, survives, store, upload, req, sent, restarts>>
      /\ UNCHANGED <<attempts, copied, undone, told>>
  BY DEF Elsewhere, disk, bounds, history
<1>2. TypeOK'
  BY <1>1 DEF FInv, TypeOK
<1>3. Alone' /\ \A h \in Handlers : HandlerOK(h)'
  BY <1>1 DEF FInv, Alone, HandlerOK, PlaceOK, BatchOK, OlderOK, At
<1>4. \A f \in Files : FileOK(f)'
  BY <1>1 DEF FInv, FileOK
<1>5. QED
  BY <1>2, <1>3, <1>4 DEF FInv

LEMMA ControlKeeps == FInv /\ (ControlStep \/ Transition) /\ Elsewhere => FInv'
BY GateKept, StandStill DEF FInv, TypeOK

LEMMA RestartStep == ASSUME FInv, NEW power \in BOOLEAN, Restart(power) PROVE FInv'
<1> USE TransferAssumption
<1>1. req' = [h \in Handlers |-> Idle] /\ \A h \in Handlers : req'[h] = Idle
  BY DEF Restart
<1>2. UNCHANGED <<sent, attempts, copied, told>> /\ restarts' = restarts + 1
  BY DEF Restart
<1>3. /\ record' \in [Files -> Records] /\ survives' \in [Files -> SUBSET Records]
      /\ undone \subseteq undone' /\ undone' \subseteq Files
      /\ \A f \in Files : /\ record'[f] \in survives'[f] /\ survives'[f] \subseteq survives[f]
                          /\ record'[f] = record[f] \/ f \in undone'
  <2>1. CASE power
    BY <2>1 DEF Restart, FInv, TypeOK
  <2>2. CASE ~power
    BY <2>2 DEF Restart, FInv, TypeOK
  <2>3. QED
    BY <2>1, <2>2
<1>4. phase' \in [Batches -> Phases]
  BY PhaseTyped DEF Restart, FInv, TypeOK
<1>5. TypeOK'
  <2>1. GateTypeOK(Handlers)' /\ gate' = "free"
    <3>1. <<>> \in Seq(Step)
      OBVIOUS
    <3>2. gen \in Nat /\ revision \in Nat
      BY DEF FInv, TypeOK, GateTypeOK
    <3>3. /\ gate' = "free" /\ todo' = <<>> /\ epoch' = 0 /\ granted' = Scopes
          /\ incomplete' = FALSE /\ closing' = "open" /\ gen' = gen + 1 /\ revision' = revision
      BY DEF Restart
    <3>4. gen' \in Nat /\ epoch' \in Nat /\ revision' \in Nat
      BY <3>2, <3>3
    <3>5. todo' \in Seq(Step) /\ granted' \subseteq Scopes /\ incomplete' \in BOOLEAN
      BY <3>1, <3>3
    <3>6. QED
      BY <3>3, <3>4, <3>5 DEF GateTypeOK
  <2>2. store' = "free" /\ upload' = "free"
    BY DEF Restart
  <2>3. req' \in [Handlers -> Requests]
    BY <1>1, IdleTyped
  <2>4. \A h \in Handlers : req'[h].at = "idle" /\ req'[h].at \notin Gated /\ gate' # h
    BY <1>1, <2>1, IdleTyped
  <2>5. /\ sent' \in Nat /\ restarts' \in Nat /\ attempts' \in [Files -> Nat]
        /\ copied' \subseteq Files /\ told' \in [Files -> SUBSET Claims]
    BY <1>2 DEF FInv, TypeOK
  <2>6. \A f \in Files : record'[f] \in survives'[f]
    BY <1>3
  <2>7. QED
    BY <1>3, <1>4, <2>1, <2>2, <2>3, <2>4, <2>5, <2>6 DEF TypeOK
<1>6. Alone' /\ \A h \in Handlers : HandlerOK(h)'
  BY <1>1, IdleTyped
     DEF Alone, HandlerOK, PlaceOK, BatchOK, OlderOK, At, Idle, BatchPlaces
<1>7. ASSUME NEW f \in Files PROVE FileOK(f)'
  <2>1. FileOK(f) /\ attempts' = attempts
    BY <1>2 DEF FInv
  <2>2. /\ survives'[f] \subseteq survives[f]
        /\ f \in undone => f \in undone'
        /\ record'[f] = record[f] \/ f \in undone'
    <3>1. survives'[f] \subseteq survives[f]
      BY <1>3
    <3>2. f \in undone => f \in undone'
      BY <1>3
    <3>3. record'[f] = record[f] \/ f \in undone'
      BY <1>3
    <3>4. QED
      BY <3>1, <3>2, <3>3
  <2>3. QED
    BY <2>1, <2>2 DEF FileOK
<1>8. QED
  BY <1>5, <1>6, <1>7 DEF FInv

-----------------------------------------------------------------------------
(* The theorems.                                                           *)

LEMMA FInvInit == Init => FInv
<1> SUFFICES ASSUME Init PROVE FInv
  OBVIOUS
<1> USE TransferAssumption
<1>1. \A h \in Handlers : req[h] = Idle
  BY DEF Init
<1>2. TypeOK
  <2>1. GateTypeOK(Handlers) /\ \A h \in Handlers : gate # h
    <3>1. <<>> \in Seq(Step)
      OBVIOUS
    <3>2. QED
      BY <3>1 DEF Init, GateInit, GateTypeOK
  <2>2. req \in [Handlers -> Requests] /\ \A h \in Handlers : req[h].at = "idle"
    BY <1>1, IdleTyped DEF Init
  <2>3. /\ phase \in [Batches -> Phases] /\ record \in [Files -> Records]
        /\ survives \in [Files -> SUBSET Records] /\ told \in [Files -> SUBSET Claims]
        /\ \A f \in Files : record[f] \in survives[f]
    BY DEF Init, Phases, Records
  <2>4. QED
    BY <1>1, <2>1, <2>2, <2>3, IdleTyped DEF Init, TypeOK
<1>3. Alone /\ \A h \in Handlers : HandlerOK(h)
  BY <1>1, IdleTyped DEF Alone, HandlerOK, PlaceOK, BatchOK, OlderOK, At, Idle, BatchPlaces
<1>4. \A f \in Files : FileOK(f)
  BY DEF Init, FileOK
<1>5. QED
  BY <1>2, <1>3, <1>4 DEF FInv

LEMMA ServeStep == ASSUME FInv, NEW h \in Handlers, Serve(h) PROVE FInv'
<1>1. CASE Arrive(h) \/ Refuse(h)
  BY <1>1, ArriveStep, RefuseStep
<1>2. CASE Status(h) \/ Begin(h) \/ Chunk(h) \/ Commit(h) \/ Clipboard(h)
  BY <1>2, AskStep
<1>3. CASE Discard(h) \/ Cancel(h)
  BY <1>3, DiscardStep
<1>4. CASE Guard(h) \/ StoreEffect(h) \/ Publish(h)
  BY <1>4, GuardStep, StoreEffectStep, PublishStep
<1>5. CASE LookupPost(h) \/ Receive(h) \/ Offer(h)
  BY <1>5, LookupPostStep, ReceiveStep, OfferStep
<1>6. CASE ReadStored(h) \/ LookupBatch(h) \/ Verify(h)
  BY <1>6, ReadStoredStep, LookupBatchStep, VerifyStep
<1>7. CASE Claim(h) \/ Mark(h) \/ Copy(h) \/ Keep(h) \/ Settle(h)
  BY <1>7, ClaimStep, MarkStep, CopyStep, KeepStep, SettleStep
<1>8. QED
  BY <1>1, <1>2, <1>3, <1>4, <1>5, <1>6, <1>7 DEF Serve

LEMMA FInvNext == FInv /\ [Next]_vars => FInv'
<1> SUFFICES ASSUME FInv, [Next]_vars PROVE FInv'
  OBVIOUS
<1>1. CASE UNCHANGED vars
  <2>1. Elsewhere /\ UNCHANGED control
    BY <1>1 DEF vars, Elsewhere
  <2>2. GateTypeOK(Handlers)' /\ gate' = gate
    BY <2>1 DEF FInv, TypeOK, GateTypeOK, control, session
  <2>3. QED
    BY <2>1, <2>2, StandStill
<1>2. ASSUME NEW h \in Handlers, Serve(h) PROVE FInv'
  BY <1>2, ServeStep
<1>3. ASSUME NEW h \in Handlers, NEW k \in Kinds, NEW f \in Files, NEW e \in {0, epoch},
             Accept(h, k, f, e)
      PROVE  FInv'
  BY <1>3, AcceptStep
<1>4. ASSUME NEW b \in Batches, Sweep(b) PROVE FInv'
  BY <1>4, SweepStep
<1>5. CASE (ControlStep \/ Transition) /\ Elsewhere
  BY <1>5, ControlKeeps
<1>6. ASSUME NEW power \in BOOLEAN, Restart(power) PROVE FInv'
  BY <1>6, RestartStep
<1>7. QED
  BY <1>1, <1>2, <1>3, <1>4, <1>5, <1>6 DEF Next

\* The strengthened invariant holds in every reachable state, whatever is sent,
\* however the handlers interleave, and whenever the host dies or loses power
\* (file_transfers.go, file_batches.go, files.go).
THEOREM TransferInvariance == Spec => []FInv
<1>1. QED
  BY FInvInit, FInvNext, PTL DEF Spec

\* Type correctness; whoever holds mutationGate is at a gated place, and nobody
\* else is (runPermittedMutation).
THEOREM TransferTypeCorrect == Spec => []TypeOK
<1>1. FInv => TypeOK
  BY DEF FInv
<1>2. QED
  BY <1>1, TransferInvariance, PTL

\* The clipboard is asked at most once to take a batch, for any number of
\* retries, handlers and restarts; a batch of version 1 a second time only after
\* a power loss undid its publication (copyTransfer's marker).
THEOREM TransferCopiedOnce == Spec => []CopiedOnce
<1>1. FInv => CopiedOnce
  <2> SUFFICES ASSUME FInv, NEW f \in Files, attempts[f] > 1 PROVE f \in Posts /\ f \in undone
    BY DEF CopiedOnce
  <2>1. FileOK(f) /\ attempts[f] \in Nat
    BY DEF FInv, TypeOK
  <2>2. QED
    BY <2>1 DEF FileOK, Files, Older
<1>2. QED
  BY <1>1, TransferInvariance, PTL

-----------------------------------------------------------------------------
(* Effects happen under the permit of their admission.                     *)

Wanted == NeedsFiles \cup {"clipboard"}

\* While a handler has the gate its permit is honoured; the permit of a request
\* that names a session is of that session; only stored batches are copied.
PermitOK(h) ==
  /\ gate = h => Honoured(req[h].permit)
  /\ req[h].file \notin Batches => req[h].epoch = 0
  /\ /\ req[h].file \in Batches /\ req[h].at \notin {"idle", "accepted"}
     /\ req[h].kind \in Wanted /\ req[h].epoch # 0
     => req[h].permit.epoch = req[h].epoch
  /\ req[h].file \in Batches =>
       /\ req[h].at \notin {"receive", "offer"}
       /\ req[h].at \in {"guard", "effect"} => req[h].kind \in Wanted
       /\ req[h].at \in {"lookup", "verify", "claim", "mark", "copy", "keep", "settle"} =>
            req[h].kind \in Wanted /\ phase[req[h].file] = "stored"

PInv ==
  /\ todo # <<>> => gate = "control"
  /\ \A f \in Older : record[f] = "none" => survives[f] = {"none"}
  /\ \A h \in Handlers : PermitOK(h)

\* What an effect on a file requires of the handler that has it.
Permitted(f) ==
  /\ \E h \in Handlers : /\ gate = h /\ req'[h] # req[h] /\ req[h].file = f
                         /\ Honoured(req[h].permit)
                         /\ req[h].epoch # 0 => req[h].epoch = epoch
  /\ f \in Batches => phase'[f] = "stored"

Effect(f) ==
  \/ attempts'[f] # attempts[f]
  \/ f \notin Batches /\ record[f] = "none" /\ record'[f] # "none"
  \/ f \in Batches /\ phase[f] # "stored" /\ phase'[f] = "stored"

\* Nothing that is stored is changed by the store, and an older file without a
\* record has none that a power loss could bring back.
Calm ==
  /\ UNCHANGED <<todo, session, incomplete>>
  /\ \A b \in Batches : phase[b] = "stored" => phase'[b] = "stored"
  /\ \A f \in Older : record'[f] = "none" => survives'[f] = {"none"}

LEMMA StoredLasts ==
  ASSUME TypeOK, NEW b \in Batches,
         \/ Promise!Receive(b, "manifest") \/ Promise!Store(b) \/ Promise!Cancel(b)
         \/ Promise!Break(b) \/ Promise!Expire(b) \/ Promise!Forget(b)
  PROVE  \A c \in Batches : phase[c] = "stored" => phase'[c] = "stored"
<1>1. phase \in [Batches -> Phases] /\ phase[b] # "stored"
  BY DEF TypeOK, Promise!Receive, Promise!Store, Promise!Cancel, Promise!Break,
         Promise!Expire, Promise!Forget
<1>2. \E p \in Phases : phase' = [phase EXCEPT ![b] = p]
  BY DEF Promise!Receive, Promise!Store, Promise!Cancel, Promise!Break, Promise!Expire,
         Promise!Forget, Promise!Become, Phases
<1>3. QED
  BY <1>1, <1>2

LEMMA QuietCalm == ASSUME PInv, Quiet PROVE Calm
BY DEF PInv, Quiet, Ungated, disk, Calm

\* A record that is left for a batch, or that is not "none".
LEMMA FoundCalm ==
  ASSUME FInv, PInv, NEW f \in Files, NEW what, NEW later,
         Found(f, what, later), Ungated, f \in Batches \/ what # "none"
  PROVE  Calm
<1>1. ASSUME NEW g \in Older, record'[g] = "none" PROVE survives'[g] = {"none"}
  <2>1. g \in Files /\ g \notin Batches
    BY TransferAssumption DEF Older, Files
  <2>2. g # f
    BY <1>1, <2>1 DEF Found, FInv, TypeOK
  <2>3. record'[g] = record[g] /\ survives'[g] = survives[g]
    BY <2>1, <2>2 DEF Found, FInv, TypeOK
  <2>4. QED
    BY <1>1, <2>3 DEF PInv
<1>2. QED
  BY <1>1 DEF Calm, Found, Ungated

LEMMA StillCalm == ASSUME PInv, Ungated, UNCHANGED disk PROVE Calm
BY DEF PInv, Ungated, disk, Calm

LEMMA ServeCalm == ASSUME FInv, PInv, NEW h \in Handlers, Serve(h) PROVE Calm
<1> DEFINE f == req[h].file
<1>0. f \in Files
  BY Served
<1>1. CASE Quiet
  BY <1>1, QuietCalm
<1>2. CASE Discard(h) \/ Cancel(h) \/ StoreEffect(h)
  <2>1. f \in Batches
    BY <1>2, StorePlace DEF Discard, Cancel, StoreEffect, Asks, At
  <2>2. \A b \in Batches : phase[b] = "stored" => phase'[b] = "stored"
    BY <1>2, <2>1, StoredLasts DEF Discard, Cancel, StoreEffect, FInv
  <2>3. UNCHANGED <<record, survives>> /\ Ungated
    BY <1>2 DEF Discard, Cancel, StoreEffect
  <2>4. QED
    BY <2>2, <2>3 DEF Calm, PInv, Ungated
<1>3. CASE Publish(h)
  BY <1>0, <1>3, FoundCalm, StillCalm DEF Publish
<1>4. CASE Claim(h)
  BY <1>0, <1>4, FoundCalm, StillCalm DEF Claim
<1>5. CASE Mark(h)
  BY <1>0, <1>5, FoundCalm, StillCalm DEF Mark
<1>6. CASE Copy(h)
  BY <1>6, StillCalm DEF Copy
<1>7. CASE Keep(h)
  BY <1>0, <1>7, FoundCalm, StillCalm DEF Keep
<1>8. CASE Settle(h)
  <2>1. f \in Batches
    BY <1>8, Served DEF Settle, At, HandlerOK, PlaceOK, BatchPlaces
  <2>2. QED
    BY <1>0, <1>8, <2>1, FoundCalm, StillCalm DEF Settle
<1>9. QED
  BY <1>1, <1>2, <1>3, <1>4, <1>5, <1>6, <1>7, <1>8
     DEF Serve, Arrive, Refuse, Status, Begin, Chunk, Commit, Clipboard, Guard, LookupPost,
         Receive, Offer, ReadStored, LookupBatch, Verify

\* A step of one handler keeps PInv if it keeps it for this handler.
LEMMA PermitFrame ==
  ASSUME FInv, FInv', PInv, Calm, NEW h \in Handlers, PermitOK(h)',
         \A g \in Handlers : g # h => req'[g] = req[g],
         gate' = gate \/ (gate \in {h, "free"} /\ gate' \in {h, "free"})
  PROVE  PInv'
<1>1. todo' # <<>> => gate' = "control"
  BY TransferAssumption DEF PInv, Calm
<1>2. ASSUME NEW g \in Handlers, g # h PROVE PermitOK(g)'
  <2>1. PermitOK(g) /\ req'[g] = req[g] /\ (gate' = g => gate = g)
    BY <1>2, TransferAssumption DEF PInv
  <2>2. Honoured(req[g].permit)' <=> Honoured(req[g].permit)
    BY <2>1 DEF Calm, Honoured, Allowed, session
  <2>3. QED
    BY <2>1, <2>2 DEF PermitOK, Calm
<1>3. QED
  BY <1>1, <1>2 DEF PInv, Calm

LEMMA AnswerPermit ==
  ASSUME FInv, FInv', PInv, Calm, NEW h \in Handlers, NEW claims, Answer(h, claims)
  PROVE  PInv'
<1>1. req'[h] = Idle /\ \A g \in Handlers : g # h => req'[g] = req[g]
  BY DEF Answer, FInv, TypeOK
<1>2. gate' # h /\ (gate' = gate \/ (gate = h /\ gate' = "free"))
  BY TransferAssumption DEF Answer, Without
<1>3. PermitOK(h)'
  BY <1>1, <1>2 DEF PermitOK, Idle
<1>4. QED
  BY <1>1, <1>2, <1>3, PermitFrame

\* A handler goes on with the request it serves.
LEMMA MovePermit ==
  ASSUME FInv, FInv', PInv, Calm, NEW h \in Handlers, NEW r \in Requests,
         req' = [req EXCEPT ![h] = r], r.file = req[h].file, r.kind = req[h].kind,
         r.epoch = req[h].epoch, req[h].at \notin {"idle", "accepted"},
         gate' = gate \/ (gate \in {h, "free"} /\ gate' \in {h, "free"}),
         gate' = h => gate = h \/ Honoured(r.permit),
         r.permit = req[h].permit \/ (r.file \notin Batches /\ gate' # h),
         r.file \in Batches =>
           /\ r.at \notin {"receive", "offer"}
           /\ r.at \in {"guard", "effect"} => r.kind \in Wanted
           /\ r.at \in {"lookup", "verify", "claim", "mark", "copy", "keep", "settle"} =>
                r.kind \in Wanted /\ phase[r.file] = "stored"
  PROVE  PInv'
<1>1. req'[h] = r /\ \A g \in Handlers : g # h => req'[g] = req[g]
  BY DEF FInv, TypeOK
<1>2. PermitOK(h) /\ (Honoured(r.permit)' <=> Honoured(r.permit))
  BY DEF PInv, Calm, Honoured, Allowed, session
<1>3. PermitOK(h)'
  <2>1. (gate = h)' => Honoured(req[h].permit)'
    BY <1>1, <1>2 DEF PermitOK, Calm, Honoured, Allowed, session
  <2>2. QED
    BY <1>1, <1>2, <2>1 DEF PermitOK, Calm
<1>4. QED
  BY <1>1, <1>3, PermitFrame

\* The place changes, and nothing else of the request.
LEMMA PlacePermit ==
  ASSUME FInv, FInv', PInv, Calm, NEW h \in Handlers, NEW place,
         req' = [req EXCEPT ![h].at = place], place \in Places,
         req[h].at \notin {"idle", "accepted"},
         gate' = gate \/ (gate \in {h, "free"} /\ gate' \in {h, "free"}),
         gate' = h => gate = h \/ Honoured(req[h].permit),
         req[h].file \in Batches =>
           /\ place \notin {"receive", "offer"}
           /\ place \in {"guard", "effect"} => req[h].kind \in Wanted
           /\ place \in {"lookup", "verify", "claim", "mark", "copy", "keep", "settle"} =>
                req[h].kind \in Wanted /\ phase[req[h].file] = "stored"
  PROVE  PInv'
<1>1. [req[h] EXCEPT !.at = place] \in Requests
  BY Served DEF Requests
<1>2. PICK r \in Requests :
        /\ req' = [req EXCEPT ![h] = r] /\ r.at = place /\ r.file = req[h].file
        /\ r.kind = req[h].kind /\ r.epoch = req[h].epoch /\ r.permit = req[h].permit
  BY <1>1, Served DEF Requests
<1>3. r.file \in Batches =>
        /\ r.at \notin {"receive", "offer"}
        /\ r.at \in {"guard", "effect"} => r.kind \in Wanted
        /\ r.at \in {"lookup", "verify", "claim", "mark", "copy", "keep", "settle"} =>
             r.kind \in Wanted /\ phase[r.file] = "stored"
  BY <1>2
<1>4. gate' = h => gate = h \/ Honoured(r.permit)
  BY <1>2
<1>5. QED
  BY <1>2, <1>3, <1>4, MovePermit

LEMMA ArrivePermit ==
  ASSUME FInv, FInv', PInv, Calm, NEW h \in Handlers, Arrive(h)
  PROVE  PInv'
<1>1. CASE Answer(h, Error)
  BY <1>1, AnswerPermit
<1>2. ASSUME NEW scope \in Scopes,
             req' = [req EXCEPT ![h].at = First[req[h].kind], ![h].permit = Permit(scope)],
             req[h].kind \in Wanted => (req[h].epoch # 0 => req[h].epoch = epoch),
             UNCHANGED <<gate, store, told>>
      PROVE  PInv'
  <2>1. req[h] \in Requests /\ PermitOK(h) /\ At(h, "accepted")
    BY Served DEF PInv, Arrive
  <2>2. First[req[h].kind] \in {"lookup", "receive", "cancel", "store"}
        /\ (req[h].file \in Batches => First[req[h].kind] \in {"cancel", "store"})
    BY <2>1, Served, TransferAssumption DEF First, Requests, Identities, At
  <2>3. Permit(scope) \in Permits /\ Permit(scope).epoch = epoch
    BY PermitTyped DEF FInv, TypeOK, Permit
  <2>4. PICK r \in Requests :
          /\ req' = [req EXCEPT ![h] = r] /\ r.at = First[req[h].kind] /\ r.file = req[h].file
          /\ r.kind = req[h].kind /\ r.epoch = req[h].epoch /\ r.permit = Permit(scope)
    <3>1. [req[h] EXCEPT !.at = First[req[h].kind], !.permit = Permit(scope)] \in Requests
      BY <2>1, <2>2, <2>3 DEF Requests, Places
    <3>2. QED
      BY <1>2, <2>1, <3>1 DEF Requests
  <2>5. req'[h] = r /\ \A g \in Handlers : g # h => req'[g] = req[g]
    BY <2>4 DEF FInv, TypeOK
  <2>6. gate # h
    BY <2>1, Served DEF At, Gated
  <2>7. PermitOK(h)'
    BY <1>2, <2>1, <2>2, <2>3, <2>4, <2>5, <2>6 DEF PermitOK, At
  <2>8. QED
    BY <1>2, <2>5, <2>7, PermitFrame
<1>3. QED
  BY <1>1, <1>2 DEF Arrive, Wanted, Scopes

LEMMA ServePermit == ASSUME FInv, FInv', PInv, NEW h \in Handlers, Serve(h) PROVE PInv'
<1>0. Calm /\ PermitOK(h) /\ req[h] \in Requests
  BY ServeCalm, Served DEF PInv
<1>1. CASE Arrive(h)
  BY <1>0, <1>1, ArrivePermit
<1>2. ASSUME NEW claims, Answer(h, claims) PROVE PInv'
  BY <1>0, <1>2, AnswerPermit
<1>3. CASE Status(h) \/ Begin(h) \/ Chunk(h) \/ Commit(h)
  <2>1. At(h, "store") /\ (Begin(h) \/ Chunk(h) \/ Commit(h) => req[h].kind \in Wanted)
    BY <1>3 DEF Status, Begin, Chunk, Commit, Asks, Wanted, NeedsFiles, At
  <2>2. CASE Goes(h, "stored")
    BY <1>0, <2>1, <2>2, PlacePermit DEF Goes, locks, Places, At
  <2>3. CASE Guards(h) /\ req[h].kind \in Wanted
    BY <1>0, <2>1, <2>3, PlacePermit DEF Guards, Places, At
  <2>4. QED
    BY <1>2, <1>3, <2>1, <2>2, <2>3 DEF Status, Begin, Chunk, Commit, Reply
<1>4. CASE Clipboard(h)
  <2>1. CASE phase[req[h].file] = "stored" /\ Goes(h, "lookup")
    BY <1>0, <1>4, <2>1, PlacePermit DEF Clipboard, Asks, Goes, locks, Places, At, Wanted
  <2>2. QED
    BY <1>2, <1>4, <2>1 DEF Clipboard, Phase
<1>5. CASE Discard(h) \/ Cancel(h)
  <2>1. req[h].at \in {"store", "cancel"}
    BY <1>5 DEF Discard, Cancel, Asks, At
  <2>2. CASE Goes(h, "stored") \/ Goes(h, "cancel")
    BY <1>0, <2>1, <2>2, PlacePermit DEF Goes, locks, Places
  <2>3. QED
    BY <1>2, <1>5, <2>2 DEF Discard, Cancel, Reply
<1>6. CASE Guard(h) \/ Claim(h)
  <2>1. req[h].at \in {"guard", "claim"}
    BY <1>6 DEF Guard, Claim, At
  <2>2. CASE Enter(h, "effect") /\ At(h, "guard")
    BY <1>0, <2>2, PlacePermit DEF Enter, Places, Gated, At, PermitOK
  <2>3. CASE (Enter(h, "copy") \/ Enter(h, "mark")) /\ At(h, "claim")
    BY <1>0, <2>3, PlacePermit DEF Enter, Places, Gated, At, PermitOK
  <2>4. QED
    BY <1>2, <1>6, <2>2, <2>3 DEF Guard, Claim
<1>7. CASE StoreEffect(h) \/ Publish(h)
  <2>1. req[h].at = "effect" /\ (StoreEffect(h) => req[h].file \in Batches)
        /\ (Publish(h) => req[h].file \notin Batches)
    BY <1>7 DEF StoreEffect, Publish, At
  <2>2. ASSUME NEW r \in Requests, Leaves(h, r), r.file = req[h].file, r.kind = req[h].kind,
               r.epoch = req[h].epoch, r.at \in {"stored", "offer", "claim"},
               r.permit = req[h].permit \/ r.file \notin Batches,
               r.file \in Batches => r.at = "stored"
        PROVE  PInv'
    <3>1. gate = h /\ gate' = "free" /\ req' = [req EXCEPT ![h] = r]
      BY <2>1, <2>2, Served DEF Leaves, Gated
    <3>2. QED
      BY <1>0, <2>1, <2>2, <3>1, TransferAssumption, MovePermit
  <2>3. CASE /\ req[h].file \in Batches /\ Leaves(h, [req[h] EXCEPT !.at = "stored"])
    <3>1. [req[h] EXCEPT !.at = "stored"] \in Requests
      BY <1>0 DEF Requests, Places
    <3>2. QED
      BY <1>0, <2>2, <2>3, <3>1 DEF Requests
  <2>4. CASE req[h].file \notin Batches /\ Leaves(h, [req[h] EXCEPT !.at = "offer"])
    <3>1. [req[h] EXCEPT !.at = "offer"] \in Requests
      BY <1>0 DEF Requests, Places
    <3>2. QED
      BY <1>0, <2>2, <2>4, <3>1 DEF Requests
  <2>5. CASE /\ req[h].file \notin Batches
             /\ Leaves(h, [req[h] EXCEPT !.at = "claim", !.permit = req[h].paste])
    <3>1. [req[h] EXCEPT !.at = "claim", !.permit = req[h].paste] \in Requests
      BY <1>0 DEF Requests, Places
    <3>2. QED
      BY <1>0, <2>2, <2>5, <3>1 DEF Requests
  <2>6. QED
    BY <1>2, <1>7, <2>1, <2>3, <2>4, <2>5 DEF StoreEffect, Publish
<1>8. CASE Refuse(h) \/ ReadStored(h) \/ Settle(h)
  BY <1>2, <1>8 DEF Refuse, ReadStored, Settle
<1>9. CASE LookupPost(h) \/ LookupBatch(h) \/ Verify(h)
  <2>1. req[h].at \in {"lookup", "verify"} /\ (LookupPost(h) => req[h].file \notin Batches)
    BY <1>9, TransferAssumption DEF LookupPost, LookupBatch, Verify, At
  <2>2. CASE Goes(h, "receive") /\ req[h].file \notin Batches
    BY <1>0, <2>1, <2>2, PlacePermit DEF Goes, locks, Places
  <2>3. CASE Goes(h, "verify") \/ Goes(h, "claim")
    BY <1>0, <2>1, <2>3, PlacePermit DEF Goes, locks, Places, Gated, PermitOK
  <2>4. QED
    BY <1>2, <1>9, <2>1, <2>2, <2>3 DEF LookupPost, LookupBatch, Verify
<1>10. CASE Receive(h) \/ Offer(h)
  <2>1. /\ req[h].at \in {"receive", "offer"} /\ req[h].file \notin Batches /\ gate # h
    BY <1>0, <1>10, Served DEF Receive, Offer, At, Gated, PermitOK
  <2>2. Permit("clipboard") \in Permits
    BY PermitTyped DEF Scopes, FInv, TypeOK
  <2>3. CASE Goes(h, "guard")
    BY <1>0, <2>1, <2>3, PlacePermit DEF Goes, locks, Places
  <2>4. CASE /\ req' = [req EXCEPT ![h].at = "guard", ![h].paste = Permit("clipboard")]
             /\ UNCHANGED <<locks, told>>
    <3>1. [req[h] EXCEPT !.at = "guard", !.paste = Permit("clipboard")] \in Requests
      BY <1>0, <2>2 DEF Requests, Places
    <3>2. PICK r \in Requests :
            /\ req' = [req EXCEPT ![h] = r] /\ r.at = "guard" /\ r.file = req[h].file
            /\ r.kind = req[h].kind /\ r.epoch = req[h].epoch /\ r.permit = req[h].permit
      BY <1>0, <2>4, <3>1 DEF Requests
    <3>3. gate' = gate
      BY <2>4 DEF locks
    <3>4. QED
      BY <1>0, <2>1, <3>2, <3>3, MovePermit
  <2>5. CASE /\ req' = [req EXCEPT ![h].at = "claim", ![h].permit = Permit("clipboard")]
             /\ UNCHANGED <<locks, told>>
    <3>1. [req[h] EXCEPT !.at = "claim", !.permit = Permit("clipboard")] \in Requests
      BY <1>0, <2>2 DEF Requests, Places
    <3>2. PICK r \in Requests :
            /\ req' = [req EXCEPT ![h] = r] /\ r.at = "claim" /\ r.file = req[h].file
            /\ r.kind = req[h].kind /\ r.epoch = req[h].epoch
      BY <1>0, <2>5, <3>1 DEF Requests
    <3>3. gate' = gate
      BY <2>5 DEF locks
    <3>4. QED
      BY <1>0, <2>1, <3>2, <3>3, MovePermit
  <2>6. QED
    BY <1>2, <1>10, <2>3, <2>4, <2>5 DEF Receive, Offer
<1>11. CASE Mark(h) \/ Copy(h) \/ Keep(h)
  <2>1. req[h].at \in {"mark", "copy", "keep"} /\ gate = h
    BY <1>11, Served DEF Mark, Copy, Keep, At, Gated
  <2>2. CASE Goes(h, "copy") \/ Goes(h, "settle")
    BY <1>0, <2>1, <2>2, PlacePermit DEF Goes, locks, Places, Gated, PermitOK
  <2>3. ASSUME NEW result \in {"unavailable", "ready"}, UNCHANGED <<locks, told>>,
               req' = [req EXCEPT ![h].at = "keep", ![h].result = result]
        PROVE  PInv'
    <3>1. [req[h] EXCEPT !.at = "keep", !.result = result] \in Requests
      BY <1>0 DEF Requests, Places, Gated
    <3>2. PICK r \in Requests :
            /\ req' = [req EXCEPT ![h] = r] /\ r.at = "keep" /\ r.file = req[h].file
            /\ r.kind = req[h].kind /\ r.epoch = req[h].epoch /\ r.permit = req[h].permit
      BY <1>0, <2>3, <3>1 DEF Requests
    <3>3. gate' = gate
      BY <2>3 DEF locks
    <3>4. QED
      BY <1>0, <2>1, <3>2, <3>3, MovePermit DEF PermitOK
  <2>4. QED
    BY <1>2, <1>11, <2>2, <2>3 DEF Mark, Copy, Keep
<1>12. QED
  BY <1>1, <1>3, <1>4, <1>5, <1>6, <1>7, <1>8, <1>9, <1>10, <1>11 DEF Serve

LEMMA AcceptPermit ==
  ASSUME FInv, FInv', PInv, NEW h \in Handlers, NEW k \in Kinds, NEW f \in Files,
         NEW e \in {0, epoch}, Accept(h, k, f, e)
  PROVE  PInv'
<1>1. UNCHANGED <<control, disk, store, upload>> /\ (f \notin Batches => e = 0) /\ At(h, "idle")
  BY DEF Accept
<1>2. Calm /\ gate' = gate /\ gate # h
  BY <1>1, Served DEF Calm, PInv, control, disk, At, Gated
<1> DEFINE r == [Idle EXCEPT !.at = "accepted", !.kind = k, !.file = f, !.epoch = e]
<1>3. req' = [req EXCEPT ![h] = r] /\ r.at = "accepted" /\ r.file = f /\ r.epoch = e
  BY IdleTyped DEF Accept, Requests
<1> HIDE DEF r
<1>4. req'[h] = r /\ \A g \in Handlers : g # h => req'[g] = req[g]
  BY <1>3 DEF FInv, TypeOK
<1>5. PermitOK(h)'
  BY <1>1, <1>2, <1>3, <1>4 DEF PermitOK
<1>6. QED
  BY <1>2, <1>4, <1>5, PermitFrame

LEMMA SweepPermit ==
  ASSUME FInv, PInv, NEW b \in Batches, Sweep(b)
  PROVE  PInv'
<1>1. \A c \in Batches : phase[c] = "stored" => phase'[c] = "stored"
  BY StoredLasts DEF Sweep, FInv
<1>2. UNCHANGED <<gate, todo, gen, epoch, revision, granted, incomplete, record, survives, req>>
  BY DEF Sweep, control, session
<1>3. QED
  BY <1>1, <1>2 DEF PInv, PermitOK, Honoured, Allowed

LEMMA ControlPermit ==
  ASSUME FInv, PInv, ControlStep \/ Transition, Elsewhere
  PROVE  PInv'
<1> USE TransferAssumption
<1>1. UNCHANGED <<disk, req>>
  BY DEF Elsewhere
<1>2. todo' # <<>> => gate' = "control"
  BY DEF PInv, ControlStep, Transition, Join, Reset, Geometry, Release, ShutdownResources, Connect,
         Disconnect, Shutdown, SetPermissions
<1>3. ASSUME NEW h \in Handlers, gate' = h
      PROVE  gate = h /\ UNCHANGED <<gen, epoch, revision, granted, incomplete>>
  <2>1. gate = h /\ todo = <<>>
    BY <1>3, GateKept DEF FInv, TypeOK, PInv
  <2>2. QED
    BY <2>1 DEF ControlStep, Transition, Join, Reset, Geometry, Release, ShutdownResources, Connect,
                Disconnect, Shutdown, SetPermissions, session
<1>4. ASSUME NEW h \in Handlers PROVE PermitOK(h)'
  BY <1>1, <1>3 DEF PInv, PermitOK, Honoured, Allowed, disk
<1>5. QED
  BY <1>1, <1>2, <1>4 DEF PInv, disk

LEMMA RestartPermit ==
  ASSUME FInv, PInv, NEW power \in BOOLEAN, Restart(power)
  PROVE  PInv'
<1>1. /\ gate' = "free" /\ todo' = <<>> /\ \A h \in Handlers : req'[h] = Idle
  BY DEF Restart
<1>2. \A f \in Older : record'[f] = "none" => survives'[f] = {"none"}
  <2>1. CASE power
    BY <2>1 DEF Restart, Older, Files
  <2>2. CASE ~power
    BY <2>2 DEF Restart, PInv
  <2>3. QED
    BY <2>1, <2>2
<1>3. Idle.at = "idle" /\ Idle.epoch = 0
  BY DEF Idle
<1>4. \A h \in Handlers : PermitOK(h)'
  BY <1>1, <1>3, TransferAssumption DEF PermitOK
<1>5. QED
  BY <1>1, <1>2, <1>4 DEF PInv

LEMMA PInvInit == Init => PInv
BY TransferAssumption DEF Init, GateInit, PInv, PermitOK, Idle, Older, Files

LEMMA PInvNext == FInv /\ FInv' /\ PInv /\ [Next]_vars => PInv'
<1> SUFFICES ASSUME FInv, FInv', PInv, [Next]_vars PROVE PInv'
  OBVIOUS
<1>1. CASE UNCHANGED vars
  BY <1>1 DEF vars, control, session, disk, PInv, PermitOK, Honoured, Allowed
<1>2. ASSUME NEW h \in Handlers, Serve(h) PROVE PInv'
  BY <1>2, ServePermit
<1>3. ASSUME NEW h \in Handlers, NEW k \in Kinds, NEW f \in Files, NEW e \in {0, epoch},
             Accept(h, k, f, e)
      PROVE  PInv'
  BY <1>3, AcceptPermit
<1>4. ASSUME NEW b \in Batches, Sweep(b) PROVE PInv'
  BY <1>4, SweepPermit
<1>5. CASE (ControlStep \/ Transition) /\ Elsewhere
  BY <1>5, ControlPermit
<1>6. ASSUME NEW power \in BOOLEAN, Restart(power) PROVE PInv'
  BY <1>6, RestartPermit
<1>7. QED
  BY <1>1, <1>2, <1>3, <1>4, <1>5, <1>6 DEF Next

\* A handler that has the gate may have its effect.
LEMMA HolderPermitted ==
  ASSUME FInv, PInv, NEW h \in Handlers, gate = h, req'[h] # req[h],
         NEW f \in Files, f = req[h].file,
         f \in Batches => phase'[f] = "stored" /\ req[h].kind \in Wanted
  PROVE  Permitted(f)
<1>1. PermitOK(h) /\ req[h].at \notin {"idle", "accepted"}
  BY Served DEF PInv, Gated
<1>2. req[h].epoch # 0 => req[h].epoch = epoch
  BY <1>1 DEF PermitOK, Honoured
<1>3. QED
  BY <1>1, <1>2 DEF Permitted, PermitOK

\* The handler whose effect it is goes on to another place.
LEMMA EffectMoves ==
  ASSUME FInv, NEW h \in Handlers, StoreEffect(h) \/ Publish(h) \/ Copy(h)
  PROVE  req'[h] # req[h]
<1>1. req[h].at \in {"effect", "copy"} /\ req \in [Handlers -> Requests]
  BY DEF StoreEffect, Publish, Copy, At, FInv, TypeOK
<1>2. ASSUME NEW r, r.at # req[h].at, req' = [req EXCEPT ![h] = r] PROVE req'[h] # req[h]
  BY <1>1, <1>2
<1>3. Idle.at = "idle"
  BY DEF Idle
<1>4. CASE StoreEffect(h)
  <2>1. [req[h] EXCEPT !.at = "stored"].at = "stored"
    BY <1>1 DEF Requests
  <2>2. QED
    BY <1>1, <1>2, <1>3, <1>4, <2>1 DEF StoreEffect, Answer, Leaves, At
<1>5. CASE Publish(h)
  <2>1. /\ [req[h] EXCEPT !.at = "offer"].at = "offer"
        /\ [req[h] EXCEPT !.at = "claim", !.permit = req[h].paste].at = "claim"
    BY <1>1 DEF Requests
  <2>2. QED
    BY <1>1, <1>2, <1>3, <1>5, <2>1 DEF Publish, Answer, Leaves, At
<1>6. CASE Copy(h)
  <2>1. \A result : [req[h] EXCEPT !.at = "keep", !.result = result].at = "keep"
    BY <1>1 DEF Requests
  <2>2. \/ req' = [req EXCEPT ![h] = Idle]
        \/ \E result : req' = [req EXCEPT ![h].at = "keep", ![h].result = result]
    BY <1>6 DEF Copy, Answer
  <2>3. ASSUME NEW result, req' = [req EXCEPT ![h].at = "keep", ![h].result = result]
        PROVE  req' = [req EXCEPT ![h] = [req[h] EXCEPT !.at = "keep", !.result = result]]
    BY <1>1, <2>3
  <2>4. req[h].at = "copy"
    BY <1>6 DEF Copy, At
  <2>5. QED
    BY <1>2, <1>3, <2>1, <2>2, <2>3, <2>4
<1>7. QED
  BY <1>4, <1>5, <1>6

LEMMA ServeEffect ==
  ASSUME FInv, PInv, NEW h \in Handlers, Serve(h), NEW f \in Files, Effect(f)
  PROVE  Permitted(f)
<1>0. Calm /\ PermitOK(h) /\ req[h].file \in Files
  BY ServeCalm, Served DEF PInv
<1>1. CASE Quiet
  BY <1>1 DEF Quiet, disk, history, Effect
<1>2. CASE Discard(h) \/ Cancel(h)
  <2>1. req[h].file \in Batches
    BY <1>2, StorePlace DEF Discard, Cancel, Asks, At
  <2>2. \A b \in Batches : phase'[b] = "stored" => phase[b] = "stored"
    BY <1>2, <2>1 DEF Discard, Cancel, Goes, Promise!Receive, Promise!Break, Promise!Cancel,
                      Promise!Become, FInv, TypeOK
  <2>3. QED
    BY <1>2, <2>2 DEF Discard, Cancel, history, Effect
<1>3. CASE StoreEffect(h)
  <2>1. req[h].file \in Batches /\ gate = h /\ req[h].kind \in Wanted
    BY <1>0, <1>3, Served DEF StoreEffect, At, Gated, PermitOK
  <2>2. f \in Batches /\ phase'[f] = "stored" /\ phase[f] # "stored"
    BY <1>3 DEF StoreEffect, history, Effect
  <2>3. f = req[h].file
    BY <1>3, <2>1, <2>2 DEF StoreEffect, Promise!Receive, Promise!Store, Promise!Break,
                            Promise!Become, FInv, TypeOK
  <2>4. req'[h] # req[h]
    BY <1>3, EffectMoves
  <2>5. QED
    BY <2>1, <2>2, <2>3, <2>4, HolderPermitted
<1>4. CASE Publish(h)
  <2>1. req[h].file \notin Batches /\ gate = h
    BY <1>4, Served DEF Publish, At, Gated
  <2>2. f = req[h].file
    BY <1>4 DEF Publish, Found, disk, history, Effect, FInv, TypeOK
  <2>3. req'[h] # req[h]
    BY <1>4, EffectMoves
  <2>4. QED
    BY <2>1, <2>2, <2>3, HolderPermitted
<1>5. CASE Copy(h)
  <2>1. /\ gate = h /\ phase' = phase
        /\ req[h].file \in Batches => phase[req[h].file] = "stored" /\ req[h].kind \in Wanted
    BY <1>0, <1>5, Served DEF Copy, At, Gated, PermitOK, disk
  <2>2. f = req[h].file
    BY <1>5 DEF Copy, disk, Effect, FInv, TypeOK
  <2>3. req'[h] # req[h]
    BY <1>5, EffectMoves
  <2>4. QED
    BY <2>1, <2>2, <2>3, HolderPermitted
<1>6. CASE Claim(h) \/ Mark(h) \/ Keep(h) \/ Settle(h)
  <2>1. UNCHANGED <<phase, attempts>>
    BY <1>6 DEF Claim, Mark, Keep, Settle, Found, disk, history
  <2>2. \A g \in Older : record[g] = "none" => record'[g] = "none"
    <3>1. CASE UNCHANGED disk
      BY <3>1 DEF disk
    <3>2. ASSUME NEW what, NEW later, Found(req[h].file, what, later), req[h].file \in Batches
          PROVE  \A g \in Older : record[g] = "none" => record'[g] = "none"
      BY <3>2, TransferAssumption DEF Found, Older, FInv, TypeOK, Files
    <3>3. CASE Keep(h) /\ Found(req[h].file, "ready", survives[req[h].file] \cup {"ready"})
               /\ req[h].file \in Posts
      <4>1. record[req[h].file] # "none"
        BY <3>3, Served DEF Keep, At, HandlerOK, OlderOK, Older
      <4>2. QED
        BY <3>3, <4>1 DEF Found, Older, FInv, TypeOK, Files
    <3>4. (Mark(h) \/ Settle(h)) => req[h].file \in Batches
      BY Served DEF Mark, Settle, At, HandlerOK, PlaceOK, BatchPlaces
    <3>5. QED
      BY <1>6, <3>1, <3>2, <3>3, <3>4 DEF Claim, Mark, Keep, Settle, Quiet
  <2>3. QED
    BY <2>1, <2>2 DEF Effect, Files, Older
<1>7. QED
  BY <1>1, <1>2, <1>3, <1>4, <1>5, <1>6
     DEF Serve, Arrive, Refuse, Status, Begin, Chunk, Commit, Clipboard, Guard, LookupPost,
         Receive, Offer, ReadStored, LookupBatch, Verify

LEMMA NextEffect ==
  ASSUME FInv, PInv, [Next]_vars, NEW f \in Files, Effect(f)
  PROVE  Permitted(f)
<1>1. CASE UNCHANGED <<disk, history>>
  BY <1>1 DEF disk, history, Effect
<1>2. ASSUME NEW h \in Handlers, Serve(h) PROVE Permitted(f)
  BY <1>2, ServeEffect
<1>3. ASSUME NEW b \in Batches, Sweep(b) PROVE Permitted(f)
  <2>1. \A c \in Batches : phase'[c] = "stored" => phase[c] = "stored"
    BY <1>3 DEF Sweep, Promise!Expire, Promise!Forget, Promise!Become, FInv, TypeOK
  <2>2. QED
    BY <1>3, <2>1 DEF Sweep, history, Effect
<1>4. ASSUME NEW power \in BOOLEAN, Restart(power) PROVE Permitted(f)
  <2>1. \A c \in Batches : phase'[c] = "stored" => phase[c] = "stored"
    BY <1>4 DEF Restart, Promise!Break, Promise!Become, FInv, TypeOK
  <2>2. \A g \in Older : record[g] = "none" => record'[g] = "none"
    BY <1>4 DEF Restart, PInv, Older, Files
  <2>3. QED
    BY <1>4, <2>1, <2>2 DEF Restart, Effect, Older, Files
<1>5. QED
  BY <1>1, <1>2, <1>3, <1>4 DEF Next, Accept, Elsewhere, vars

\* No batch becomes stored, nothing is published and nothing is offered to the
\* clipboard but by the handler that holds the gate for it, under the permissions
\* and in the session in which its request was admitted
\* (captureRequestMutationPermit, runPermittedMutation), however sessions,
\* policies, requests and the shutdown interleave.
THEOREM TransferEffectPermitted == Spec => EffectPermitted
<1>1. Init => PInv
  BY PInvInit
<1>2. FInv /\ FInv' /\ PInv /\ [Next]_vars => PInv'
  BY PInvNext
<1>3. FInv /\ PInv /\ [Next]_vars => [\A f \in Files : Effect(f) => Permitted(f)]_vars
  BY NextEffect
<1>4. Spec => [][\A f \in Files : Effect(f) => Permitted(f)]_vars
  BY <1>1, <1>2, <1>3, TransferInvariance, PTL DEF Spec
<1>5. [\A f \in Files : Effect(f) => Permitted(f)]_vars
        => [\A f \in Files :
              \/ attempts'[f] # attempts[f]
              \/ f \notin Batches /\ record[f] = "none" /\ record'[f] # "none"
              \/ f \in Batches /\ phase[f] # "stored" /\ phase'[f] = "stored"
              => /\ \E h \in Handlers : /\ gate = h /\ req'[h] # req[h] /\ req[h].file = f
                                        /\ Honoured(req[h].permit)
                                        /\ req[h].epoch # 0 => req[h].epoch = epoch
                 /\ f \in Batches => phase'[f] = "stored"]_vars
  BY DEF Effect, Permitted
<1>6. QED
  BY <1>4, <1>5, PTL DEF EffectPermitted
-----------------------------------------------------------------------------
(* The three locks are taken in one order, and left.                       *)

\* uploadMu and Store.mu are held by requests that are being served, Store.mu only
\* from the guard to the end of its effect; the gate belongs to a transition as
\* long as there is something of it to do.
LocksHeld ==
  /\ store \in Handlers => req[store].at \in {"guard", "effect"}
  /\ upload \in Handlers => req[upload].at \notin {"idle", "accepted"}
  /\ todo # <<>> => gate = "control"

\* Where a handler waits for a lock that is held: nothing else makes it wait.
Waits(h) ==
  \/ req[h].at \in {"store", "cancel"} /\ store # "free"
  \/ req[h].at \in {"guard", "claim"} /\ gate # "free"

\* While a request is served or a transition under way, one of them does not wait.
NoneWaitsForAll ==
  (gate # "free" \/ \E h \in Handlers : ~At(h, "idle"))
    => \/ \E h \in Handlers : ~At(h, "idle") /\ ~Waits(h)
       \/ gate = "control"

\* What a step of a handler may do to the locks.
Relocks(h) ==
  /\ \A g \in Handlers : g # h => req'[g] = req[g]
  /\ store' \in {store, "free"} \/ store' = h
  /\ upload' \in {upload, "free"} \/ upload' = h
  /\ store' = h => req'[h].at \in {"guard", "effect"}
  /\ upload' = h => req'[h].at \notin {"idle", "accepted"}
  /\ todo' = todo /\ (gate = "control" => gate' = "control")

LEMMA RelocksKeeps ==
  ASSUME FInv, LocksHeld, NEW h \in Handlers, Relocks(h)
  PROVE  LocksHeld'
<1>1. store' \in Handlers => req'[store'].at \in {"guard", "effect"}
  BY TransferAssumption DEF LocksHeld, Relocks
<1>2. upload' \in Handlers => req'[upload'].at \notin {"idle", "accepted"}
  BY TransferAssumption DEF LocksHeld, Relocks
<1>3. todo' # <<>> => gate' = "control"
  BY DEF LocksHeld, Relocks
<1> QED
  BY <1>1, <1>2, <1>3 DEF LocksHeld

\* What a handler holds, at most: where it waits for Store.mu it does not have it.
LEMMA Holds ==
  ASSUME FInv, LocksHeld, NEW h \in Handlers
  PROVE  /\ req \in [Handlers -> Requests] /\ h # "free" /\ h # "control"
         /\ store = h => req[h].at \in {"guard", "effect"}
         /\ upload = h => req[h].at \notin {"idle", "accepted"}
         /\ gate = h <=> req[h].at \in Gated
BY TransferAssumption DEF FInv, TypeOK, LocksHeld

\* A handler that goes on with what it holds, or takes a lock, or leaves one.
LEMMA MoveRelocks ==
  ASSUME FInv, LocksHeld, NEW h \in Handlers, NEW place, Ungated,
         \A g \in Handlers : g # h => req'[g] = req[g],
         req'[h].at = place, place \notin {"idle", "accepted"}, upload' = upload,
         store' = store \/ store' = "free" \/ (store' = h /\ place = "guard"),
         req[h].at \notin {"guard", "effect"} \/ place = "effect" \/ store' = "free",
         gate' = gate \/ gate = "free" \/ gate = h
  PROVE  Relocks(h)
<1>1. todo' = todo
  BY DEF Ungated
<1> QED
  BY <1>1, Holds DEF Relocks

\* A step that changes nothing of a request but its place, and perhaps more.
LEMMA Moved ==
  ASSUME FInv, NEW h \in Handlers, NEW r, req' = [req EXCEPT ![h] = r]
  PROVE  req'[h] = r /\ \A g \in Handlers : g # h => req'[g] = req[g]
BY DEF FInv, TypeOK

LEMMA MovedTo ==
  ASSUME FInv, NEW h \in Handlers, NEW place, req' = [req EXCEPT ![h].at = place]
  PROVE  req'[h].at = place /\ \A g \in Handlers : g # h => req'[g] = req[g]
<1>1. req \in [Handlers -> Requests] /\ req[h] \in Requests
  BY DEF FInv, TypeOK
<1>2. req'[h] = [req[h] EXCEPT !.at = place]
  BY <1>1
<1> QED
  BY <1>1, <1>2 DEF Requests

LEMMA GoesRelocks ==
  ASSUME FInv, LocksHeld, NEW h \in Handlers, NEW place, Ungated, Goes(h, place),
         place \notin {"idle", "accepted"}, req[h].at \notin {"guard", "effect"}
  PROVE  Relocks(h)
<1>1. req'[h].at = place /\ \A g \in Handlers : g # h => req'[g] = req[g]
  BY MovedTo DEF Goes
<1>2. store' = store /\ upload' = upload /\ gate' = gate
  BY DEF Goes, locks
<1> QED
  BY <1>1, <1>2, MoveRelocks

LEMMA EnterRelocks ==
  ASSUME FInv, LocksHeld, NEW h \in Handlers, NEW place, Ungated, Enter(h, place),
         place \notin {"idle", "accepted"},
         req[h].at \notin {"guard", "effect"} \/ place = "effect"
  PROVE  Relocks(h)
<1>1. req'[h].at = place /\ \A g \in Handlers : g # h => req'[g] = req[g]
  BY MovedTo DEF Enter
<1>2. store' = store /\ upload' = upload /\ gate = "free"
  BY DEF Enter
<1> QED
  BY <1>1, <1>2, MoveRelocks

\* Only a guard waits with Store.mu, and it gets it from nobody.
LEMMA GuardsRelocks ==
  ASSUME FInv, LocksHeld, NEW h \in Handlers, Ungated, At(h, "store"), Guards(h)
  PROVE  Relocks(h)
<1>1. req'[h].at = "guard" /\ \A g \in Handlers : g # h => req'[g] = req[g]
  BY MovedTo DEF Guards
<1>2. store' = h /\ upload' = upload /\ gate' = gate /\ req[h].at = "store"
  BY DEF Guards, At
<1> QED
  BY <1>1, <1>2, MoveRelocks

LEMMA LeavesRelocks ==
  ASSUME FInv, LocksHeld, NEW h \in Handlers, NEW r, Ungated, Leaves(h, r), At(h, "effect"),
         r.at \notin {"idle", "accepted", "guard", "effect"}
  PROVE  Relocks(h)
<1>1. req'[h].at = r.at /\ \A g \in Handlers : g # h => req'[g] = req[g]
  BY Moved DEF Leaves
<1>2. store' = Without(store, h) /\ upload' = upload /\ gate' = "free" /\ todo' = todo
  BY DEF Leaves, Ungated
<1>3. gate = h
  BY Holds DEF At, Gated
<1> QED
  BY <1>1, <1>2, <1>3, Holds DEF Relocks, Without

LEMMA AnswerRelocks ==
  ASSUME FInv, LocksHeld, NEW h \in Handlers, NEW claims, Ungated, Answer(h, claims)
  PROVE  Relocks(h)
<1>1. req' = [req EXCEPT ![h] = Idle] /\ store' = Without(store, h) /\ upload' = Without(upload, h)
      /\ gate' = Without(gate, h)
  BY DEF Answer
<1>2. \A g \in Handlers : g # h => req'[g] = req[g]
  BY <1>1, Holds
<1>3. todo' = todo
  BY DEF Ungated
<1> QED
  BY <1>1, <1>2, <1>3, Holds DEF Relocks, Without

LEMMA ServeRelocks ==
  ASSUME FInv, LocksHeld, NEW h \in Handlers, Serve(h)
  PROVE  Relocks(h)
<1>1. Ungated
  BY DEF Serve, Arrive, Refuse, Status, Begin, Chunk, Commit, Discard, Cancel, Clipboard, Guard,
         StoreEffect, Publish, LookupPost, Receive, Offer, ReadStored, LookupBatch, Verify, Claim,
         Mark, Copy, Keep, Settle, Quiet
<1>2. ASSUME NEW claims, Answer(h, claims)
      PROVE  Relocks(h)
  BY <1>1, <1>2, AnswerRelocks
<1>3. CASE Arrive(h)
  <2>1. CASE Answer(h, Error)
    BY <1>2, <2>1
  <2>2. CASE ~Answer(h, Error)
    <3>1. PICK permit : req' = [req EXCEPT ![h].at = First[req[h].kind], ![h].permit = permit]
      BY <1>3, <2>2 DEF Arrive
    <3>2. upload' \in {upload, h} /\ UNCHANGED <<gate, store>> /\ req[h].at = "accepted"
      BY <1>3, <2>2 DEF Arrive, At
    <3>3. req \in [Handlers -> Requests] /\ req[h] \in Requests
      BY DEF FInv, TypeOK
    <3>4. First[req[h].kind] \in {"lookup", "receive", "cancel", "store"}
      BY <3>3 DEF Requests, First
    <3>5. req'[h].at = First[req[h].kind] /\ \A g \in Handlers : g # h => req'[g] = req[g]
      BY <3>1, <3>3 DEF Requests
    <3>6. store # h /\ todo' = todo
      BY <1>1, <3>2, Holds DEF Ungated
    <3> QED
      BY <3>2, <3>4, <3>5, <3>6 DEF Relocks
  <2> QED
    BY <2>1, <2>2
<1>4. CASE Status(h) \/ Begin(h) \/ Chunk(h) \/ Commit(h) \/ Discard(h) \/ Clipboard(h)
  <2>1. At(h, "store")
    BY <1>4 DEF Status, Begin, Chunk, Commit, Discard, Clipboard, Asks
  <2>2. \/ \E claims : Answer(h, claims)
        \/ \E place \in {"stored", "cancel", "lookup"} : Goes(h, place)
        \/ Guards(h)
    BY <1>4 DEF Status, Begin, Chunk, Commit, Discard, Clipboard, Reply
  <2> QED
    BY <1>1, <1>2, <2>1, <2>2, GoesRelocks, GuardsRelocks DEF At
<1>5. CASE Cancel(h) \/ Refuse(h) \/ LookupPost(h) \/ ReadStored(h) \/ LookupBatch(h)
           \/ Verify(h) \/ Mark(h) \/ Settle(h) \/ Keep(h)
  <2>1. req[h].at \notin {"guard", "effect"}
    BY <1>5 DEF Cancel, Refuse, LookupPost, ReadStored, LookupBatch, Verify, Mark, Settle, Keep, At
  <2>2. \/ \E claims : Answer(h, claims)
        \/ \E place \in {"stored", "receive", "verify", "claim", "copy", "settle"} : Goes(h, place)
    BY <1>5 DEF Cancel, Refuse, LookupPost, ReadStored, LookupBatch, Verify, Mark, Settle, Keep,
                Reply
  <2> QED
    BY <1>1, <1>2, <2>1, <2>2, GoesRelocks
<1>6. CASE Guard(h) \/ Claim(h)
  <2>1. CASE \E claims : Answer(h, claims)
    BY <1>2, <2>1
  <2>2. CASE At(h, "guard") /\ Enter(h, "effect")
    BY <1>1, <2>2, EnterRelocks
  <2>3. CASE At(h, "claim") /\ \E place \in {"copy", "mark"} : Enter(h, place)
    BY <1>1, <2>3, EnterRelocks DEF At
  <2> QED
    BY <1>6, <2>1, <2>2, <2>3 DEF Guard, Claim
<1>7. CASE StoreEffect(h) \/ Publish(h)
  <2>0. req[h] \in Requests /\ At(h, "effect")
    BY <1>7 DEF FInv, TypeOK, StoreEffect, Publish
  <2>1. CASE \E claims : Answer(h, claims)
    BY <1>2, <2>1
  <2>2. CASE \E place \in {"stored", "offer"} : Leaves(h, [req[h] EXCEPT !.at = place])
    <3>1. PICK place \in {"stored", "offer"} : Leaves(h, [req[h] EXCEPT !.at = place])
      BY <2>2
    <3>2. [req[h] EXCEPT !.at = place].at = place
      BY <2>0 DEF Requests
    <3> QED
      BY <1>1, <2>0, <3>1, <3>2, LeavesRelocks
  <2>3. CASE Leaves(h, [req[h] EXCEPT !.at = "claim", !.permit = req[h].paste])
    <3>1. [req[h] EXCEPT !.at = "claim", !.permit = req[h].paste].at = "claim"
      BY <2>0 DEF Requests
    <3> QED
      BY <1>1, <2>0, <2>3, <3>1, LeavesRelocks
  <2> QED
    BY <1>7, <2>1, <2>2, <2>3 DEF StoreEffect, Publish
<1>8. CASE Receive(h) \/ Offer(h) \/ Copy(h)
  <2>0. req \in [Handlers -> Requests] /\ req[h] \in Requests
        /\ req[h].at \notin {"guard", "effect"}
    BY <1>8 DEF FInv, TypeOK, Receive, Offer, Copy, At
  <2>1. CASE \E claims : Answer(h, claims)
    BY <1>2, <2>1
  <2>2. CASE Goes(h, "guard")
    BY <1>1, <2>0, <2>2, GoesRelocks
  <2>3. ASSUME NEW permit, UNCHANGED locks,
               req' = [req EXCEPT ![h].at = "guard", ![h].paste = permit]
        PROVE  Relocks(h)
    <3>1. req'[h].at = "guard" /\ \A g \in Handlers : g # h => req'[g] = req[g]
      BY <2>0, <2>3 DEF Requests
    <3> QED
      BY <1>1, <2>0, <2>3, <3>1, MoveRelocks DEF locks
  <2>4. ASSUME NEW permit, UNCHANGED locks,
               req' = [req EXCEPT ![h].at = "claim", ![h].permit = permit]
        PROVE  Relocks(h)
    <3>1. req'[h].at = "claim" /\ \A g \in Handlers : g # h => req'[g] = req[g]
      BY <2>0, <2>4 DEF Requests
    <3> QED
      BY <1>1, <2>0, <2>4, <3>1, MoveRelocks DEF locks
  <2>5. ASSUME NEW result, UNCHANGED locks,
               req' = [req EXCEPT ![h].at = "keep", ![h].result = result]
        PROVE  Relocks(h)
    <3>1. req'[h].at = "keep" /\ \A g \in Handlers : g # h => req'[g] = req[g]
      BY <2>0, <2>5 DEF Requests
    <3> QED
      BY <1>1, <2>0, <2>5, <3>1, MoveRelocks DEF locks
  <2>6. CASE Receive(h)
    BY <2>2, <2>3, <2>6 DEF Receive
  <2>7. CASE Offer(h)
    BY <2>1, <2>4, <2>7 DEF Offer
  <2>8. CASE Copy(h)
    BY <2>1, <2>5, <2>8 DEF Copy
  <2> QED
    BY <1>8, <2>6, <2>7, <2>8
<1> QED
  BY <1>3, <1>4, <1>5, <1>6, <1>7, <1>8 DEF Serve

LEMMA LocksInit == Init => LocksHeld
BY TransferAssumption DEF Init, GateInit, LocksHeld

LEMMA LocksNext == FInv /\ LocksHeld /\ [Next]_vars => LocksHeld'
<1> SUFFICES ASSUME FInv, LocksHeld, [Next]_vars
             PROVE  LocksHeld'
  OBVIOUS
<1>1. CASE UNCHANGED vars
  BY <1>1 DEF vars, control, LocksHeld
<1>2. ASSUME NEW h \in Handlers, Serve(h)
      PROVE  LocksHeld'
  BY <1>2, ServeRelocks, RelocksKeeps
<1>3. ASSUME NEW h \in Handlers, NEW k \in Kinds, NEW f \in Files, NEW e \in {0, epoch},
             Accept(h, k, f, e)
      PROVE  LocksHeld'
  <2>1. req[h].at = "idle" /\ UNCHANGED <<gate, todo, store, upload>>
    BY <1>3 DEF Accept, At, control
  <2>2. \A g \in Handlers : g # h => req'[g] = req[g]
    BY <1>3, Holds DEF Accept
  <2> QED
    BY <2>1, <2>2, Holds DEF LocksHeld
<1>4. ASSUME NEW b \in Batches, Sweep(b)
      PROVE  LocksHeld'
  BY <1>4 DEF Sweep, control, LocksHeld
<1>5. CASE (ControlStep \/ Transition) /\ Elsewhere
  <2>1. UNCHANGED <<store, upload, req>>
    BY <1>5 DEF Elsewhere
  <2>2. todo' # <<>> => gate' = "control"
    <3>1. CASE ControlStep
      BY <3>1 DEF ControlStep, Join, Reset, Geometry, Release, ShutdownResources, LocksHeld
    <3>2. CASE Transition
      BY <3>2 DEF Transition, Connect, Disconnect, SetPermissions, Shutdown, LocksHeld
    <3> QED
      BY <1>5, <3>1, <3>2
  <2> QED
    BY <2>1, <2>2 DEF LocksHeld
<1>6. ASSUME NEW power \in BOOLEAN, Restart(power)
      PROVE  LocksHeld'
  BY <1>6, TransferAssumption DEF Restart, LocksHeld
<1> QED
  BY <1>1, <1>2, <1>3, <1>4, <1>5, <1>6 DEF Next

\* uploadMu, Store.mu and mutationGate never wait for each other in a circle, for any
\* number of requests: whatever is refused, fails or is interrupted, a lock belongs to a
\* request that is still served or to a transition that has not ended, and while there is
\* one of these, one of them waits for no lock (file_transfers.go, filebatches.go,
\* runPermittedMutation).
THEOREM LocksInOrder == Spec => [](LocksHeld /\ NoneWaitsForAll)
<1>1. FInv /\ LocksHeld => NoneWaitsForAll
  <2> SUFFICES ASSUME FInv, LocksHeld, gate # "control",
                      gate # "free" \/ \E h \in Handlers : ~At(h, "idle")
               PROVE  \E h \in Handlers : ~At(h, "idle") /\ ~Waits(h)
    BY DEF NoneWaitsForAll
  <2>1. gate \in {"free", "control"} \cup Handlers /\ store \in Handlers \cup {"free"}
    BY DEF FInv, TypeOK, GateTypeOK
  <2>2. CASE gate # "free"
    <3>1. gate \in Handlers /\ req[gate].at \in Gated
      BY <2>1, <2>2, Holds
    <3>2. ~At(gate, "idle") /\ ~Waits(gate)
      BY <3>1 DEF At, Waits, Gated
    <3> QED
      BY <3>1, <3>2
  <2>3. CASE gate = "free" /\ store # "free"
    <3>1. store \in Handlers /\ req[store].at \in {"guard", "effect"}
      BY <2>1, <2>3 DEF LocksHeld
    <3>2. ~At(store, "idle") /\ ~Waits(store)
      BY <2>3, <3>1 DEF At, Waits
    <3> QED
      BY <3>1, <3>2
  <2>4. CASE gate = "free" /\ store = "free"
    BY <2>4 DEF Waits
  <2> QED
    BY <2>2, <2>3, <2>4
<1> QED
  BY <1>1, FInvInit, FInvNext, LocksInit, LocksNext, PTL DEF Spec

-----------------------------------------------------------------------------
(* The store behind the handlers.                                          *)

\* Some operation of the store, as its contract describes it, or none.
StoreStep == Promise!Next \/ UNCHANGED phase

LEMMA OneBatch ==
  ASSUME NEW b \in Batches,
         \/ Promise!Receive(b, "manifest") \/ Promise!Store(b) \/ Promise!Cancel(b)
         \/ Promise!Break(b) \/ Promise!Expire(b) \/ Promise!Forget(b)
  PROVE  StoreStep
BY DEF StoreStep, Promise!Next

LEMMA ServeStore ==
  ASSUME FInv, NEW h \in Handlers, Serve(h)
  PROVE  StoreStep
<1>1. CASE Arrive(h) \/ Refuse(h) \/ Status(h) \/ Begin(h) \/ Chunk(h) \/ Commit(h)
           \/ Clipboard(h) \/ Guard(h) \/ LookupPost(h) \/ Receive(h) \/ Offer(h)
           \/ ReadStored(h) \/ LookupBatch(h) \/ Verify(h)
  BY <1>1 DEF Arrive, Refuse, Status, Begin, Chunk, Commit, Clipboard, Guard, LookupPost, Receive,
              Offer, ReadStored, LookupBatch, Verify, Quiet, disk, StoreStep
<1>2. CASE Publish(h) \/ Claim(h) \/ Mark(h) \/ Copy(h) \/ Keep(h) \/ Settle(h)
  BY <1>2 DEF Publish, Claim, Mark, Copy, Keep, Settle, Found, disk, Quiet, StoreStep
<1>3. CASE Discard(h) \/ Cancel(h)
  <2>1. req[h].file \in Batches
    BY <1>3, StorePlace DEF Discard, Cancel, Asks, At
  <2> QED
    BY <1>3, <2>1, OneBatch DEF Discard, Cancel, StoreStep
<1>4. CASE StoreEffect(h)
  BY <1>4, OneBatch DEF StoreEffect, StoreStep
<1> QED
  BY <1>1, <1>2, <1>3, <1>4 DEF Serve

\* What the handlers, the sweep and the deaths of the host do to a batch is what
\* BatchContract allows the store to do, and FileBatches is shown to do no more than that:
\* none of the results above supposes anything else of the store.
THEOREM StoreByContract == Spec => [][Promise!Next]_(Promise!visible)
<1>1. ASSUME FInv, [Next]_vars
      PROVE  StoreStep
  <2>1. ASSUME NEW h \in Handlers, Serve(h)
        PROVE  StoreStep
    BY <1>1, <2>1, ServeStore
  <2>2. ASSUME NEW b \in Batches, Sweep(b)
        PROVE  StoreStep
    BY <2>2, OneBatch DEF Sweep
  <2>3. ASSUME NEW power \in BOOLEAN, Restart(power)
        PROVE  StoreStep
    BY <2>3, OneBatch DEF Restart, StoreStep
  <2>4. CASE UNCHANGED vars \/ Elsewhere
    BY <2>4 DEF vars, Elsewhere, disk, StoreStep
  <2>5. ASSUME NEW h \in Handlers, NEW k \in Kinds, NEW f \in Files, NEW e \in {0, epoch},
               Accept(h, k, f, e)
        PROVE  StoreStep
    BY <2>5 DEF Accept, disk, StoreStep
  <2> QED
    BY <1>1, <2>1, <2>2, <2>3, <2>4, <2>5 DEF Next
<1>2. StoreStep => [Promise!Next]_(Promise!visible)
  BY DEF StoreStep, Promise!visible, Held
<1> QED
  BY <1>1, <1>2, TransferInvariance, PTL DEF Spec
=============================================================================
