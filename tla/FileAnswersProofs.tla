-------------------------- MODULE FileAnswersProofs --------------------------
(***************************************************************************)
(* Proofs about what the handlers of FileTransfers answer, for any number  *)
(* of requests being served, any sets of batches and files, and any number *)
(* of deaths of the host: that what the phone is told of the clipboard is  *)
(* so, and that it stays so until a power loss takes it back.              *)
(***************************************************************************)
EXTENDS FileTransfersProofs

-----------------------------------------------------------------------------
(* The inductive invariant, next to FInv and PInv.                         *)

Verdicts == {"ready", "unavailable", "prepared"}

\* Nobody has found out, or been told, what has become of a copy.
Unread(f) == survives[f] \subseteq {"none", "uncertain"} /\ told[f] \cap Verdicts = {}

\* A "ready" has been copied and an "unavailable" has not; what a power loss can
\* bring back is no more than what was synced.
AnswerOK(f) ==
  /\ "ready" \in survives[f] \cup told[f] => f \in copied
  /\ f \in copied => attempts[f] # 0
  /\ "ready" \in told[f] /\ f \notin Singles => f \in undone \/ record[f] = "ready"
  /\ f \in Batches =>
       /\ "unavailable" \in survives[f] \cup told[f] => f \notin copied
       /\ "none" \in survives[f] => Unread(f)
       /\ "prepared" \in told[f] => survives[f] = {"ready"}
       /\ "cancelled" \in told[f] => phase[f] = "cancelled"
       /\ "stored" \in told[f] => phase[f] = "stored"

\* Who copies a batch knows the result before anybody is told.
WitnessOK(h) ==
  LET f == req[h].file IN
  /\ At(h, "stored") => phase[f] = "stored"
  /\ f \in Posts /\ At(h, "keep") => f \in copied
  /\ f \in Batches =>
       /\ req[h].at \in {"mark", "copy", "keep"} => Unread(f)
       /\ req[h].at \in {"keep", "settle"} => (f \in copied <=> req[h].result = "ready")
       /\ At(h, "settle") => /\ survives[f] \subseteq {"uncertain", req[h].result}
                             /\ told[f] \cap Verdicts \subseteq {req[h].result}

AInv == (\A f \in Files : AnswerOK(f)) /\ (\A h \in Handlers : WitnessOK(h))

-----------------------------------------------------------------------------
(* Footprints.                                                             *)

\* The store takes back nothing it has reported.
Lasting == \A b \in Batches : phase[b] \in {"stored", "cancelled"} => phase'[b] = phase[b]

\* A step of one handler touches the records and the history of no other file.
Others(h) ==
  /\ \A g \in Handlers : g # h => req'[g] = req[g]
  /\ \A e \in Files : e # req[h].file =>
       /\ record'[e] = record[e] /\ survives'[e] = survives[e] /\ attempts'[e] = attempts[e]
       /\ told'[e] = told[e] /\ (e \in copied' <=> e \in copied) /\ (e \in undone' <=> e \in undone)

\* What another handler reads and tells of a file on its way to the clipboard.
Harmless(f) ==
  /\ survives'[f] = survives[f] /\ (f \in copied' <=> f \in copied)
  /\ f \in Batches => told'[f] \cap Verdicts \subseteq told[f] \cup survives[f]

Witnessing == {"stored", "mark", "copy", "keep", "settle"}

LEMMA AnswerElsewhere ==
  ASSUME FInv, AInv, NEW h \in Handlers, Others(h), Lasting, NEW e \in Files, e # req[h].file
  PROVE  AnswerOK(e)'
<1>1. /\ record'[e] = record[e] /\ survives'[e] = survives[e] /\ attempts'[e] = attempts[e]
      /\ told'[e] = told[e] /\ (e \in copied' <=> e \in copied) /\ (e \in undone' <=> e \in undone)
  BY DEF Others
<1>2. AnswerOK(e)
  BY DEF AInv
<1>3. e \in Batches /\ phase[e] \in {"stored", "cancelled"} => phase'[e] = phase[e]
  BY DEF Lasting
<1>4. QED
  BY <1>1, <1>2, <1>3 DEF AnswerOK, Unread

LEMMA WitnessElsewhere ==
  ASSUME FInv, AInv, NEW h \in Handlers, Others(h), Lasting, copied \subseteq copied',
         NEW g \in Handlers, g # h,
         gate = g => req[g].file # req[h].file \/ Harmless(req[h].file)
  PROVE  WitnessOK(g)'
<1>1. PICK f \in Files : f = req[g].file
  BY Served
<1>2. /\ req'[g] = req[g] /\ WitnessOK(g) /\ (req[g].at \in Gated => gate = g)
      /\ At(g, "stored") => f \in Batches
  BY <1>1, Served, StorePlace DEF Others, AInv, At
<1>3. f \in Batches /\ phase[f] = "stored" => phase'[f] = "stored"
  BY DEF Lasting
<1>4. CASE req[g].at \notin Gated
  BY <1>1, <1>2, <1>3, <1>4 DEF WitnessOK, Gated, At
<1>5. CASE gate = g
  <2>1. /\ survives'[f] = survives[f] /\ (f \in copied' <=> f \in copied)
        /\ f \in Batches => told'[f] \cap Verdicts \subseteq told[f] \cup survives[f]
    BY <1>1, <1>5 DEF Harmless, Others
  <2>2. f \in Batches /\ Unread(f) => Unread(f)'
    BY <2>1 DEF Unread, Verdicts
  <2>3. f \in Batches /\ survives[f] \subseteq {"uncertain", req[g].result}
        /\ told[f] \cap Verdicts \subseteq {req[g].result}
          => told'[f] \cap Verdicts \subseteq {req[g].result}
    BY <2>1 DEF Verdicts
  <2>4. QED
    BY <1>1, <1>2, <1>3, <2>1, <2>2, <2>3 DEF WitnessOK, At
<1>6. QED
  BY <1>2, <1>4, <1>5

\* A step of one handler keeps the invariant if it keeps what concerns this
\* handler and its file, and nobody else is copying the file.
LEMMA AnswersKept ==
  ASSUME FInv, AInv, NEW h \in Handlers, Others(h), Lasting, copied \subseteq copied',
         NEW f \in Files, f = req[h].file, AnswerOK(f)', WitnessOK(h)',
         gate \in {h, "free"} \/ Harmless(f)
  PROVE  AInv'
<1>1. \A e \in Files : AnswerOK(e)'
  <2>1. ASSUME NEW e \in Files, e # f PROVE AnswerOK(e)'
    BY <2>1, AnswerElsewhere
  <2>2. QED
    BY <2>1
<1>2. \A g \in Handlers : WitnessOK(g)'
  BY WitnessElsewhere, TransferAssumption
<1>3. QED
  BY <1>1, <1>2 DEF AInv

\* What may be said of a file that is only read.
Honest(f, claims) ==
  /\ "prepared" \notin claims /\ ("ready" \in claims => record[f] = "ready")
  /\ f \in Batches =>
       /\ "unavailable" \in claims => record[f] = "unavailable"
       /\ "cancelled" \in claims => phase'[f] = "cancelled"
       /\ "stored" \in claims => phase'[f] = "stored"

\* The records and the history stay as they are.
Still == UNCHANGED <<record, survives, history>>

LEMMA PlainKept ==
  ASSUME FInv, AInv, NEW h \in Handlers, Still, Lasting,
         \A g \in Handlers : g # h => req'[g] = req[g],
         NEW claims \in SUBSET Claims, NEW f \in Files, f = req[h].file,
         told' = [told EXCEPT ![f] = @ \cup claims], Honest(f, claims), WitnessOK(h)'
  PROVE  AInv'
<1>1. /\ told'[f] = told[f] \cup claims /\ \A e \in Files : e # f => told'[e] = told[e]
      /\ UNCHANGED <<record, survives, attempts, copied, undone>>
  BY DEF FInv, TypeOK, Still, history
<1>2. Others(h) /\ copied \subseteq copied'
  BY <1>1 DEF Others
<1>3. AnswerOK(f) /\ record[f] \in survives[f]
  BY DEF AInv, FInv, TypeOK
<1>4. Harmless(f)
  BY <1>1, <1>3, Zenon DEF Harmless, Honest, Verdicts
<1>5. AnswerOK(f)'
  <2>1. "ready" \in survives'[f] \cup told'[f] => f \in copied'
    BY <1>1, <1>3 DEF AnswerOK, Honest
  <2>2. (f \in copied => attempts[f] # 0)'
    BY <1>1, <1>3 DEF AnswerOK
  <2>3. ("ready" \in told[f] /\ f \notin Singles => f \in undone \/ record[f] = "ready")'
    BY <1>1, <1>3 DEF AnswerOK, Honest
  <2>4. ASSUME f \in Batches
        PROVE  (/\ "unavailable" \in survives[f] \cup told[f] => f \notin copied
                /\ "none" \in survives[f] => Unread(f)
                /\ "prepared" \in told[f] => survives[f] = {"ready"}
                /\ "cancelled" \in told[f] => phase[f] = "cancelled"
                /\ "stored" \in told[f] => phase[f] = "stored")'
    <3>1. "unavailable" \in survives'[f] \cup told'[f] => f \notin copied'
      BY <1>1, <1>3, <2>4 DEF AnswerOK, Honest
    <3>2. "none" \in survives[f] => Unread(f)'
      BY <1>1, <1>3, <2>4 DEF AnswerOK, Honest, Unread, Verdicts
    <3>3. "prepared" \in told'[f] => survives'[f] = {"ready"}
      BY <1>1, <1>3, <2>4 DEF AnswerOK, Honest
    <3>4. ("cancelled" \in told[f] => phase[f] = "cancelled")'
          /\ ("stored" \in told[f] => phase[f] = "stored")'
      BY <1>1, <1>3, <2>4 DEF AnswerOK, Honest, Lasting
    <3>5. QED
      BY <1>1, <3>1, <3>2, <3>3, <3>4
  <2>5. QED
    BY <2>1, <2>2, <2>3, <2>4 DEF AnswerOK
<1>6. QED
  BY <1>2, <1>4, <1>5, AnswersKept

\* Nobody need know anything outside these places.
LEMMA NoWitness ==
  ASSUME NEW h \in Handlers, req'[h].at \notin Witnessing
  PROVE  WitnessOK(h)'
BY DEF WitnessOK, Witnessing, At

LEMMA PlainAnswers ==
  ASSUME FInv, AInv, NEW h \in Handlers, Still, Lasting, NEW claims \in SUBSET Claims,
         Answer(h, claims), Honest(req[h].file, claims)
  PROVE  AInv'
<1>1. PICK f \in Files : f = req[h].file
  BY Served
<1>2. /\ req'[h] = Idle /\ \A g \in Handlers : g # h => req'[g] = req[g]
      /\ told' = [told EXCEPT ![f] = @ \cup claims]
  BY <1>1 DEF Answer, FInv, TypeOK
<1>3. WitnessOK(h)'
  BY <1>2, IdleTyped, NoWitness DEF Witnessing
<1>4. QED
  BY <1>1, <1>2, <1>3, PlainKept

LEMMA PlainMoves ==
  ASSUME FInv, AInv, NEW h \in Handlers, Still, Lasting, NEW r, req' = [req EXCEPT ![h] = r],
         told' = told,
         \/ r.at \notin Witnessing
         \/ r.at = "stored" /\ phase'[r.file] = "stored"
         \/ r.at = "copy" /\ r.file \notin Batches
  PROVE  AInv'
<1>1. PICK f \in Files : f = req[h].file
  BY Served
<1>2. req'[h] = r /\ \A g \in Handlers : g # h => req'[g] = req[g]
  BY DEF FInv, TypeOK
<1>3. told' = [told EXCEPT ![f] = @ \cup {}] /\ Honest(f, {})
  BY DEF FInv, TypeOK, Honest
<1>4. WitnessOK(h)'
  BY <1>2, NoWitness DEF WitnessOK, At
<1>5. QED
  BY <1>1, <1>2, <1>3, <1>4, PlainKept

-----------------------------------------------------------------------------
(* Steps that leave the records alone.                                     *)

\* Every operation of the store keeps what it has reported (Sweep's Expire is
\* what takes a cancellation back).
LEMMA StoreLasts ==
  ASSUME TypeOK, NEW b \in Batches,
         \/ Promise!Receive(b, "manifest") \/ Promise!Store(b) \/ Promise!Cancel(b)
         \/ Promise!Break(b)
  PROVE  Lasting
<1>1. phase \in [Batches -> Phases] /\ phase[b] \notin {"stored", "cancelled"}
  BY DEF TypeOK, Promise!Receive, Promise!Store, Promise!Cancel, Promise!Break
<1>2. \E p \in Phases : phase' = [phase EXCEPT ![b] = p]
  BY DEF Promise!Receive, Promise!Store, Promise!Cancel, Promise!Break, Promise!Become, Phases
<1>3. QED
  BY <1>1, <1>2 DEF Lasting

LEMMA QuietStill == Quiet => Still /\ Lasting
BY DEF Quiet, disk, Still, Lasting

LEMMA ErrorKept ==
  ASSUME FInv, AInv, NEW h \in Handlers, Answer(h, {}), Still, Lasting
  PROVE  AInv'
BY PlainAnswers DEF Honest

\* A handler goes to a place where nothing need be known.
LEMMA PlaceKept ==
  ASSUME FInv, AInv, NEW h \in Handlers, NEW place, req' = [req EXCEPT ![h].at = place],
         told' = told, Still, Lasting,
         \/ place \notin Witnessing
         \/ place = "stored" /\ phase'[req[h].file] = "stored"
         \/ place = "copy" /\ req[h].file \notin Batches
  PROVE  AInv'
<1>1. PICK r : r = [req[h] EXCEPT !.at = place]
  OBVIOUS
<1>2. r.at = place /\ r.file = req[h].file
  BY <1>1, Served DEF Requests
<1>3. req' = [req EXCEPT ![h] = r]
  BY <1>1
<1>4. QED
  BY <1>2, <1>3, PlainMoves

LEMMA ReplyKept ==
  ASSUME FInv, AInv, NEW h \in Handlers, Reply(h), Still, Lasting, phase' = phase
  PROVE  AInv'
<1>1. CASE phase[req[h].file] = "cancelled" /\ Answer(h, {"cancelled"})
  <2>1. {"cancelled"} \in SUBSET Claims /\ Honest(req[h].file, {"cancelled"})
    BY <1>1 DEF Claims, Honest
  <2>2. QED
    BY <1>1, <2>1, PlainAnswers
<1>2. CASE Answer(h, {})
  BY <1>2, ErrorKept
<1>3. QED
  BY <1>1, <1>2 DEF Reply, Phase

LEMMA ArriveKept == ASSUME FInv, AInv, NEW h \in Handlers, Arrive(h) PROVE AInv'
<1>1. Still /\ Lasting
  BY QuietStill DEF Arrive
<1>2. CASE Answer(h, Error)
  BY <1>1, <1>2, ErrorKept DEF Error
<1>3. ASSUME NEW scope \in Scopes,
             req' = [req EXCEPT ![h].at = First[req[h].kind], ![h].permit = Permit(scope)],
             told' = told
      PROVE  AInv'
  <2>1. PICK r : r = [req[h] EXCEPT !.at = First[req[h].kind], !.permit = Permit(scope)]
    OBVIOUS
  <2>2. r.at \notin Witnessing
    BY <2>1, Served DEF Requests, First, Witnessing
  <2>3. req' = [req EXCEPT ![h] = r]
    BY <1>3, <2>1
  <2>4. QED
    BY <1>1, <1>3, <2>2, <2>3, PlainMoves
<1>4. QED
  BY <1>2, <1>3 DEF Arrive, Scopes

LEMMA AskKept ==
  ASSUME FInv, AInv, NEW h \in Handlers,
         Status(h) \/ Begin(h) \/ Chunk(h) \/ Commit(h) \/ Clipboard(h)
  PROVE  AInv'
<1>1. Quiet /\ Still /\ Lasting /\ phase' = phase
  BY QuietStill DEF Status, Begin, Chunk, Commit, Clipboard, Quiet, disk
<1>2. CASE Answer(h, Error)
  BY <1>1, <1>2, ErrorKept DEF Error
<1>3. CASE Reply(h)
  BY <1>1, <1>3, ReplyKept
<1>4. CASE Goes(h, "stored") /\ Phase(h) = "stored"
  BY <1>1, <1>4, PlaceKept DEF Goes, Phase
<1>5. CASE Goes(h, "lookup")
  BY <1>1, <1>5, PlaceKept DEF Goes, Witnessing
<1>6. CASE Guards(h)
  BY <1>1, <1>6, PlaceKept DEF Guards, Witnessing
<1>7. QED
  BY <1>2, <1>3, <1>4, <1>5, <1>6 DEF Status, Begin, Chunk, Commit, Clipboard

LEMMA DiscardKept ==
  ASSUME FInv, AInv, NEW h \in Handlers, Discard(h) \/ Cancel(h)
  PROVE  AInv'
<1>1. req[h].file \in Batches /\ Still
  BY StorePlace DEF Discard, Cancel, Asks, At, Still
<1>2. Lasting
  BY <1>1, StoreLasts DEF Discard, Cancel, Lasting, FInv
<1>3. CASE Answer(h, Error)
  BY <1>1, <1>2, <1>3, ErrorKept DEF Error
<1>4. CASE Reply(h) /\ phase' = phase
  BY <1>1, <1>2, <1>4, ReplyKept
<1>5. CASE Goes(h, "stored") /\ Phase(h) = "stored" /\ phase' = phase
  BY <1>1, <1>2, <1>5, PlaceKept DEF Goes, Phase
<1>6. CASE Goes(h, "cancel")
  BY <1>1, <1>2, <1>6, PlaceKept DEF Goes, Witnessing
<1>7. CASE Promise!Cancel(req[h].file) /\ Answer(h, {"cancelled"})
  <2>1. phase'[req[h].file] = "cancelled"
    BY <1>1, <1>7 DEF Promise!Cancel, Promise!Become, FInv, TypeOK
  <2>2. {"cancelled"} \in SUBSET Claims /\ Honest(req[h].file, {"cancelled"})
    BY <2>1 DEF Claims, Honest
  <2>3. QED
    BY <1>1, <1>2, <1>7, <2>2, PlainAnswers
<1>8. QED
  BY <1>3, <1>4, <1>5, <1>6, <1>7 DEF Discard, Cancel

LEMMA StoreEffectKept == ASSUME FInv, AInv, NEW h \in Handlers, StoreEffect(h) PROVE AInv'
<1>1. req[h].file \in Batches /\ Still
  BY DEF StoreEffect, Still
<1>2. Lasting
  BY <1>1, StoreLasts DEF StoreEffect, Lasting, FInv
<1>3. CASE Answer(h, Error)
  BY <1>1, <1>2, <1>3, ErrorKept DEF Error
<1>4. CASE Promise!Store(req[h].file) /\ Leaves(h, [req[h] EXCEPT !.at = "stored"])
  <2>1. phase'[req[h].file] = "stored"
    BY <1>1, <1>4 DEF Promise!Store, Promise!Become, FInv, TypeOK
  <2>2. req' = [req EXCEPT ![h].at = "stored"] /\ told' = told
    BY <1>4 DEF Leaves
  <2>3. QED
    BY <1>1, <1>2, <2>1, <2>2, PlaceKept
<1>5. QED
  BY <1>3, <1>4 DEF StoreEffect, Error

\* Requests that only wait, read, or are refused.
LEMMA ReadKept ==
  ASSUME FInv, AInv, PInv, NEW h \in Handlers,
         \/ Refuse(h) \/ Guard(h) \/ LookupPost(h) \/ Receive(h) \/ Offer(h)
         \/ ReadStored(h) \/ LookupBatch(h) \/ Verify(h)
  PROVE  AInv'
<1>0. PICK f \in Files : f = req[h].file
  BY Served
<1>1. Still /\ Lasting /\ phase' = phase
  BY QuietStill DEF Refuse, Guard, LookupPost, Receive, Offer, ReadStored, LookupBatch, Verify,
                    Quiet, disk
<1>2. CASE Answer(h, Error)
  BY <1>1, <1>2, ErrorKept DEF Error
<1>3. ASSUME NEW place \in {"effect", "receive", "guard", "verify", "claim"},
             req' = [req EXCEPT ![h].at = place], told' = told
      PROVE  AInv'
  BY <1>1, <1>3, PlaceKept DEF Witnessing
<1>4. CASE \/ f \in Posts /\ Answer(h, Reads(f))
           \/ f \notin Batches /\ Answer(h, {"unavailable"})
  <2>1. f \in Posts => Reads(f) \in SUBSET Claims /\ Honest(f, Reads(f))
    BY ReadClaims, TransferAssumption DEF Reads, Honest, FInv, TypeOK, Records
  <2>2. f \notin Batches => {"unavailable"} \in SUBSET Claims /\ Honest(f, {"unavailable"})
    BY DEF Honest, Claims
  <2>3. QED
    BY <1>0, <1>1, <1>4, <2>1, <2>2, PlainAnswers
<1>5. CASE /\ f \in Batches /\ phase[f] = "stored"
           /\ (Answer(h, {"stored"} \cup Reads(f)) \/ Answer(h, {"stored"}))
  <2>1. Reads(f) \in SUBSET Claims /\ record[f] \in Records
    BY <1>5, ReadClaims DEF FInv, TypeOK
  <2>2. {"stored"} \cup Reads(f) \in SUBSET Claims /\ Honest(f, {"stored"} \cup Reads(f))
    BY <1>1, <1>5, <2>1 DEF Reads, Honest, Records, Claims
  <2>3. {"stored"} \in SUBSET Claims /\ Honest(f, {"stored"})
    BY <1>1, <1>5 DEF Honest, Claims
  <2>4. QED
    BY <1>0, <1>1, <1>5, <2>2, <2>3, PlainAnswers
<1>6. CASE Refuse(h) \/ Guard(h)
  BY <1>2, <1>3, <1>6 DEF Refuse, Guard, Enter
<1>7. CASE LookupPost(h)
  BY <1>0, <1>2, <1>3, <1>4, <1>7 DEF LookupPost, Goes
<1>8. CASE Receive(h)
  <2>1. ASSUME req' = [req EXCEPT ![h].at = "guard", ![h].paste = Permit("clipboard")],
               told' = told
        PROVE  AInv'
    <3>1. PICK r : r = [req[h] EXCEPT !.at = "guard", !.paste = Permit("clipboard")]
      OBVIOUS
    <3>2. r.at \notin Witnessing /\ req' = [req EXCEPT ![h] = r]
      BY <2>1, <3>1, Served DEF Requests, Witnessing
    <3>3. QED
      BY <1>1, <2>1, <3>2, PlainMoves
  <2>2. QED
    BY <1>3, <1>8, <2>1 DEF Receive, Goes
<1>9. CASE Offer(h)
  <2>1. f \notin Batches
    BY <1>0, <1>9 DEF Offer, At, PInv, PermitOK
  <2>2. ASSUME req' = [req EXCEPT ![h].at = "claim", ![h].permit = Permit("clipboard")],
               told' = told
        PROVE  AInv'
    <3>1. PICK r : r = [req[h] EXCEPT !.at = "claim", !.permit = Permit("clipboard")]
      OBVIOUS
    <3>2. r.at \notin Witnessing /\ req' = [req EXCEPT ![h] = r]
      BY <2>2, <3>1, Served DEF Requests, Witnessing
    <3>3. QED
      BY <1>1, <2>2, <3>2, PlainMoves
  <2>3. QED
    BY <1>4, <1>9, <2>1, <2>2 DEF Offer
<1>10. CASE ReadStored(h)
  <2>1. f \in Batches /\ phase[f] = "stored"
    BY <1>0, <1>10, StorePlace DEF ReadStored, At, AInv, WitnessOK
  <2>2. QED
    BY <1>0, <1>5, <1>10, <2>1 DEF ReadStored
<1>11. CASE LookupBatch(h) \/ Verify(h)
  <2>1. f \in Batches /\ phase[f] = "stored"
    BY <1>0, <1>11, Served
       DEF LookupBatch, Verify, At, PInv, PermitOK, HandlerOK, PlaceOK, BatchPlaces
  <2>2. QED
    BY <1>0, <1>3, <1>5, <1>11, <2>1 DEF LookupBatch, Verify, Goes
<1>12. QED
  BY <1>6, <1>7, <1>8, <1>9, <1>10, <1>11

-----------------------------------------------------------------------------
(* Steps of a copy.                                                        *)

\* A record is written for the file of whoever has, takes or leaves the gate.
LEMMA RecordKept ==
  ASSUME FInv, AInv, NEW h \in Handlers, gate \in {h, "free"}, NEW f \in Files, f = req[h].file,
         NEW what \in Records, NEW later \in SUBSET Records, what \in later,
         Found(f, what, later), UNCHANGED history,
         \A g \in Handlers : g # h => req'[g] = req[g],
         NEW claims, told' = [told EXCEPT ![f] = @ \cup claims],
         AnswerOK(f)', WitnessOK(h)'
  PROVE  AInv'
<1>1. /\ attempts' = attempts /\ undone' = undone /\ UNCHANGED <<phase, copied>>
      /\ \A e \in Files : e # f =>
           record'[e] = record[e] /\ survives'[e] = survives[e] /\ attempts'[e] = attempts[e]
  BY FoundEffect DEF Found, history
<1>2. \A e \in Files : e # f => told'[e] = told[e]
  BY DEF FInv, TypeOK
<1>3. Others(h) /\ Lasting /\ copied \subseteq copied'
  BY <1>1, <1>2 DEF Others, Lasting
<1>4. QED
  BY <1>3, AnswersKept

\* What is known of one file once its record is written.
LEMMA RecordEffect ==
  ASSUME FInv, NEW f \in Files, NEW what \in Records, NEW later \in SUBSET Records,
         what \in later, Found(f, what, later), UNCHANGED history
  PROVE  /\ record'[f] = what /\ survives'[f] = later /\ attempts'[f] = attempts[f]
         /\ UNCHANGED <<phase, copied, undone>>
<1>1. /\ attempts' = attempts /\ undone' = undone /\ record'[f] = what /\ survives'[f] = later
  <2>1. record \in [Files -> Records] /\ survives \in [Files -> SUBSET Records]
    BY DEF FInv, TypeOK
  <2>2. QED
    BY <2>1 DEF Found, history
<1>2. UNCHANGED <<phase, copied>>
  BY DEF Found, history
<1>3. QED
  BY <1>1, <1>2

\* No answer yet.
LEMMA Untold ==
  ASSUME FInv, NEW f \in Files, told' = told
  PROVE  told' = [told EXCEPT ![f] = @ \cup {}] /\ told'[f] = told[f]
BY DEF FInv, TypeOK

LEMMA PublishKept == ASSUME FInv, AInv, NEW h \in Handlers, Publish(h) PROVE AInv'
<1>0. PICK f \in Files : f = req[h].file
  BY Served
<1>1. /\ req[h].at = "effect" /\ gate = h /\ f \in Older /\ f \notin Batches
      /\ UNCHANGED history /\ AnswerOK(f) /\ HandlerOK(h)
  BY <1>0, Served DEF Publish, At, Older, Files, Gated, AInv
<1>2. CASE Answer(h, Error) /\ UNCHANGED disk
  <2>1. Still /\ Lasting
    BY <1>1, <1>2 DEF Still, Lasting, disk
  <2>2. QED
    BY <1>2, <2>1, ErrorKept DEF Error
<1>3. ASSUME NEW r, req' = [req EXCEPT ![h] = r], r.at \notin Witnessing,
             told' = [told EXCEPT ![f] = @ \cup {}],
             NEW what \in Records, NEW later \in SUBSET Records, what \in later,
             "ready" \notin later, f \in Singles \/ record[f] = "none", Found(f, what, later)
      PROVE  AInv'
  <2>1. req'[h] = r /\ \A g \in Handlers : g # h => req'[g] = req[g]
    BY <1>3 DEF FInv, TypeOK
  <2>2. WitnessOK(h)'
    BY <1>3, <2>1, NoWitness
  <2>3. /\ survives'[f] = later /\ attempts'[f] = attempts[f] /\ told'[f] = told[f]
        /\ copied' = copied /\ undone' = undone
    BY <1>1, <1>3, RecordEffect DEF FInv, TypeOK
  <2>4. AnswerOK(f)'
    BY <1>1, <1>3, <2>3 DEF AnswerOK
  <2>5. QED
    BY <1>0, <1>1, <1>3, <2>1, <2>2, <2>4, RecordKept
<1>4. CASE /\ f \in Posts /\ Found(f, "unavailable", {"none", "uncertain", "unavailable"})
           /\ Leaves(h, [req[h] EXCEPT !.at = "offer"])
  <2>1. PICK r : r = [req[h] EXCEPT !.at = "offer"]
    OBVIOUS
  <2>2. r.at \notin Witnessing /\ req' = [req EXCEPT ![h] = r] /\ told' = told
    BY <1>4, <2>1, Served DEF Requests, Witnessing, Leaves
  <2>3. record[f] = "none"
    BY <1>0, <1>1, <1>4 DEF HandlerOK, OlderOK
  <2>4. QED
    BY <1>3, <1>4, <2>2, <2>3, Untold DEF Records
<1>5. ASSUME NEW r, req' = [req EXCEPT ![h] = r], r.at \notin Witnessing,
             told' = [told EXCEPT ![f] = @ \cup {}],
             f \in Singles, Found(f, "saved", {"none", "saved"})
      PROVE  AInv'
  BY <1>3, <1>5 DEF Records
<1>6. CASE f \in Singles /\ Found(f, "saved", {"none", "saved"}) /\ Answer(h, {})
  <2>1. Idle.at \notin Witnessing /\ req' = [req EXCEPT ![h] = Idle]
        /\ told' = [told EXCEPT ![f] = @ \cup {}]
    BY <1>0, <1>6, IdleTyped DEF Answer, Witnessing
  <2>2. QED
    BY <1>5, <1>6, <2>1
<1>7. CASE /\ f \in Singles /\ Found(f, "saved", {"none", "saved"})
           /\ Leaves(h, [req[h] EXCEPT !.at = "claim", !.permit = req[h].paste])
  <2>1. PICK r : r = [req[h] EXCEPT !.at = "claim", !.permit = req[h].paste]
    OBVIOUS
  <2>2. r.at \notin Witnessing /\ req' = [req EXCEPT ![h] = r] /\ told' = told
    BY <1>7, <2>1, Served DEF Requests, Witnessing, Leaves
  <2>3. f \in Singles /\ Found(f, "saved", {"none", "saved"})
    BY <1>7
  <2>4. told' = [told EXCEPT ![f] = @ \cup {}]
    BY <2>2, Untold
  <2>5. QED
    BY <1>5, <2>2, <2>3, <2>4
<1>8. QED
  BY <1>0, <1>2, <1>4, <1>6, <1>7 DEF Publish

LEMMA ClaimKept == ASSUME FInv, AInv, PInv, NEW h \in Handlers, Claim(h) PROVE AInv'
<1>0. PICK f \in Files : f = req[h].file
  BY Served
<1>1. /\ req[h].at = "claim" /\ UNCHANGED history /\ AnswerOK(f)
      /\ f \in Batches => phase[f] = "stored"
  BY <1>0 DEF Claim, At, AInv, PInv, PermitOK
<1>2. UNCHANGED disk => Still /\ Lasting /\ phase' = phase
  BY <1>1 DEF Still, Lasting, disk
<1>3. CASE /\ f \in Batches => Answer(h, Error)
           /\ f \notin Batches => Answer(h, {"unavailable"})
           /\ UNCHANGED disk
  <2>1. f \notin Batches => {"unavailable"} \in SUBSET Claims /\ Honest(f, {"unavailable"})
    BY DEF Honest, Claims
  <2>2. QED
    BY <1>0, <1>2, <1>3, <2>1, ErrorKept, PlainAnswers DEF Error
<1>4. CASE f \notin Batches /\ Enter(h, "copy") /\ UNCHANGED disk
  BY <1>0, <1>2, <1>4, PlaceKept DEF Enter
<1>5. CASE f \in Batches /\ Answer(h, {"stored"} \cup Reads(f)) /\ UNCHANGED disk
  <2>1. Reads(f) \in SUBSET Claims /\ record[f] \in Records
    BY <1>5, ReadClaims DEF FInv, TypeOK
  <2>2. {"stored"} \cup Reads(f) \in SUBSET Claims /\ Honest(f, {"stored"} \cup Reads(f))
    BY <1>1, <1>2, <1>5, <2>1 DEF Reads, Honest, Records, Claims
  <2>3. QED
    BY <1>0, <1>2, <1>5, <2>2, PlainAnswers
<1>6. CASE /\ f \in Batches /\ record[f] = "none" /\ Enter(h, "mark")
           /\ Found(f, "uncertain", {"none", "uncertain"})
  <2>1. PICK r : r = [req[h] EXCEPT !.at = "mark"]
    OBVIOUS
  <2>2. r.at = "mark" /\ r.file = f
    BY <1>0, <2>1, Served DEF Requests
  <2>3. /\ req'[h] = r /\ \A g \in Handlers : g # h => req'[g] = req[g]
    BY <1>6, <2>1 DEF Enter, FInv, TypeOK
  <2>4. told' = [told EXCEPT ![f] = @ \cup {}] /\ told'[f] = told[f] /\ gate = "free"
    BY <1>6, Untold DEF Enter
  <2>5. /\ survives'[f] = {"none", "uncertain"} /\ record'[f] = "uncertain"
        /\ attempts'[f] = attempts[f] /\ UNCHANGED <<phase, copied, undone>>
    BY <1>1, <1>6, RecordEffect DEF Records
  <2>6. Unread(f)
    BY <1>1, <1>6 DEF AnswerOK, FInv, TypeOK
  <2>7. Unread(f)'
    BY <2>4, <2>5, <2>6 DEF Unread
  <2>8. AnswerOK(f)'
    BY <1>1, <2>4, <2>5, <2>6, <2>7 DEF AnswerOK, Unread, Verdicts
  <2>9. WitnessOK(h)'
    BY <1>6, <2>2, <2>3, <2>7, TransferAssumption DEF WitnessOK, At
  <2>10. QED
    BY <1>0, <1>1, <1>6, <2>3, <2>4, <2>8, <2>9, RecordKept DEF Records
<1>7. CASE f \in Batches /\ Answer(h, Error) /\ UNCHANGED disk
  BY <1>2, <1>7, ErrorKept DEF Error
<1>8. QED
  BY <1>0, <1>3, <1>4, <1>5, <1>6, <1>7 DEF Claim

LEMMA MarkKept == ASSUME FInv, AInv, NEW h \in Handlers, Mark(h) PROVE AInv'
<1>0. PICK f \in Files : f = req[h].file
  BY Served
<1>1. /\ req[h].at = "mark" /\ UNCHANGED history /\ gate = h /\ AnswerOK(f) /\ f \in Batches
      /\ Unread(f)
  BY <1>0, Served DEF Mark, At, AInv, Gated, HandlerOK, PlaceOK, BatchPlaces, WitnessOK
<1>2. CASE Answer(h, Error) /\ UNCHANGED disk
  <2>1. Still /\ Lasting
    BY <1>1, <1>2 DEF Still, Lasting, disk
  <2>2. QED
    BY <1>2, <2>1, ErrorKept DEF Error
<1>3. CASE Found(f, "uncertain", {"uncertain"}) /\ Goes(h, "copy")
  <2>1. PICK r : r = [req[h] EXCEPT !.at = "copy"]
    OBVIOUS
  <2>2. r.at = "copy" /\ r.file = f
    BY <1>0, <2>1, Served DEF Requests
  <2>3. /\ req'[h] = r /\ \A g \in Handlers : g # h => req'[g] = req[g]
    BY <1>3, <2>1 DEF Goes, FInv, TypeOK
  <2>4. told' = [told EXCEPT ![f] = @ \cup {}] /\ told'[f] = told[f]
    BY <1>3, Untold DEF Goes
  <2>5. /\ survives'[f] = {"uncertain"} /\ record'[f] = "uncertain"
        /\ attempts'[f] = attempts[f] /\ UNCHANGED <<phase, copied, undone>>
    BY <1>1, <1>3, RecordEffect DEF Records
  <2>6. Unread(f)'
    BY <1>1, <2>4, <2>5 DEF Unread
  <2>7. AnswerOK(f)'
    BY <1>1, <2>4, <2>5, <2>6 DEF AnswerOK, Unread, Verdicts
  <2>8. WitnessOK(h)'
    BY <1>1, <2>2, <2>3, <2>6, TransferAssumption DEF WitnessOK, At
  <2>9. QED
    BY <1>0, <1>1, <1>3, <2>3, <2>4, <2>7, <2>8, RecordKept DEF Records
<1>4. QED
  BY <1>0, <1>2, <1>3 DEF Mark

\* Only who has the gate is on its way to the clipboard.
LEMMA CopyKept == ASSUME FInv, AInv, NEW h \in Handlers, Copy(h) PROVE AInv'
<1>0. PICK f \in Files : f = req[h].file
  BY Served
<1>1. /\ req[h].at = "copy" /\ gate = h /\ AnswerOK(f)
      /\ f \in Batches => Unread(f) /\ attempts[f] = 0
      /\ attempts[f] \in Nat /\ UNCHANGED <<disk, undone>>
  BY <1>0, Served DEF Copy, At, AInv, Gated, WitnessOK, HandlerOK, BatchOK, FInv, TypeOK
<1>2. /\ attempts' = attempts \/ attempts' = [attempts EXCEPT ![f] = @ + 1]
      /\ copied' \in {copied, copied \cup {f}}
      /\ f \in copied' \ copied => attempts' = [attempts EXCEPT ![f] = @ + 1]
  BY <1>0 DEF Copy
<1>3. /\ attempts'[f] \in {attempts[f], attempts[f] + 1}
      /\ f \in copied' => attempts'[f] # 0
      /\ \A e \in Files : e # f => attempts'[e] = attempts[e] /\ (e \in copied' <=> e \in copied)
  <2>1. attempts \in [Files -> Nat]
    BY DEF FInv, TypeOK
  <2>2. CASE attempts' = attempts
    BY <1>1, <1>2, <2>1, <2>2 DEF AnswerOK
  <2>3. CASE attempts' = [attempts EXCEPT ![f] = @ + 1]
    <3>1. attempts'[f] = attempts[f] + 1 /\ \A e \in Files : e # f => attempts'[e] = attempts[e]
      BY <2>1, <2>3
    <3>2. QED
      BY <1>1, <1>2, <3>1
  <2>4. QED
    BY <1>2, <2>2, <2>3
<1>4. /\ record' = record /\ survives' = survives /\ undone' = undone /\ phase' = phase
      /\ copied \subseteq copied' /\ Lasting
  BY <1>1, <1>2 DEF disk, Lasting
<1>5. ASSUME \A g \in Handlers : g # h => req'[g] = req[g], WitnessOK(h)',
             NEW claims, told' = [told EXCEPT ![f] = @ \cup claims],
             f \in Batches => claims = {}, f \in Posts => "ready" \notin claims,
             "ready" \in claims => f \in copied'
      PROVE  AInv'
  <2>1. told'[f] = told[f] \cup claims /\ \A e \in Files : e # f => told'[e] = told[e]
    BY <1>5 DEF FInv, TypeOK
  <2>2. Others(h)
    BY <1>0, <1>3, <1>4, <1>5, <2>1 DEF Others
  <2>3. f \in Batches \/ f \in Posts \/ f \in Singles
    BY DEF Files
  <2>4. AnswerOK(f)'
    BY <1>1, <1>3, <1>4, <1>5, <2>1, <2>3 DEF AnswerOK, Unread, Verdicts
  <2>5. QED
    BY <1>0, <1>1, <1>4, <1>5, <2>2, <2>4, AnswersKept
<1>6. ASSUME NEW result \in {"unavailable", "ready"}, f \notin Batches, Answer(h, {result}),
             result = "ready" => f \in copied' /\ f \notin Posts
      PROVE  AInv'
  <2>1. /\ req'[h] = Idle /\ \A g \in Handlers : g # h => req'[g] = req[g]
        /\ told' = [told EXCEPT ![f] = @ \cup {result}]
    BY <1>0, <1>6 DEF Answer, FInv, TypeOK
  <2>2. WitnessOK(h)'
    BY <2>1, IdleTyped, NoWitness DEF Witnessing
  <2>3. QED
    BY <1>5, <1>6, <2>1, <2>2
<1>7. ASSUME NEW result \in {"unavailable", "ready"}, f \in Batches \cup Posts,
             req' = [req EXCEPT ![h].at = "keep", ![h].result = result], told' = told,
             f \in Posts => result = "ready", f \in copied' <=> result = "ready"
      PROVE  AInv'
  <2>1. PICK r : r = [req[h] EXCEPT !.at = "keep", !.result = result]
    OBVIOUS
  <2>2. r.at = "keep" /\ r.file = f /\ r.result = result /\ req' = [req EXCEPT ![h] = r]
    BY <1>0, <1>7, <2>1, Served DEF Requests
  <2>3. req'[h] = r /\ \A g \in Handlers : g # h => req'[g] = req[g]
    BY <2>2 DEF FInv, TypeOK
  <2>4. told' = [told EXCEPT ![f] = @ \cup {}] /\ told'[f] = told[f]
    BY <1>7, Untold
  <2>5. f \in Batches => Unread(f)'
    BY <1>1, <1>4, <2>4 DEF Unread
  <2>6. WitnessOK(h)'
    BY <1>7, <2>2, <2>3, <2>5, TransferAssumption DEF WitnessOK, At
  <2>7. QED
    BY <1>5, <2>3, <2>4, <2>6
<1>8. f \in Batches => f \notin copied
  BY <1>1 DEF AnswerOK
<1>9. ASSUME NEW result \in {"unavailable", "ready"},
             IF f \in Batches \/ (f \in Posts /\ result = "ready")
             THEN /\ req' = [req EXCEPT ![h].at = "keep", ![h].result = result]
                  /\ UNCHANGED <<locks, told>>
             ELSE Answer(h, {result}),
             result = "ready" => copied' = copied \cup {f},
             result = "unavailable" => copied' = copied
      PROVE  AInv'
  <2>1. CASE f \in Batches \/ (f \in Posts /\ result = "ready")
    BY <1>7, <1>8, <1>9, <2>1, TransferAssumption
  <2>2. CASE ~(f \in Batches \/ (f \in Posts /\ result = "ready"))
    BY <1>6, <1>9, <2>2
  <2>3. QED
    BY <2>1, <2>2
<1>10. QED
  BY <1>0, <1>9 DEF Copy

LEMMA KeepKept == ASSUME FInv, AInv, PInv, NEW h \in Handlers, Keep(h) PROVE AInv'
<1>0. PICK f \in Files : f = req[h].file
  BY Served
<1>1. PICK result \in {"unavailable", "ready"} : result = req[h].result
  BY Served DEF Requests
<1>2. /\ req[h].at = "keep" /\ UNCHANGED history /\ gate = h /\ AnswerOK(f)
      /\ f \in Posts => f \in copied
      /\ f \in Batches => /\ Unread(f) /\ "none" \notin survives[f] /\ phase[f] = "stored"
                          /\ (f \in copied <=> result = "ready")
  BY <1>0, <1>1, Served DEF Keep, At, AInv, Gated, WitnessOK, HandlerOK, BatchOK, PInv, PermitOK
<1>3. CASE (IF f \in Batches THEN Answer(h, {"stored"}) ELSE Answer(h, {"unavailable"}))
           /\ UNCHANGED disk
  <2>1. Still /\ Lasting /\ phase' = phase
    BY <1>2, <1>3 DEF Still, Lasting, disk
  <2>2. f \in Batches => {"stored"} \in SUBSET Claims /\ Honest(f, {"stored"})
    BY <1>2, <2>1 DEF Claims, Honest
  <2>3. f \notin Batches => {"unavailable"} \in SUBSET Claims /\ Honest(f, {"unavailable"})
    BY DEF Claims, Honest
  <2>4. QED
    BY <1>0, <1>3, <2>1, <2>2, <2>3, PlainAnswers
<1>4. CASE /\ f \in Batches /\ Found(f, result, {"uncertain", result}) /\ Goes(h, "settle")
  <2>1. PICK r : r = [req[h] EXCEPT !.at = "settle"]
    OBVIOUS
  <2>2. r.at = "settle" /\ r.file = f /\ r.result = result
    BY <1>0, <1>1, <2>1, Served DEF Requests
  <2>3. req'[h] = r /\ \A g \in Handlers : g # h => req'[g] = req[g]
    BY <1>4, <2>1 DEF Goes, FInv, TypeOK
  <2>4. told' = [told EXCEPT ![f] = @ \cup {}] /\ told'[f] = told[f]
    BY <1>4, Untold DEF Goes
  <2>5. /\ survives'[f] = {"uncertain", result} /\ record'[f] = result
        /\ attempts'[f] = attempts[f] /\ UNCHANGED <<phase, copied, undone>>
    BY <1>2, <1>4, RecordEffect DEF Records
  <2>6. AnswerOK(f)'
    BY <1>2, <1>4, <2>4, <2>5 DEF AnswerOK, Unread, Verdicts
  <2>7. WitnessOK(h)'
    BY <1>2, <1>4, <2>2, <2>3, <2>4, <2>5, TransferAssumption DEF WitnessOK, At, Unread
  <2>8. {"uncertain", result} \in SUBSET Records /\ result \in Records
        /\ result \in {"uncertain", result} /\ gate \in {h, "free"}
    BY <1>2 DEF Records
  <2>9. QED
    BY <1>0, <1>2, <1>4, <2>3, <2>4, <2>6, <2>7, <2>8, RecordKept
<1>5. CASE /\ f \in Posts /\ Found(f, "ready", survives[f] \cup {"ready"})
           /\ Answer(h, {"ready", "prepared"})
  <2>1. /\ req'[h] = Idle /\ \A g \in Handlers : g # h => req'[g] = req[g]
        /\ told' = [told EXCEPT ![f] = @ \cup {"ready", "prepared"}]
    BY <1>0, <1>5 DEF Answer, FInv, TypeOK
  <2>2. WitnessOK(h)'
    BY <2>1, IdleTyped, NoWitness DEF Witnessing
  <2>3. survives[f] \cup {"ready"} \in SUBSET Records /\ "ready" \in Records
    BY DEF FInv, TypeOK, Records
  <2>4. /\ record'[f] = "ready" /\ attempts'[f] = attempts[f]
        /\ UNCHANGED <<phase, copied, undone>>
    BY <1>2, <1>5, <2>3, RecordEffect
  <2>5. f \notin Batches
    BY <1>5, TransferAssumption
  <2>6. AnswerOK(f)'
    BY <1>2, <1>5, <2>4, <2>5 DEF AnswerOK
  <2>7. PICK later : later = survives[f] \cup {"ready"}
    OBVIOUS
  <2>8. /\ later \in SUBSET Records /\ "ready" \in later /\ gate \in {h, "free"}
        /\ Found(f, "ready", later)
    BY <1>2, <1>5, <2>3, <2>7
  <2>9. QED
    BY <1>0, <1>2, <2>1, <2>2, <2>3, <2>6, <2>8, RecordKept
<1>6. QED
  BY <1>0, <1>1, <1>3, <1>4, <1>5 DEF Keep

LEMMA SettleKept == ASSUME FInv, AInv, PInv, NEW h \in Handlers, Settle(h) PROVE AInv'
<1>0. PICK f \in Files : f = req[h].file
  BY Served
<1>1. PICK result \in {"unavailable", "ready"} : result = req[h].result
  BY Served DEF Requests
<1>2. /\ req[h].at = "settle" /\ UNCHANGED history /\ gate = h /\ AnswerOK(f) /\ f \in Batches
      /\ phase[f] = "stored" /\ "none" \notin survives[f]
      /\ (f \in copied <=> result = "ready")
      /\ told[f] \cap Verdicts \subseteq {result}
  BY <1>0, <1>1, Served DEF Settle, At, AInv, Gated, WitnessOK, HandlerOK, BatchOK, PlaceOK,
                            BatchPlaces, PInv, PermitOK
<1>3. CASE Answer(h, {"stored"}) /\ UNCHANGED disk
  <2>1. Still /\ Lasting /\ phase' = phase
    BY <1>2, <1>3 DEF Still, Lasting, disk
  <2>2. {"stored"} \in SUBSET Claims /\ Honest(f, {"stored"})
    BY <1>2, <2>1 DEF Claims, Honest
  <2>3. QED
    BY <1>0, <1>3, <2>1, <2>2, PlainAnswers
<1>4. ASSUME NEW claims \in SUBSET Claims, Found(f, result, {result}), Answer(h, claims),
             claims \subseteq {"stored", result, "prepared"},
             "prepared" \in claims => result = "ready"
      PROVE  AInv'
  <2>1. /\ req'[h] = Idle /\ \A g \in Handlers : g # h => req'[g] = req[g]
        /\ told' = [told EXCEPT ![f] = @ \cup claims] /\ told'[f] = told[f] \cup claims
    BY <1>0, <1>4 DEF Answer, FInv, TypeOK
  <2>2. WitnessOK(h)'
    BY <2>1, IdleTyped, NoWitness DEF Witnessing
  <2>3. /\ record'[f] = result /\ survives'[f] = {result} /\ attempts'[f] = attempts[f]
        /\ UNCHANGED <<phase, copied, undone>>
    BY <1>2, <1>4, RecordEffect DEF Records
  <2>4. /\ "ready" \in told'[f] => result = "ready"
        /\ "unavailable" \in told'[f] => result = "unavailable"
        /\ "prepared" \in told'[f] => result = "ready"
        /\ "cancelled" \in told'[f] => "cancelled" \in told[f]
    BY <1>2, <1>4, <2>1 DEF Verdicts
  <2>5. AnswerOK(f)'
    BY <1>2, <2>3, <2>4 DEF AnswerOK
  <2>6. QED
    BY <1>0, <1>2, <1>4, <2>1, <2>2, <2>5, RecordKept DEF Records
<1>5. {"stored", result} \cup (IF result = "ready" THEN {"prepared"} ELSE {}) \in SUBSET Claims
  BY DEF Claims
<1>6. QED
  BY <1>0, <1>1, <1>3, <1>4, <1>5 DEF Settle

LEMMA ServeKept == ASSUME FInv, AInv, PInv, NEW h \in Handlers, Serve(h) PROVE AInv'
<1>1. CASE Arrive(h)
  BY <1>1, ArriveKept
<1>2. CASE Status(h) \/ Begin(h) \/ Chunk(h) \/ Commit(h) \/ Clipboard(h)
  BY <1>2, AskKept
<1>3. CASE Discard(h) \/ Cancel(h)
  BY <1>3, DiscardKept
<1>4. CASE StoreEffect(h)
  BY <1>4, StoreEffectKept
<1>5. CASE \/ Refuse(h) \/ Guard(h) \/ LookupPost(h) \/ Receive(h) \/ Offer(h)
           \/ ReadStored(h) \/ LookupBatch(h) \/ Verify(h)
  BY <1>5, ReadKept
<1>6. CASE Publish(h)
  BY <1>6, PublishKept
<1>7. CASE Claim(h)
  BY <1>7, ClaimKept
<1>8. CASE Mark(h) \/ Copy(h)
  BY <1>8, MarkKept, CopyKept
<1>9. CASE Keep(h) \/ Settle(h)
  BY <1>9, KeepKept, SettleKept
<1>10. QED
  BY <1>1, <1>2, <1>3, <1>4, <1>5, <1>6, <1>7, <1>8, <1>9 DEF Serve

-----------------------------------------------------------------------------
(* The other steps.                                                        *)

LEMMA AcceptKept ==
  ASSUME FInv, AInv, NEW h \in Handlers, NEW k \in Kinds, NEW f \in Files,
         NEW e \in {0, epoch}, Accept(h, k, f, e)
  PROVE  AInv'
<1>1. Still /\ Lasting /\ told' = told
  BY DEF Accept, Still, Lasting, disk
<1>2. PICK r : r = [Idle EXCEPT !.at = "accepted", !.kind = k, !.file = f, !.epoch = e]
  OBVIOUS
<1>3. req' = [req EXCEPT ![h] = r] /\ r.at \notin Witnessing
  BY <1>2, IdleTyped DEF Accept, Requests, Witnessing
<1>4. QED
  BY <1>1, <1>3, PlainMoves

\* Expiry takes a cancellation back, and the phone is told nothing by it.
LEMMA SweepKept == ASSUME FInv, AInv, NEW b \in Batches, Sweep(b) PROVE AInv'
<1>1. /\ UNCHANGED <<record, survives, attempts, copied, undone, req>>
      /\ told' = [told EXCEPT ![b] = @ \ {"cancelled"}]
  BY DEF Sweep, history
<1>2. /\ told'[b] = told[b] \ {"cancelled"} /\ b \in Files
      /\ \A f \in Files : f # b => told'[f] = told[f]
  BY <1>1 DEF FInv, TypeOK, Files
<1>3. /\ phase[b] # "stored" /\ \A c \in Batches : c # b => phase'[c] = phase[c]
  BY DEF Sweep, Promise!Expire, Promise!Forget, Promise!Become, FInv, TypeOK
<1>4. ASSUME NEW f \in Files PROVE AnswerOK(f)'
  <2>1. AnswerOK(f)
    BY DEF AInv
  <2>2. CASE f = b
    BY <1>1, <1>2, <1>3, <2>1, <2>2 DEF AnswerOK, Unread, Verdicts
  <2>3. CASE f # b
    BY <1>1, <1>2, <1>3, <2>1, <2>3 DEF AnswerOK, Unread
  <2>4. QED
    BY <2>2, <2>3
<1>5. ASSUME NEW g \in Handlers PROVE WitnessOK(g)'
  <2>1. PICK f \in Files : f = req[g].file
    BY Served
  <2>2. WitnessOK(g) /\ (At(g, "stored") => f \in Batches) /\ req'[g] = req[g]
    BY <1>1, <2>1, StorePlace DEF AInv, At
  <2>3. told'[f] \subseteq told[f]
    BY <1>2
  <2>4. Unread(f) => Unread(f)'
    BY <1>1, <2>3 DEF Unread
  <2>5. At(g, "stored") => phase'[f] = "stored"
    BY <1>3, <2>1, <2>2 DEF WitnessOK, At
  <2>6. QED
    BY <1>1, <2>1, <2>2, <2>3, <2>4, <2>5 DEF WitnessOK, At
<1>6. QED
  BY <1>4, <1>5 DEF AInv

LEMMA StandStillKept ==
  ASSUME AInv, UNCHANGED <<disk, req, history, told>>
  PROVE  AInv'
BY DEF AInv, AnswerOK, WitnessOK, Unread, At, disk, history

\* What a power loss brings back of a record is among what survives, and a record
\* that was reported is lost only together with the claim that it is kept.
LEMMA RestartKept ==
  ASSUME FInv, AInv, NEW power \in BOOLEAN, Restart(power)
  PROVE  AInv'
<1>1. /\ req' = [h \in Handlers |-> Idle] /\ UNCHANGED <<attempts, copied, told>>
  BY DEF Restart
<1>2. Lasting
  <2>1. CASE phase' = phase
    BY <2>1 DEF Lasting
  <2>2. ASSUME NEW h \in Handlers, req[h].file \in Batches, Promise!Break(req[h].file)
        PROVE  Lasting
    BY <2>2, StoreLasts DEF FInv
  <2>3. QED
    BY <2>1, <2>2 DEF Restart
<1>3. ASSUME NEW f \in Files
      PROVE  /\ survives'[f] = survives[f] \/ survives'[f] = {record'[f]}
             /\ record'[f] \in survives[f] /\ record'[f] \in survives'[f]
             /\ undone \subseteq undone'
             /\ record'[f] = record[f] \/ f \in undone'
  <2>1. CASE power
    BY <2>1 DEF Restart
  <2>2. CASE ~power
    BY <2>2 DEF Restart, FInv, TypeOK
  <2>3. QED
    BY <2>1, <2>2
<1>4. ASSUME NEW f \in Files PROVE AnswerOK(f)'
  <2>1. AnswerOK(f) /\ survives'[f] \subseteq survives[f]
    BY <1>3 DEF AInv
  <2>2. f \in Batches => ("none" \in survives[f] => Unread(f))'
    BY <1>1, <2>1 DEF AnswerOK, Unread
  <2>3. f \in Batches => ("prepared" \in told[f] => survives[f] = {"ready"})'
    BY <1>1, <1>3, <2>1 DEF AnswerOK
  <2>4. (f \in Batches /\ "cancelled" \in told[f] => phase[f] = "cancelled")'
        /\ (f \in Batches /\ "stored" \in told[f] => phase[f] = "stored")'
    BY <1>1, <1>2, <2>1 DEF AnswerOK, Lasting
  <2>5. QED
    BY <1>1, <1>3, <2>1, <2>2, <2>3, <2>4 DEF AnswerOK
<1>5. ASSUME NEW h \in Handlers PROVE WitnessOK(h)'
  BY <1>1, IdleTyped, NoWitness DEF Witnessing
<1>6. QED
  BY <1>4, <1>5 DEF AInv

LEMMA AInvInit == Init => AInv
<1> SUFFICES ASSUME Init PROVE AInv
  OBVIOUS
<1>1. ASSUME NEW f \in Files PROVE AnswerOK(f)
  BY DEF Init, AnswerOK, Unread, Verdicts
<1>2. ASSUME NEW h \in Handlers PROVE WitnessOK(h)
  BY IdleTyped DEF Init, WitnessOK, At
<1>3. QED
  BY <1>1, <1>2 DEF AInv

LEMMA AInvNext == FInv /\ PInv /\ AInv /\ [Next]_vars => AInv'
<1> SUFFICES ASSUME FInv, PInv, AInv, [Next]_vars PROVE AInv'
  OBVIOUS
<1>1. CASE UNCHANGED vars
  BY <1>1, StandStillKept DEF vars
<1>2. ASSUME NEW h \in Handlers, Serve(h) PROVE AInv'
  BY <1>2, ServeKept
<1>3. ASSUME NEW h \in Handlers, NEW k \in Kinds, NEW f \in Files, NEW e \in {0, epoch},
             Accept(h, k, f, e)
      PROVE  AInv'
  BY <1>3, AcceptKept
<1>4. ASSUME NEW b \in Batches, Sweep(b) PROVE AInv'
  BY <1>4, SweepKept
<1>5. CASE Elsewhere
  BY <1>5, StandStillKept DEF Elsewhere
<1>6. ASSUME NEW power \in BOOLEAN, Restart(power) PROVE AInv'
  BY <1>6, RestartKept
<1>7. QED
  BY <1>1, <1>2, <1>3, <1>4, <1>5, <1>6 DEF Next

-----------------------------------------------------------------------------
(* Theorems.                                                               *)

\* What the handlers know and have told, as an inductive invariant of the
\* handlers, next to their places and permits (file_transfers.go, file_batches.go).
THEOREM AnswerInvariance == Spec => []AInv
<1>1. FInv /\ FInv' /\ PInv /\ AInv /\ [Next]_vars => PInv' /\ AInv'
  BY PInvNext, AInvNext
<1>2. Init => PInv /\ AInv
  BY PInvInit, AInvInit
<1>3. QED
  BY <1>1, <1>2, TransferInvariance, PTL DEF Spec

\* "ready" is said only of what was copied, "unavailable" only of a batch that
\* was not, and a batch without a record was never offered (copyTransfer): for
\* any requests that repeat, race each other, or outlive the host.
THEOREM TransferAnswersTruthful == Spec => []AnswersTruthful
<1>1. FInv /\ AInv => AnswersTruthful
  <2> SUFFICES ASSUME FInv, AInv PROVE AnswersTruthful
    OBVIOUS
  <2>1. ASSUME NEW f \in Files, "ready" \in told[f] PROVE f \in copied
    BY <2>1 DEF AInv, AnswerOK
  <2>2. ASSUME NEW b \in Batches
        PROVE  /\ "unavailable" \in told[b] => b \notin copied
               /\ record[b] = "none" => attempts[b] = 0
    BY DEF AInv, AnswerOK, FInv, TypeOK, FileOK, Files
  <2>3. QED
    BY <2>1, <2>2 DEF AnswersTruthful
<1>2. QED
  BY <1>1, TransferInvariance, AnswerInvariance, PTL

\* A "ready" stays readable until a power loss takes its record, the "ready" of
\* the copy itself even then; what was reported as stored is stored, and what was
\* reported as cancelled is not stored before it has expired.
THEOREM TransferAnswersLast == Spec => []AnswersLast
<1>1. FInv /\ AInv => AnswersLast
  <2> SUFFICES ASSUME FInv, AInv PROVE AnswersLast
    OBVIOUS
  <2>1. ASSUME NEW f \in Batches \cup Posts, "ready" \in told[f], f \notin undone
        PROVE  record[f] = "ready"
    BY <2>1, TransferAssumption DEF AInv, AnswerOK, Files
  <2>2. ASSUME NEW b \in Batches
        PROVE  /\ "prepared" \in told[b] => record[b] = "ready"
               /\ "cancelled" \in told[b] => phase[b] = "cancelled"
               /\ "stored" \in told[b] => phase[b] = "stored"
    BY DEF AInv, AnswerOK, FInv, TypeOK, Files
  <2>3. QED
    BY <2>1, <2>2 DEF AnswersLast
<1>2. QED
  BY <1>1, TransferInvariance, AnswerInvariance, PTL
=============================================================================
