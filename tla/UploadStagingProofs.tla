------------------------- MODULE UploadStagingProofs -------------------------
(* What UploadStaging promises about the bytes behind a write, for any      *)
(* number of slots, requests, calls, files and people, and any TTLs.        *)
EXTENDS UploadStaging, TLAPS


----------------------------------------------------------------------------
(* The inductive invariant.                                                 *)

\* Nothing is filled, in use or on its way in that was not minted; a slot a
\* write used is no longer there to be read.
SlotsAreMinted ==
    /\ \A s \in Slots : slot[s].live \/ slot[s].filled => slot[s].ref # None
    /\ \A u \in Puts : put[u] # None => slot[put[u]].ref # None
    /\ \A s \in Slots : backed[s] # 0 => backed[s] = 1 /\ ~slot[s].live /\ slot[s].ref # None

\* A call before its reading knows slots made for the files on its caller's disk;
\* after it, filled slots of its caller's, and their bytes, under the key of which it waits.
CallKnows(c) ==
    /\ call[c].phase = "idle" => \A r \in Refs : call[c].uses[r] # None => slot[call[c].uses[r]].ref = r
    /\ call[c].phase # "idle" =>
        \A r \in RefsOf[c] :
            /\ call[c].uses[r] \in Slots
            /\ LET s == slot[call[c].uses[r]]
               IN  s.filled /\ s.ref = r /\ s.owner = Caller[c] /\ s.content = call[c].data[r]
    /\ call[c].phase \in {"waiting", "done"} => call[c].key = KeyOf(c)
CallsKnow == \A c \in Calls : CallKnows(c)

\* The card behind every key showed the bytes of the key.
CardsShowTheirKey == \A a \in approvals : a.shown = a.key.data

Inv == UploadTypeOK /\ SlotsAreMinted /\ CallsKnow /\ CardsShowTheirKey

----------------------------------------------------------------------------
(* What any step does to slots: a minted slot keeps its name and owner, a   *)
(* filled one its bytes, and nothing comes back once it is gone.            *)
SlotStep ==
    \A s \in Slots :
        /\ slot[s].ref # None => slot'[s].ref = slot[s].ref /\ slot'[s].owner = slot[s].owner
        /\ slot[s].filled => slot'[s].filled /\ slot'[s].content = slot[s].content
        /\ slot'[s].live \/ slot'[s].filled => slot'[s].ref # None
        /\ slot'[s].live => slot[s].live \/ slot[s].ref = None

PutStep == \A u \in Puts : put'[u] = put[u] \/ put'[u] = None \/ (put'[u] \in Slots /\ slot[put'[u]].ref # None)
BackedStep ==
    \A s \in Slots :
        \/ backed'[s] = backed[s]
        \/ backed'[s] = backed[s] + 1 /\ slot[s].live /\ ~slot'[s].live

\* What it does to a call: nothing, ending its attempt, or moving it on under the key of its bytes.
CallStep(c) ==
    \/ call'[c] = call[c]
    \/ call'[c] = Fresh
    \/ /\ call[c].phase # "idle" /\ call'[c].phase # "idle"
       /\ call'[c].uses = call[c].uses /\ call'[c].data = call[c].data /\ call'[c].key = KeyOf(c)

LEMMA SweptIsTyped ==
    ASSUME UploadConstants, UploadTypeOK
    PROVE  /\ SweptSlots \in [Slots -> SlotRecords]
           /\ \A s \in Slots : /\ SweptSlots[s].ref = slot[s].ref /\ SweptSlots[s].owner = slot[s].owner
                               /\ SweptSlots[s].filled = slot[s].filled /\ SweptSlots[s].content = slot[s].content
                               /\ SweptSlots[s].expires = slot[s].expires
                               /\ SweptSlots[s].live => slot[s].live
<1>1. ASSUME NEW s \in Slots
      PROVE  SweptSlots[s] = IF s \in Expired THEN [slot[s] EXCEPT !.live = FALSE] ELSE slot[s]
      BY DEF SweptSlots
<1>2. ASSUME NEW s \in Slots PROVE slot[s] \in SlotRecords
      BY DEF UploadTypeOK
<1>3. ASSUME NEW s \in Slots PROVE SweptSlots[s] \in SlotRecords
      BY <1>1, <1>2 DEF SlotRecords
<1>4. SweptSlots \in [Slots -> SlotRecords]
      BY <1>3 DEF SweptSlots
<1> QED BY <1>1, <1>2, <1>4 DEF SlotRecords

LEMMA HeldIsTyped ==
    ASSUME UploadConstants, UploadTypeOK, NEW S
    PROVE  /\ HeldFor(S) \in [Slots -> SlotRecords]
           /\ \A s \in Slots : /\ HeldFor(S)[s].ref = slot[s].ref /\ HeldFor(S)[s].owner = slot[s].owner
                               /\ HeldFor(S)[s].filled = slot[s].filled /\ HeldFor(S)[s].content = slot[s].content
                               /\ HeldFor(S)[s].live = SweptSlots[s].live
                               /\ HeldFor(S)[s].expires >= slot[s].expires
                               /\ s \in S => HeldFor(S)[s].expires >= now + Hold
<1>1. ASSUME NEW s \in Slots
      PROVE  HeldFor(S)[s] = IF s \in S THEN [SweptSlots[s] EXCEPT !.expires = Longer(SweptSlots[s].expires, now + Hold)]
                             ELSE SweptSlots[s]
      BY DEF HeldFor, HeldUntil
<1>2. ASSUME NEW s \in Slots PROVE SweptSlots[s] \in SlotRecords
      BY SweptIsTyped
<1>3. ASSUME NEW s \in Slots
      PROVE  LET later == Longer(SweptSlots[s].expires, now + Hold)
             IN  /\ later \in 0 .. LastTick + SlotTTL + Hold
                 /\ later >= SweptSlots[s].expires /\ later >= now + Hold
      BY <1>2 DEF Longer, UploadConstants, UploadTypeOK, Hold, SlotRecords
<1>4. ASSUME NEW s \in Slots PROVE HeldFor(S)[s] \in SlotRecords
      BY <1>1, <1>2, <1>3 DEF SlotRecords
<1>5. HeldFor(S) \in [Slots -> SlotRecords]
      BY <1>4 DEF HeldFor, HeldUntil
<1>6. ASSUME NEW s \in Slots PROVE SweptSlots[s].expires \in Int
      BY <1>2, SMT DEF SlotRecords, UploadConstants, Hold
<1> QED BY <1>1, <1>2, <1>3, <1>5, <1>6, SweptIsTyped DEF SlotRecords

LEMMA ConsumedIsTyped ==
    ASSUME UploadConstants, UploadTypeOK, NEW S
    PROVE  /\ Consumed(S) \in [Slots -> SlotRecords]
           /\ \A s \in Slots : /\ Consumed(S)[s].ref = slot[s].ref /\ Consumed(S)[s].owner = slot[s].owner
                               /\ Consumed(S)[s].filled = slot[s].filled /\ Consumed(S)[s].content = slot[s].content
                               /\ Consumed(S)[s].expires = slot[s].expires
                               /\ Consumed(S)[s].live => SweptSlots[s].live /\ s \notin S
                               /\ SweptSlots[s].live /\ s \notin S => Consumed(S)[s].live
<1>1. ASSUME NEW s \in Slots
      PROVE  Consumed(S)[s] = IF s \in S THEN [SweptSlots[s] EXCEPT !.live = FALSE] ELSE SweptSlots[s]
      BY DEF Consumed
<1>2. ASSUME NEW s \in Slots PROVE SweptSlots[s] \in SlotRecords
      BY SweptIsTyped
<1>3. ASSUME NEW s \in Slots PROVE Consumed(S)[s] \in SlotRecords
      BY <1>1, <1>2 DEF SlotRecords
<1>4. Consumed(S) \in [Slots -> SlotRecords]
      BY <1>3 DEF Consumed
<1> QED BY <1>1, <1>2, <1>4, SweptIsTyped DEF SlotRecords

LEMMA FreshIsTyped ==
    ASSUME UploadConstants
    PROVE  Fresh \in CallRecords /\ \A r \in Refs : Fresh.uses[r] = None
BY DEF UploadConstants, Fresh, CallRecords, Read

LEMMA NewSlotIsTyped ==
    ASSUME UploadConstants, UploadTypeOK, NEW r \in Refs, NEW p \in Owners
    PROVE  NewSlot(r, p) \in SlotRecords
BY DEF UploadConstants, UploadTypeOK, NewSlot, SlotRecords, Hold

LEMMA KeyIsTyped ==
    ASSUME UploadConstants, UploadTypeOK, NEW c \in Calls
    PROVE  KeyOf(c) \in Keys
BY DEF UploadConstants, UploadTypeOK, KeyOf, Keys, CallRecords

LEMMA GivenIsTyped ==
    ASSUME UploadConstants, UploadTypeOK, NEW c \in Calls, NEW r \in RefsOf[c]
    PROVE  Given(c, r) \in Slots \union {None} /\ (r \notin Paths /\ Given(c, r) # None => slot[Given(c, r)].ref = r)
<1>1. r \in Refs /\ call[c].uses[r] \in Slots \union {None}
      BY DEF UploadConstants, UploadTypeOK, CallRecords
<1> QED BY <1>1 DEF Given, Made

\* Slots once made stay made, and used ones used.
LEMMA SlotStepKeeps ==
    ASSUME Inv, SlotStep, PutStep, BackedStep
    PROVE  SlotsAreMinted'
<1>1. \A u \in Puts : put[u] \in Slots \union {None}
      BY DEF Inv, UploadTypeOK
<1>2. \A u \in Puts : put'[u] # None => slot'[put'[u]].ref # None
      BY <1>1 DEF Inv, SlotsAreMinted, SlotStep, PutStep
<1>3. \A s \in Slots : backed'[s] # 0 => backed'[s] = 1 /\ ~slot'[s].live /\ slot'[s].ref # None
      BY DEF Inv, SlotsAreMinted, SlotStep, BackedStep
<1>4. \A s \in Slots : slot'[s].live \/ slot'[s].filled => slot'[s].ref # None
      BY DEF SlotStep
<1> QED BY <1>2, <1>3, <1>4 DEF SlotsAreMinted

\* A call that takes a usual step goes on knowing what it has to.
LEMMA CallStepKeeps ==
    ASSUME UploadConstants, Inv, SlotStep, NEW c \in Calls, CallStep(c)
    PROVE  CallKnows(c)'
<1> USE DEF UploadConstants
<1>0. /\ call[c] \in CallRecords /\ Fresh \in CallRecords /\ Fresh.phase = "idle"
      /\ \A r \in Refs : Fresh.uses[r] = None
      /\ CallKnows(c) /\ RefsOf[c] \subseteq Refs
      BY FreshIsTyped DEF Inv, UploadTypeOK, Fresh, CallsKnow
<1>1. CASE call'[c] = call[c]
  <2>1. \A r \in Refs : call[c].uses[r] # None => call[c].uses[r] \in Slots
        BY <1>0 DEF CallRecords
  <2>2. KeyOf(c)' = KeyOf(c)
        BY <1>1 DEF KeyOf
  <2> QED BY <1>0, <1>1, <2>1, <2>2 DEF Inv, CallKnows, SlotStep, SlotsAreMinted
<1>2. CASE call'[c] = Fresh
  BY <1>0, <1>2 DEF CallKnows
<1>3. CASE /\ call[c].phase # "idle" /\ call'[c].phase # "idle"
           /\ call'[c].uses = call[c].uses /\ call'[c].data = call[c].data /\ call'[c].key = KeyOf(c)
  <2>2. KeyOf(c)' = KeyOf(c)
        BY <1>3 DEF KeyOf
  <2> QED BY <1>0, <1>3, <2>2 DEF Inv, CallKnows, SlotStep, SlotsAreMinted
<1> QED BY <1>1, <1>2, <1>3 DEF CallStep

\* Every action, one component of the state and one part of the invariant at a time.
LEMMA StepKeepsInv ==
    ASSUME UploadConstants, Inv, UploadNext
    PROVE  Inv'
<1> USE DEF UploadConstants
<1>0. UploadTypeOK
      BY DEF Inv
<1>1. ASSUME NEW s \in Slots, NEW r \in Refs, NEW p \in Owners, CreateSlot(s, r, p) PROVE Inv'
  <2>1. slot' \in [Slots -> SlotRecords]
        BY SweptIsTyped, NewSlotIsTyped, <1>0, <1>1 DEF CreateSlot, NewSlot, Made, Unminted, UploadTypeOK
  <2>2. call' \in [Calls -> CallRecords]
        BY SweptIsTyped, NewSlotIsTyped, <1>0, <1>1 DEF CreateSlot, NewSlot, Made, Unminted, UploadTypeOK, CallRecords
  <2>3. approvals' \subseteq Approvals
        BY <1>0, <1>1 DEF CreateSlot, NewSlot, Made, Unminted, UploadTypeOK, Approvals
  <2>4. UploadTypeOK'
        BY <2>1, <2>2, <2>3, <1>0, <1>1 DEF CreateSlot, NewSlot, Made, Unminted, UploadTypeOK, SweptFiles, Expired
  <2>5. SlotStep
        BY SweptIsTyped, NewSlotIsTyped, <1>0, <1>1 DEF Inv, CreateSlot, NewSlot, Made, Unminted, SlotStep, UploadTypeOK, SlotRecords, SlotsAreMinted
  <2>6. PutStep /\ BackedStep
        BY <1>0, <1>1 DEF CreateSlot, PutStep, BackedStep, UploadTypeOK
  <2>7. CardsShowTheirKey'
        BY <1>1 DEF Inv, CreateSlot, NewSlot, Made, Unminted, CardsShowTheirKey
  <2>8. SlotsAreMinted'
        BY <2>5, <2>6, SlotStepKeeps
  <2>9. CallsKnow'
        BY <2>5, CallStepKeeps, <1>0, <1>1 DEF CreateSlot, NewSlot, Made, Unminted, UploadTypeOK, CallStep, CallsKnow
  <2> QED BY <2>4, <2>7, <2>8, <2>9 DEF Inv
<1>2. ASSUME NEW u \in Puts, NEW s \in Slots, BeginPut(u, s) PROVE Inv'
  <2>1. slot' \in [Slots -> SlotRecords]
        BY SweptIsTyped, NewSlotIsTyped, <1>0, <1>2 DEF BeginPut, UploadTypeOK
  <2>2. call' \in [Calls -> CallRecords]
        BY SweptIsTyped, NewSlotIsTyped, <1>0, <1>2 DEF BeginPut, UploadTypeOK, CallRecords
  <2>3. approvals' \subseteq Approvals
        BY <1>0, <1>2 DEF BeginPut, UploadTypeOK, Approvals
  <2>4. UploadTypeOK'
        BY <2>1, <2>2, <2>3, <1>0, <1>2 DEF BeginPut, UploadTypeOK, SweptFiles, Expired
  <2>5. SlotStep
        BY SweptIsTyped, NewSlotIsTyped, <1>0, <1>2 DEF Inv, BeginPut, SlotStep, UploadTypeOK, SlotRecords, SlotsAreMinted
  <2>6. PutStep /\ BackedStep
        BY SweptIsTyped, <1>0, <1>2 DEF BeginPut, PutStep, BackedStep, UploadTypeOK, Inv, SlotsAreMinted, SweptSlots, Expired
  <2>7. CardsShowTheirKey'
        BY <1>2 DEF Inv, BeginPut, CardsShowTheirKey
  <2>8. SlotsAreMinted'
        BY <2>5, <2>6, SlotStepKeeps
  <2>9. CallsKnow'
        BY <2>5, CallStepKeeps, <1>0, <1>2 DEF BeginPut, UploadTypeOK, CallStep, CallsKnow
  <2> QED BY <2>4, <2>7, <2>8, <2>9 DEF Inv
<1>3. ASSUME NEW u \in Puts, AbandonPut(u) PROVE Inv'
  <2>1. slot' \in [Slots -> SlotRecords]
        BY <1>0, <1>3 DEF AbandonPut, UploadTypeOK
  <2>2. call' \in [Calls -> CallRecords]
        BY <1>0, <1>3 DEF AbandonPut, UploadTypeOK, CallRecords
  <2>3. approvals' \subseteq Approvals
        BY <1>0, <1>3 DEF AbandonPut, UploadTypeOK, Approvals
  <2>4. UploadTypeOK'
        BY <2>1, <2>2, <2>3, <1>0, <1>3 DEF AbandonPut, UploadTypeOK, SweptFiles, Expired
  <2>5. SlotStep
        BY <1>0, <1>3 DEF Inv, AbandonPut, SlotStep, UploadTypeOK, SlotRecords, SlotsAreMinted
  <2>6. PutStep /\ BackedStep
        BY <1>0, <1>3 DEF AbandonPut, PutStep, BackedStep, UploadTypeOK
  <2>7. CardsShowTheirKey'
        BY <1>3 DEF Inv, AbandonPut, CardsShowTheirKey
  <2>8. SlotsAreMinted'
        BY <2>5, <2>6, SlotStepKeeps
  <2>9. CallsKnow'
        BY <2>5, CallStepKeeps, <1>0, <1>3 DEF AbandonPut, UploadTypeOK, CallStep, CallsKnow
  <2> QED BY <2>4, <2>7, <2>8, <2>9 DEF Inv
<1>4. ASSUME NEW u \in Puts, FailPut(u) PROVE Inv'
  <2>1. slot' \in [Slots -> SlotRecords]
        BY <1>0, <1>4 DEF FailPut, UploadTypeOK
  <2>2. call' \in [Calls -> CallRecords]
        BY <1>0, <1>4 DEF FailPut, UploadTypeOK, CallRecords
  <2>3. approvals' \subseteq Approvals
        BY <1>0, <1>4 DEF FailPut, UploadTypeOK, Approvals
  <2>4. UploadTypeOK'
        BY <2>1, <2>2, <2>3, <1>0, <1>4 DEF FailPut, UploadTypeOK, SweptFiles, Expired
  <2>5. SlotStep
        BY <1>0, <1>4 DEF Inv, FailPut, SlotStep, UploadTypeOK, SlotRecords, SlotsAreMinted
  <2>6. PutStep /\ BackedStep
        BY <1>0, <1>4 DEF FailPut, PutStep, BackedStep, UploadTypeOK
  <2>7. CardsShowTheirKey'
        BY <1>4 DEF Inv, FailPut, CardsShowTheirKey
  <2>8. SlotsAreMinted'
        BY <2>5, <2>6, SlotStepKeeps
  <2>9. CallsKnow'
        BY <2>5, CallStepKeeps, <1>0, <1>4 DEF FailPut, UploadTypeOK, CallStep, CallsKnow
  <2> QED BY <2>4, <2>7, <2>8, <2>9 DEF Inv
<1>5. ASSUME NEW u \in Puts, NEW v \in Contents, FinishPut(u, v) PROVE Inv'
  <2>1. slot' \in [Slots -> SlotRecords]
    <3>1. put[u] \in Slots /\ slot[put[u]] \in SlotRecords
          BY <1>0, <1>5 DEF FinishPut, UploadTypeOK
    <3>2. [slot[put[u]] EXCEPT !.filled = TRUE, !.content = v] \in SlotRecords
          BY <3>1 DEF SlotRecords
    <3>3. slot' = [slot EXCEPT ![put[u]] = [slot[put[u]] EXCEPT !.filled = TRUE, !.content = v]]
          BY <3>1, <1>0, <1>5 DEF FinishPut, UploadTypeOK
    <3> QED BY <3>1, <3>2, <3>3, <1>0 DEF UploadTypeOK
  <2>2. call' \in [Calls -> CallRecords]
        BY <1>0, <1>5 DEF FinishPut, UploadTypeOK, CallRecords
  <2>3. approvals' \subseteq Approvals
        BY <1>0, <1>5 DEF FinishPut, UploadTypeOK, Approvals
  <2>4. UploadTypeOK'
        BY <2>1, <2>2, <2>3, <1>0, <1>5 DEF FinishPut, UploadTypeOK, SweptFiles, Expired
  <2>5. SlotStep
        BY <1>0, <1>5 DEF Inv, FinishPut, SlotStep, UploadTypeOK, SlotRecords, SlotsAreMinted
  <2>6. PutStep /\ BackedStep
        BY <1>0, <1>5 DEF FinishPut, PutStep, BackedStep, UploadTypeOK
  <2>7. CardsShowTheirKey'
        BY <1>5 DEF Inv, FinishPut, CardsShowTheirKey
  <2>8. SlotsAreMinted'
        BY <2>5, <2>6, SlotStepKeeps
  <2>9. CallsKnow'
        BY <2>5, CallStepKeeps, <1>0, <1>5 DEF FinishPut, UploadTypeOK, CallStep, CallsKnow
  <2> QED BY <2>4, <2>7, <2>8, <2>9 DEF Inv
<1>6. ASSUME NEW c \in Calls, NEW r \in Refs, NEW s \in Slots, NeedUpload(c, r, s) PROVE Inv'
  <2>1. slot' \in [Slots -> SlotRecords]
        BY SweptIsTyped, HeldIsTyped, FreshIsTyped, NewSlotIsTyped, <1>0, <1>6 DEF NeedUpload, NewSlot, Unminted, UploadTypeOK
  <2>2. call' \in [Calls -> CallRecords]
    <3>1. call[c] \in CallRecords
          BY <1>0 DEF UploadTypeOK
    <3>2. [call[c] EXCEPT !.uses[r] = s] \in CallRecords
          BY <3>1 DEF CallRecords
    <3> QED BY <3>1, <3>2, <1>0, <1>6 DEF NeedUpload, UploadTypeOK
  <2>3. approvals' \subseteq Approvals
        BY <1>0, <1>6 DEF NeedUpload, NewSlot, Unminted, UploadTypeOK, Approvals
  <2>4. UploadTypeOK'
        BY <2>1, <2>2, <2>3, <1>0, <1>6 DEF NeedUpload, NewSlot, Unminted, UploadTypeOK, SweptFiles, Expired
  <2>5. SlotStep
        BY SweptIsTyped, HeldIsTyped, FreshIsTyped, NewSlotIsTyped, <1>0, <1>6 DEF Inv, NeedUpload, NewSlot, Unminted, SlotStep, UploadTypeOK, SlotRecords, SlotsAreMinted
  <2>6. PutStep /\ BackedStep
        BY <1>0, <1>6 DEF NeedUpload, PutStep, BackedStep, UploadTypeOK
  <2>7. CardsShowTheirKey'
        BY <1>6 DEF Inv, NeedUpload, NewSlot, Unminted, CardsShowTheirKey
  <2>8. SlotsAreMinted'
        BY <2>5, <2>6, SlotStepKeeps
  <2>9. CallsKnow'
    <3>1. call[c] \in CallRecords /\ call[c].phase = "idle" /\ CallKnows(c)
          BY <1>0, <1>6 DEF NeedUpload, UploadTypeOK, Inv, CallsKnow
    <3>2. call'[c] = [call[c] EXCEPT !.uses[r] = s] /\ \A d \in Calls \ {c} : call'[d] = call[d]
          BY <1>0, <1>6 DEF NeedUpload, UploadTypeOK
    <3>3. /\ call'[c].phase = "idle" /\ call'[c].uses[r] = s
          /\ \A q \in Refs \ {r} : call'[c].uses[q] = call[c].uses[q]
          BY <3>1, <3>2 DEF CallRecords
    <3>4. slot'[s].ref = r
          BY HeldIsTyped, <1>0, <1>6 DEF NeedUpload, NewSlot
    <3>5. \A q \in Refs : call[c].uses[q] # None => call[c].uses[q] \in Slots
          BY <3>1 DEF CallRecords
    <3>6. CallKnows(c)'
          BY <3>1, <3>3, <3>4, <3>5, <2>5 DEF CallKnows, SlotStep, Inv, SlotsAreMinted
    <3>7. \A d \in Calls \ {c} : CallKnows(d)'
          BY <3>2, <2>5, CallStepKeeps DEF CallStep
    <3> QED BY <3>6, <3>7 DEF CallsKnow
  <2> QED BY <2>4, <2>7, <2>8, <2>9 DEF Inv
<1>7. ASSUME NEW c \in Calls, ReadUploads(c) PROVE Inv'
  <2>1. slot' \in [Slots -> SlotRecords]
        BY SweptIsTyped, HeldIsTyped, FreshIsTyped, NewSlotIsTyped, <1>0, <1>7 DEF ReadUploads, UploadTypeOK
  <2>2. call' \in [Calls -> CallRecords]
    <3>1. call[c] \in CallRecords
          BY <1>0 DEF UploadTypeOK
    <3>2. \A r \in RefsOf[c] : Given(c, r) \in Slots /\ slot[Given(c, r)] \in SlotRecords
          BY <1>0, <1>7, GivenIsTyped DEF ReadUploads, Asked, Readable, UploadTypeOK
    <3>3. /\ [r \in Refs |-> IF r \in RefsOf[c] THEN Given(c, r) ELSE None] \in [Refs -> Slots \union {None}]
          /\ [r \in Refs |-> IF r \in RefsOf[c] THEN slot[Given(c, r)].content ELSE None] \in Read
          BY <3>2 DEF Read, SlotRecords
    <3>4. call'[c] \in CallRecords /\ \A d \in Calls \ {c} : call'[d] = call[d]
          BY <3>1, <3>3, <1>0, <1>7 DEF ReadUploads, UploadTypeOK, CallRecords
    <3> QED BY <3>4, <1>0, <1>7 DEF ReadUploads, UploadTypeOK
  <2>3. approvals' \subseteq Approvals
        BY <1>0, <1>7 DEF ReadUploads, UploadTypeOK, Approvals
  <2>4. UploadTypeOK'
        BY <2>1, <2>2, <2>3, <1>0, <1>7 DEF ReadUploads, UploadTypeOK, SweptFiles, Expired
  <2>5. SlotStep
        BY SweptIsTyped, HeldIsTyped, FreshIsTyped, NewSlotIsTyped, <1>0, <1>7 DEF Inv, ReadUploads, SlotStep, UploadTypeOK, SlotRecords, SlotsAreMinted
  <2>6. PutStep /\ BackedStep
        BY <1>0, <1>7 DEF ReadUploads, PutStep, BackedStep, UploadTypeOK
  <2>7. CardsShowTheirKey'
        BY <1>7 DEF Inv, ReadUploads, CardsShowTheirKey
  <2>8. SlotsAreMinted'
        BY <2>5, <2>6, SlotStepKeeps
  <2>9. CallsKnow'
    <3>1. call[c] \in CallRecords /\ call[c].phase = "idle" /\ CallKnows(c)
          BY <1>0, <1>7 DEF ReadUploads, UploadTypeOK, Inv, CallsKnow
    <3>2. /\ call'[c].phase = "read"
          /\ call'[c].uses = [r \in Refs |-> IF r \in RefsOf[c] THEN Given(c, r) ELSE None]
          /\ call'[c].data = [r \in Refs |-> IF r \in RefsOf[c] THEN slot[Given(c, r)].content ELSE None]
          /\ \A d \in Calls \ {c} : call'[d] = call[d]
          BY <3>1, <1>0, <1>7 DEF ReadUploads, UploadTypeOK, CallRecords
    <3>3. ASSUME NEW r \in RefsOf[c]
          PROVE  /\ Given(c, r) \in Slots /\ slot[Given(c, r)].filled /\ slot[Given(c, r)].owner = Caller[c]
                 /\ slot[Given(c, r)].ref = r
      <4>1. Given(c, r) # None /\ slot[Given(c, r)].filled /\ slot[Given(c, r)].owner = Caller[c]
            BY <1>7 DEF ReadUploads, Asked, Readable
      <4>2. r \in Refs
            OBVIOUS
      <4>3. r \in Paths => slot[Given(c, r)].ref = r
            BY <3>1, <4>1, <4>2 DEF CallKnows, Given
      <4> QED BY <4>1, <4>3, GivenIsTyped, <1>0
    <3>4. CallKnows(c)'
          BY <3>2, <3>3, <2>5 DEF CallKnows, SlotStep, Inv, SlotsAreMinted
    <3>7. \A d \in Calls \ {c} : CallKnows(d)'
          BY <3>2, <2>5, CallStepKeeps DEF CallStep
    <3> QED BY <3>4, <3>7 DEF CallsKnow
  <2> QED BY <2>4, <2>7, <2>8, <2>9 DEF Inv
<1>8. ASSUME NEW c \in Calls, ReadFails(c) PROVE Inv'
  <2>1. slot' \in [Slots -> SlotRecords]
        BY SweptIsTyped, HeldIsTyped, FreshIsTyped, NewSlotIsTyped, <1>0, <1>8 DEF ReadFails, Over, UploadTypeOK
  <2>2. call' \in [Calls -> CallRecords]
        BY SweptIsTyped, HeldIsTyped, FreshIsTyped, NewSlotIsTyped, <1>0, <1>8 DEF ReadFails, Over, UploadTypeOK, CallRecords
  <2>3. approvals' \subseteq Approvals
        BY <1>0, <1>8 DEF ReadFails, Over, UploadTypeOK, Approvals
  <2>4. UploadTypeOK'
        BY <2>1, <2>2, <2>3, <1>0, <1>8 DEF ReadFails, Over, UploadTypeOK, SweptFiles, Expired
  <2>5. SlotStep
        BY SweptIsTyped, HeldIsTyped, FreshIsTyped, NewSlotIsTyped, <1>0, <1>8 DEF Inv, ReadFails, Over, SlotStep, UploadTypeOK, SlotRecords, SlotsAreMinted
  <2>6. PutStep /\ BackedStep
        BY <1>0, <1>8 DEF ReadFails, PutStep, BackedStep, UploadTypeOK
  <2>7. CardsShowTheirKey'
        BY <1>8 DEF Inv, ReadFails, Over, CardsShowTheirKey
  <2>8. SlotsAreMinted'
        BY <2>5, <2>6, SlotStepKeeps
  <2>9. CallsKnow'
        BY <2>5, CallStepKeeps, <1>0, <1>8 DEF ReadFails, Over, UploadTypeOK, CallStep, CallsKnow
  <2> QED BY <2>4, <2>7, <2>8, <2>9 DEF Inv
<1>9. ASSUME NEW c \in Calls, EnterGate(c) PROVE Inv'
  <2>1. slot' \in [Slots -> SlotRecords]
        BY KeyIsTyped, <1>0, <1>9 DEF EnterGate, UploadTypeOK
  <2>2. call' \in [Calls -> CallRecords]
    <3>1. call[c] \in CallRecords /\ KeyOf(c) \in Keys
          BY <1>0, KeyIsTyped DEF UploadTypeOK
    <3>2. [call[c] EXCEPT !.phase = "waiting", !.key = KeyOf(c)] \in CallRecords
          BY <3>1 DEF CallRecords
    <3> QED BY <3>1, <3>2, <1>0, <1>9 DEF EnterGate, UploadTypeOK
  <2>3. approvals' \subseteq Approvals
    <3>1. call[c].data \in Read /\ KeyOf(c) \in Keys
          BY <1>0, KeyIsTyped DEF UploadTypeOK, CallRecords
    <3>2. [key |-> KeyOf(c), shown |-> call[c].data, since |-> now, granted |-> 0] \in Approvals
          BY <3>1, <1>0 DEF UploadTypeOK, Approvals
    <3> QED BY <3>2, <1>0, <1>9 DEF EnterGate, UploadTypeOK, Of
  <2>4. UploadTypeOK'
        BY <2>1, <2>2, <2>3, <1>0, <1>9 DEF EnterGate, UploadTypeOK, SweptFiles, Expired
  <2>5. SlotStep
        BY KeyIsTyped, <1>0, <1>9 DEF Inv, EnterGate, SlotStep, UploadTypeOK, SlotRecords, SlotsAreMinted
  <2>6. PutStep /\ BackedStep
        BY <1>0, <1>9 DEF EnterGate, PutStep, BackedStep, UploadTypeOK
  <2>7. CardsShowTheirKey'
    <3>1. KeyOf(c).data = call[c].data
          BY DEF KeyOf
    <3> QED BY <3>1, <1>9 DEF EnterGate, Inv, CardsShowTheirKey, Of
  <2>8. SlotsAreMinted'
        BY <2>5, <2>6, SlotStepKeeps
  <2>9. CallsKnow'
    <3>1. call[c] \in CallRecords
          BY <1>0 DEF UploadTypeOK
    <3>2. CallStep(c) /\ \A d \in Calls \ {c} : call'[d] = call[d]
          BY <3>1, <1>0, <1>9 DEF EnterGate, UploadTypeOK, CallStep, CallRecords
    <3> QED BY <3>2, <2>5, CallStepKeeps DEF CallStep, CallsKnow
  <2> QED BY <2>4, <2>7, <2>8, <2>9 DEF Inv
<1>10. ASSUME NEW c \in Calls, LeaveGate(c) PROVE Inv'
  <2>1. slot' \in [Slots -> SlotRecords]
        BY FreshIsTyped, <1>0, <1>10 DEF LeaveGate, Over, UploadTypeOK
  <2>2. call' \in [Calls -> CallRecords]
        BY FreshIsTyped, <1>0, <1>10 DEF LeaveGate, Over, UploadTypeOK, CallRecords
  <2>3. approvals' \subseteq Approvals
        BY <1>0, <1>10 DEF LeaveGate, Over, UploadTypeOK, Approvals
  <2>4. UploadTypeOK'
        BY <2>1, <2>2, <2>3, <1>0, <1>10 DEF LeaveGate, Over, UploadTypeOK, SweptFiles, Expired
  <2>5. SlotStep
        BY FreshIsTyped, <1>0, <1>10 DEF Inv, LeaveGate, Over, SlotStep, UploadTypeOK, SlotRecords, SlotsAreMinted
  <2>6. PutStep /\ BackedStep
        BY <1>0, <1>10 DEF LeaveGate, PutStep, BackedStep, UploadTypeOK
  <2>7. CardsShowTheirKey'
        BY <1>10 DEF Inv, LeaveGate, Over, CardsShowTheirKey
  <2>8. SlotsAreMinted'
        BY <2>5, <2>6, SlotStepKeeps
  <2>9. CallsKnow'
        BY <2>5, CallStepKeeps, <1>0, <1>10 DEF LeaveGate, Over, UploadTypeOK, CallStep, CallsKnow
  <2> QED BY <2>4, <2>7, <2>8, <2>9 DEF Inv
<1>11. ASSUME NEW c \in Calls, NEW a \in approvals, CommitAndWrite(c, a) PROVE Inv'
  <2>1. slot' \in [Slots -> SlotRecords]
        BY SweptIsTyped, ConsumedIsTyped, FreshIsTyped, <1>0, <1>11 DEF CommitAndWrite, Takes, UploadTypeOK
  <2>2. call' \in [Calls -> CallRecords]
    <3>1. call[c] \in CallRecords
          BY <1>0 DEF UploadTypeOK
    <3>2. [call[c] EXCEPT !.phase = "done"] \in CallRecords
          BY <3>1 DEF CallRecords
    <3> QED BY <3>1, <3>2, <1>0, <1>11 DEF CommitAndWrite, UploadTypeOK
  <2>3. approvals' \subseteq Approvals
        BY <1>0, <1>11 DEF CommitAndWrite, Takes, UploadTypeOK, Approvals
  <2>4. UploadTypeOK'
        BY <2>1, <2>2, <2>3, <1>0, <1>11 DEF CommitAndWrite, Takes, UploadTypeOK, SweptFiles, Expired
  <2>5. SlotStep
        BY SweptIsTyped, ConsumedIsTyped, FreshIsTyped, <1>0, <1>11 DEF Inv, CommitAndWrite, Takes, SlotStep, UploadTypeOK, SlotRecords, SlotsAreMinted
  <2>6. PutStep /\ BackedStep
        BY SweptIsTyped, ConsumedIsTyped, <1>0, <1>11 DEF CommitAndWrite, Takes, PutStep, BackedStep, UploadTypeOK, Inv, Committable, Readable
  <2>7. CardsShowTheirKey'
        BY <1>11 DEF Inv, CommitAndWrite, Takes, CardsShowTheirKey
  <2>8. SlotsAreMinted'
        BY <2>5, <2>6, SlotStepKeeps
  <2>9. CallsKnow'
    <3>1. call[c] \in CallRecords /\ call[c].key = KeyOf(c)
          BY <1>0, <1>11 DEF CommitAndWrite, Takes, UploadTypeOK, Inv, CallsKnow, CallKnows
    <3>2. CallStep(c) /\ \A d \in Calls \ {c} : call'[d] = call[d]
          BY <3>1, <1>0, <1>11 DEF CommitAndWrite, Takes, UploadTypeOK, CallStep, CallRecords
    <3> QED BY <3>2, <2>5, CallStepKeeps DEF CallStep, CallsKnow
  <2> QED BY <2>4, <2>7, <2>8, <2>9 DEF Inv
<1>12. ASSUME NEW c \in Calls, NEW a \in approvals, CommitFails(c, a) PROVE Inv'
  <2>1. slot' \in [Slots -> SlotRecords]
        BY SweptIsTyped, ConsumedIsTyped, FreshIsTyped, <1>0, <1>12 DEF CommitFails, Takes, Over, UploadTypeOK
  <2>2. call' \in [Calls -> CallRecords]
        BY SweptIsTyped, ConsumedIsTyped, FreshIsTyped, <1>0, <1>12 DEF CommitFails, Takes, Over, UploadTypeOK, CallRecords
  <2>3. approvals' \subseteq Approvals
        BY <1>0, <1>12 DEF CommitFails, Takes, Over, UploadTypeOK, Approvals
  <2>4. UploadTypeOK'
    <3>1. \A r \in RefsOf[c] : call[c].uses[r] \in Slots \union {None}
          BY <1>0 DEF UploadTypeOK, CallRecords
    <3>2. wasted' \subseteq Slots
          BY <3>1, <1>0, <1>12 DEF CommitFails, UploadTypeOK, Uses, Readable
    <3> QED BY <2>1, <2>2, <2>3, <3>2, <1>0, <1>12 DEF CommitFails, UploadTypeOK, SweptFiles, Expired
  <2>5. SlotStep
        BY SweptIsTyped, ConsumedIsTyped, FreshIsTyped, <1>0, <1>12 DEF Inv, CommitFails, Takes, Over, SlotStep, UploadTypeOK, SlotRecords, SlotsAreMinted
  <2>6. PutStep /\ BackedStep
        BY <1>0, <1>12 DEF CommitFails, Takes, PutStep, BackedStep, UploadTypeOK
  <2>7. CardsShowTheirKey'
        BY <1>12 DEF Inv, CommitFails, Takes, Over, CardsShowTheirKey
  <2>8. SlotsAreMinted'
        BY <2>5, <2>6, SlotStepKeeps
  <2>9. CallsKnow'
        BY <2>5, CallStepKeeps, <1>0, <1>12 DEF CommitFails, Takes, Over, UploadTypeOK, CallStep, CallsKnow
  <2> QED BY <2>4, <2>7, <2>8, <2>9 DEF Inv
<1>13. ASSUME NEW a \in approvals, Allow(a) PROVE Inv'
  <2>1. slot' \in [Slots -> SlotRecords]
        BY <1>0, <1>13 DEF Allow, UploadTypeOK
  <2>2. call' \in [Calls -> CallRecords]
        BY <1>0, <1>13 DEF Allow, UploadTypeOK, CallRecords
  <2>3. approvals' \subseteq Approvals
        BY <1>0, <1>13 DEF Allow, UploadTypeOK, Approvals
  <2>4. UploadTypeOK'
        BY <2>1, <2>2, <2>3, <1>0, <1>13 DEF Allow, UploadTypeOK, SweptFiles, Expired
  <2>5. SlotStep
        BY <1>0, <1>13 DEF Inv, Allow, SlotStep, UploadTypeOK, SlotRecords, SlotsAreMinted
  <2>6. PutStep /\ BackedStep
        BY <1>0, <1>13 DEF Allow, PutStep, BackedStep, UploadTypeOK
  <2>7. CardsShowTheirKey'
    <3>1. a \in Approvals
          BY <1>0 DEF UploadTypeOK
    <3>2. [a EXCEPT !.granted = now].shown = a.shown /\ [a EXCEPT !.granted = now].key = a.key
          BY <3>1 DEF Approvals
    <3> QED BY <3>2, <1>13 DEF Allow, Inv, CardsShowTheirKey
  <2>8. SlotsAreMinted'
        BY <2>5, <2>6, SlotStepKeeps
  <2>9. CallsKnow'
        BY <2>5, CallStepKeeps, <1>0, <1>13 DEF Allow, UploadTypeOK, CallStep, CallsKnow
  <2> QED BY <2>4, <2>7, <2>8, <2>9 DEF Inv
<1>14. ASSUME NEW a \in approvals, Deny(a) PROVE Inv'
  <2>1. slot' \in [Slots -> SlotRecords]
        BY <1>0, <1>14 DEF Deny, UploadTypeOK
  <2>2. call' \in [Calls -> CallRecords]
        BY <1>0, <1>14 DEF Deny, UploadTypeOK, CallRecords
  <2>3. approvals' \subseteq Approvals
        BY <1>0, <1>14 DEF Deny, UploadTypeOK, Approvals
  <2>4. UploadTypeOK'
        BY <2>1, <2>2, <2>3, <1>0, <1>14 DEF Deny, UploadTypeOK, SweptFiles, Expired
  <2>5. SlotStep
        BY <1>0, <1>14 DEF Inv, Deny, SlotStep, UploadTypeOK, SlotRecords, SlotsAreMinted
  <2>6. PutStep /\ BackedStep
        BY <1>0, <1>14 DEF Deny, PutStep, BackedStep, UploadTypeOK
  <2>7. CardsShowTheirKey'
        BY <1>14 DEF Inv, Deny, CardsShowTheirKey
  <2>8. SlotsAreMinted'
        BY <2>5, <2>6, SlotStepKeeps
  <2>9. CallsKnow'
        BY <2>5, CallStepKeeps, <1>0, <1>14 DEF Deny, UploadTypeOK, CallStep, CallsKnow
  <2> QED BY <2>4, <2>7, <2>8, <2>9 DEF Inv
<1>15. ASSUME UploadRestart PROVE Inv'
  <2>1. slot' \in [Slots -> SlotRecords]
    <3>1. ASSUME NEW s \in Slots PROVE [slot[s] EXCEPT !.live = FALSE] \in SlotRecords
      <4>1. slot[s] \in SlotRecords
            BY <1>0 DEF UploadTypeOK
      <4> QED BY <4>1 DEF SlotRecords
    <3> QED BY <3>1, <1>15 DEF UploadRestart
  <2>2. call' \in [Calls -> CallRecords]
        BY FreshIsTyped, <1>0, <1>15 DEF UploadRestart, UploadTypeOK, CallRecords
  <2>3. approvals' \subseteq Approvals
        BY <1>0, <1>15 DEF UploadRestart, UploadTypeOK, Approvals
  <2>4. UploadTypeOK'
        BY <2>1, <2>2, <2>3, <1>0, <1>15 DEF UploadRestart, UploadTypeOK, SweptFiles, Expired
  <2>5. SlotStep
        BY FreshIsTyped, <1>0, <1>15 DEF Inv, UploadRestart, SlotStep, UploadTypeOK, SlotRecords, SlotsAreMinted
  <2>6. PutStep /\ BackedStep
        BY <1>0, <1>15 DEF UploadRestart, PutStep, BackedStep, UploadTypeOK
  <2>7. CardsShowTheirKey'
        BY <1>15 DEF Inv, UploadRestart, CardsShowTheirKey
  <2>8. SlotsAreMinted'
        BY <2>5, <2>6, SlotStepKeeps
  <2>9. CallsKnow'
        BY <2>5, CallStepKeeps, <1>0, <1>15 DEF UploadRestart, UploadTypeOK, CallStep, CallsKnow
  <2> QED BY <2>4, <2>7, <2>8, <2>9 DEF Inv
<1>16. ASSUME UploadTick PROVE Inv'
  <2>1. slot' \in [Slots -> SlotRecords]
        BY <1>0, <1>16 DEF UploadTick, UploadTypeOK
  <2>2. call' \in [Calls -> CallRecords]
        BY <1>0, <1>16 DEF UploadTick, UploadTypeOK, CallRecords
  <2>3. approvals' \subseteq Approvals
        BY <1>0, <1>16 DEF UploadTick, UploadTypeOK, Approvals
  <2>4. UploadTypeOK'
        BY <2>1, <2>2, <2>3, <1>0, <1>16 DEF UploadTick, UploadTypeOK, SweptFiles, Expired
  <2>5. SlotStep
        BY <1>0, <1>16 DEF Inv, UploadTick, SlotStep, UploadTypeOK, SlotRecords, SlotsAreMinted
  <2>6. PutStep /\ BackedStep
        BY <1>0, <1>16 DEF UploadTick, PutStep, BackedStep, UploadTypeOK
  <2>7. CardsShowTheirKey'
        BY <1>16 DEF Inv, UploadTick, CardsShowTheirKey
  <2>8. SlotsAreMinted'
        BY <2>5, <2>6, SlotStepKeeps
  <2>9. CallsKnow'
        BY <2>5, CallStepKeeps, <1>0, <1>16 DEF UploadTick, UploadTypeOK, CallStep, CallsKnow
  <2> QED BY <2>4, <2>7, <2>8, <2>9 DEF Inv
<1> QED BY <1>1, <1>2, <1>3, <1>4, <1>5, <1>6, <1>7, <1>8, <1>9, <1>10, <1>11, <1>12, <1>13, <1>14, <1>15, <1>16 DEF UploadNext

LEMMA InitInv ==
    ASSUME UploadConstants, UploadInit
    PROVE  Inv
<1> USE DEF UploadConstants
<1>1. NoSlot \in SlotRecords
      BY DEF NoSlot, SlotRecords, Hold
<1>2. UploadTypeOK
      BY <1>1, FreshIsTyped DEF UploadInit, UploadTypeOK
<1>3. SlotsAreMinted
      BY DEF UploadInit, SlotsAreMinted, NoSlot
<1>4. CallsKnow
      BY FreshIsTyped DEF UploadInit, CallsKnow, CallKnows, Fresh
<1> QED BY <1>2, <1>3, <1>4 DEF Inv, UploadInit, CardsShowTheirKey

LEMMA StutterKeepsInv ==
    ASSUME Inv, UNCHANGED uploadVars
    PROVE  Inv'
<1>1. CallsKnow'
      BY DEF uploadVars, Inv, CallsKnow, CallKnows, KeyOf
<1> QED BY <1>1 DEF uploadVars, Inv, UploadTypeOK, SlotsAreMinted, CardsShowTheirKey

THEOREM InvHolds == UploadSpec => []Inv
<1> USE UploadAssumption
<1>1. UploadInit => Inv
      BY InitInv
<1>2. Inv /\ [UploadNext]_uploadVars => Inv'
      BY StepKeepsInv, StutterKeepsInv
<1> QED BY <1>1, <1>2, PTL DEF UploadSpec

\* Every reachable state of the store, its requests and its calls is well typed.
THEOREM UploadsTyped == UploadSpec => []UploadTypeOK
<1>1. Inv => UploadTypeOK
      BY DEF Inv
<1> QED BY <1>1, InvHolds, PTL

\* No upload is used for two writes, however many calls read it and in whatever order they commit.
THEOREM UploadsAreUsedOnce == UploadSpec => []OneWritePerSlot
<1>1. Inv => OneWritePerSlot
      BY DEF Inv, SlotsAreMinted, OneWritePerSlot, UploadTypeOK
<1> QED BY <1>1, InvHolds, PTL

\* From its reading to its write, a call's slots hold the bytes it read, and are its caller's.
THEOREM BytesStay == UploadSpec => []ReadBytesStay
<1>1. Inv => ReadBytesStay
      BY DEF Inv, CallsKnow, CallKnows, ReadBytesStay
<1> QED BY <1>1, InvHolds, PTL

\* Every write uses a decision whose card showed the bytes it writes.
THEOREM WritesAreCovered == UploadSpec => ConsentCoversTheBytes
<1> USE UploadAssumption
<1>1. ASSUME Inv, [UploadNext]_uploadVars PROVE [ConsentCoversStep]_uploadVars
  <2> SUFFICES ASSUME UploadNext, NEW c \in Calls, call[c].phase = "waiting", call'[c].phase = "done"
               PROVE  \E a \in approvals \ approvals' : a.granted # 0 /\ a.shown = call[c].data
      BY <1>1 DEF ConsentCoversStep
  <2>1. call[c] \in CallRecords /\ call[c].key = KeyOf(c) /\ call \in [Calls -> CallRecords]
        BY <1>1 DEF Inv, UploadTypeOK, CallsKnow, CallKnows
  <2>2. ASSUME NEW d \in Calls, NEW a \in approvals, CommitAndWrite(d, a)
        PROVE  \E b \in approvals \ approvals' : b.granted # 0 /\ b.shown = call[c].data
    <3>1. d = c
          BY <2>1, <2>2 DEF CommitAndWrite
    <3>2. a \notin approvals' /\ a.granted # 0 /\ a.key = KeyOf(c)
          BY <2>1, <2>2, <3>1 DEF CommitAndWrite, Takes, Of, Collectable
    <3>3. a.shown = call[c].data
          BY <3>2, <1>1 DEF Inv, CardsShowTheirKey, KeyOf
    <3> QED BY <3>2, <3>3
  <2>3. \E d \in Calls, a \in approvals : CommitAndWrite(d, a)
    <3> USE <2>1
    <3>1. call'[c] # call[c] /\ Fresh.phase = "idle"
          BY DEF Fresh
    <3>2. ASSUME NEW d \in Calls, EnterGate(d) \/ ReadUploads(d) PROVE FALSE
          BY <3>1, <3>2 DEF EnterGate, ReadUploads, CallRecords
    <3>3. ASSUME NEW d \in Calls, ReadFails(d) \/ LeaveGate(d) PROVE FALSE
          BY <3>1, <3>3 DEF ReadFails, LeaveGate, Over
    <3>4. ASSUME NEW d \in Calls, NEW a \in approvals, CommitFails(d, a) PROVE FALSE
          BY <3>1, <3>4 DEF CommitFails, Over
    <3>5. ASSUME NEW d \in Calls, NEW r \in Refs, NEW s \in Slots, NeedUpload(d, r, s) PROVE FALSE
          BY <3>1, <3>5 DEF NeedUpload, CallRecords
    <3>6. ASSUME UploadRestart PROVE FALSE
          BY <3>1, <3>6 DEF UploadRestart
    <3>7. ASSUME NEW u \in Puts, AbandonPut(u) \/ FailPut(u) \/ (\E v \in Contents : FinishPut(u, v))
                 \/ \E s \in Slots : BeginPut(u, s)
          PROVE FALSE
          BY <3>1, <3>7 DEF AbandonPut, FailPut, FinishPut, BeginPut
    <3>8. ASSUME UploadTick \/ \E a \in approvals : Allow(a) \/ Deny(a) PROVE FALSE
          BY <3>1, <3>8 DEF UploadTick, Allow, Deny
    <3>9. ASSUME \E s \in Slots, r \in Refs, p \in Owners : CreateSlot(s, r, p) PROVE FALSE
          BY <3>1, <3>9 DEF CreateSlot
    <3> QED BY <3>2, <3>3, <3>4, <3>5, <3>6, <3>7, <3>8, <3>9 DEF UploadNext
  <2> QED BY <2>2, <2>3
<1>2. UploadSpec => []Inv
      BY InvHolds
<1> QED BY <1>1, <1>2, PTL DEF UploadSpec, ConsentCoversTheBytes

----------------------------------------------------------------------------
(* How long an upload is held.                                              *)

\* An upload id names one slot.
NamesAreUnique ==
    \A s, t \in Slots : slot[s].ref = slot[t].ref /\ slot[s].ref \notin Paths \union {None} => s = t

\* Something used it up.
UsedUp(s) == backed[s] # 0 \/ s \in wasted

\* A call on its way to its gate has its uploads held from now on.
StillHeld(s) == slot[s].expires >= now + Hold /\ (slot[s].live \/ UsedUp(s))
ReadersHold ==
    \A c \in Calls : call[c].phase = "read" =>
        \A r \in RefsOf[c] \ Paths : \A s \in Slots : s = call[c].uses[r] => StillHeld(s)

\* An approval's uploads exist, and were held when it was asked for.
ApprovalsHold ==
    \A a \in approvals :
        /\ \A r \in a.key.refs \ Paths : r # None /\ \E s \in Slots : slot[s].ref = r /\ slot[s].filled
        /\ \A s \in Slots :
               Backs(s, a) =>
                   /\ slot[s].expires >= a.since + Hold
                   /\ slot[s].live \/ UsedUp(s) \/ now > slot[s].expires

HoldInv == Inv /\ NamesAreUnique /\ ReadersHold /\ ApprovalsHold

\* What a step does to the time a slot has left.
HoldStep ==
    \A s \in Slots : slot[s].ref # None =>
        /\ slot'[s].expires >= slot[s].expires
        /\ ~slot[s].live => slot'[s].expires = slot[s].expires
        /\ slot[s].live => slot'[s].live \/ now > slot'[s].expires \/ UsedUp(s)'
        /\ UsedUp(s) => UsedUp(s)'

LEMMA SlotHeldOn ==
    ASSUME UploadConstants, UploadTypeOK, UploadTypeOK', HoldStep, now' = now,
           NEW s \in Slots, slot[s].ref # None, StillHeld(s)
    PROVE  StillHeld(s)'
<1>1. slot[s].expires \in Int /\ slot'[s].expires \in Int /\ now \in Nat /\ Hold \in Nat
      BY DEF UploadTypeOK, SlotRecords, UploadConstants, Hold
<1>2. slot[s].expires >= now + Hold /\ (slot[s].live \/ UsedUp(s))
      BY DEF StillHeld
<1>3. slot'[s].expires >= now + Hold /\ ~(now > slot'[s].expires)
      BY <1>1, <1>2 DEF HoldStep
<1>4. slot'[s].live \/ UsedUp(s)'
      BY <1>2, <1>3 DEF HoldStep
<1> QED BY <1>3, <1>4 DEF StillHeld

LEMMA ReadersHoldOn ==
    ASSUME UploadConstants, HoldInv, UploadTypeOK', HoldStep, now' = now,
           \A c \in Calls : call'[c].phase = "read" => call'[c] = call[c]
    PROVE  ReadersHold'
<1> SUFFICES ASSUME NEW c \in Calls, call'[c].phase = "read", NEW r \in RefsOf[c] \ Paths,
                    NEW s \in Slots, s = call'[c].uses[r]
             PROVE  StillHeld(s)'
    BY DEF ReadersHold
<1>1. call'[c] = call[c] /\ CallKnows(c)
      BY DEF HoldInv, Inv, CallsKnow
<1>2. slot[s].ref # None
      BY <1>1 DEF CallKnows, UploadConstants
<1>3. StillHeld(s)
      BY <1>1 DEF HoldInv, ReadersHold
<1> QED BY <1>2, <1>3, SlotHeldOn DEF HoldInv, Inv

\* Holding some uploads, and sweeping, leave every slot its time.
LEMMA HeldKeepsTime ==
    ASSUME UploadConstants, UploadTypeOK, NEW S, \A s \in S : SweptSlots[s].live
    PROVE  \A s \in Slots :
               /\ HeldFor(S)[s].expires >= slot[s].expires
               /\ ~slot[s].live => HeldFor(S)[s].expires = slot[s].expires
               /\ slot[s].live => HeldFor(S)[s].live \/ now > HeldFor(S)[s].expires
<1> SUFFICES ASSUME NEW s \in Slots
             PROVE  /\ ~slot[s].live => HeldFor(S)[s].expires = slot[s].expires
                    /\ slot[s].live => HeldFor(S)[s].live \/ now > HeldFor(S)[s].expires
    BY HeldIsTyped
<1>1. CASE s \in S
  <2>1. SweptSlots[s].live /\ slot[s].live
        BY <1>1, SweptIsTyped
  <2> QED BY <2>1, HeldIsTyped
<1>2. CASE s \notin S
  <2>1. HeldFor(S)[s] = SweptSlots[s]
        BY <1>2 DEF HeldFor, HeldUntil
  <2>2. slot[s].live => SweptSlots[s].live \/ now > slot[s].expires
        BY DEF SweptSlots, Expired
  <2> QED BY <2>1, <2>2, SweptIsTyped
<1> QED BY <1>1, <1>2

LEMMA ApprovalsHoldOn ==
    ASSUME UploadConstants, HoldInv, Inv', SlotStep, HoldStep, NamesAreUnique', now' >= now,
           \A b \in approvals' : \E a \in approvals : b.key = a.key /\ b.shown = a.shown /\ b.since = a.since
    PROVE  ApprovalsHold'
<1> SUFFICES ASSUME NEW b \in approvals'
             PROVE  /\ \A r \in b.key.refs \ Paths : r # None /\ \E s \in Slots : slot'[s].ref = r /\ slot'[s].filled
                    /\ \A s \in Slots :
                           Backs(s, b)' =>
                               /\ slot'[s].expires >= b.since + Hold
                               /\ slot'[s].live \/ UsedUp(s)' \/ now' > slot'[s].expires
    BY DEF ApprovalsHold
<1>1. PICK a \in approvals : b.key = a.key /\ b.shown = a.shown /\ b.since = a.since
      OBVIOUS
<1>2. \A r \in b.key.refs \ Paths : r # None /\ \E s \in Slots : slot[s].ref = r /\ slot[s].filled
      BY <1>1 DEF HoldInv, ApprovalsHold
<1>3. \A r \in b.key.refs \ Paths : r # None /\ \E s \in Slots : slot'[s].ref = r /\ slot'[s].filled
      BY <1>2 DEF SlotStep
<1>4. ASSUME NEW s \in Slots, Backs(s, b)'
      PROVE  /\ slot'[s].expires >= b.since + Hold
             /\ slot'[s].live \/ UsedUp(s)' \/ now' > slot'[s].expires
  <2>1. PICK r \in b.key.refs \ Paths : slot'[s].ref = r /\ slot'[s].content = b.shown[r]
        BY <1>4 DEF Backs
  <2>2. PICK u \in Slots : slot[u].ref = r /\ slot[u].filled /\ r # None
        BY <1>2
  <2>3. s = u
        BY <2>1, <2>2 DEF SlotStep, NamesAreUnique
  <2>4. Backs(s, a) /\ slot[s].ref # None
        BY <1>1, <2>1, <2>2, <2>3 DEF SlotStep, Backs
  <2>5. slot[s].expires >= b.since + Hold /\ (slot[s].live \/ UsedUp(s) \/ now > slot[s].expires)
        BY <1>1, <2>4 DEF HoldInv, ApprovalsHold
  <2>6. slot[s].expires \in Int /\ slot'[s].expires \in Int /\ now \in Nat /\ now' \in Nat /\ b.since \in Nat /\ Hold \in Nat
        BY DEF HoldInv, Inv, UploadTypeOK, SlotRecords, UploadConstants, Hold, Approvals
  <2> QED BY <2>4, <2>5, <2>6 DEF HoldStep
<1> QED BY <1>3, <1>4

LEMMA StepKeepsHoldInv ==
    ASSUME UploadConstants, HoldInv, UploadNext
    PROVE  HoldInv'
<1> USE DEF UploadConstants
<1>0. UploadTypeOK /\ Inv /\ Inv' /\ UploadTypeOK'
      BY StepKeepsInv DEF HoldInv, Inv
<1>a. \A s \in Slots : slot[s].expires \in Int /\ now \in Nat /\ SlotTTL \in Nat /\ Hold \in Nat
      BY <1>0 DEF UploadTypeOK, SlotRecords, Hold
<1>1. ASSUME NEW s \in Slots, NEW r \in Refs, NEW p \in Owners, CreateSlot(s, r, p) PROVE HoldInv'
  <2>0. SlotStep
        BY SweptIsTyped, NewSlotIsTyped, <1>0, <1>1 DEF Inv, CreateSlot, NewSlot, Made, Unminted, SlotStep, UploadTypeOK, SlotRecords, SlotsAreMinted
  <2>1. HoldStep
    <3>1. slot[s].ref = None /\ UNCHANGED <<backed, wasted>> /\ \A q \in Slots : q # s => slot'[q] = SweptSlots[q]
          BY <1>1, SweptIsTyped, <1>0 DEF CreateSlot, Unminted
    <3>2. \A q \in Slots : slot[q].live => SweptSlots[q].live \/ now > slot[q].expires
          BY DEF SweptSlots, Expired
    <3> HIDE DEF UploadConstants
    <3> QED BY <3>1, <3>2, SweptIsTyped, <1>0, <1>a DEF HoldStep, UsedUp
  <2>2. NamesAreUnique'
    <3>1. \A q \in Slots : slot'[q].ref = IF q = s THEN r ELSE slot[q].ref
          BY SweptIsTyped, <1>0, <1>1 DEF CreateSlot, NewSlot
    <3> QED BY <3>1, <1>1 DEF CreateSlot, Made, Unminted, HoldInv, NamesAreUnique
  <2>5. now' >= now /\ now' = now
        BY <1>0, <1>1 DEF CreateSlot, UploadTypeOK
  <2>3. ReadersHold'
        BY <1>0, <1>1, <2>1, <2>5, ReadersHoldOn, FreshIsTyped DEF CreateSlot, NewSlot, Made, Unminted, UploadTypeOK, CallRecords, Fresh
  <2>4. ApprovalsHold'
        BY <1>0, <1>1, <2>0, <2>1, <2>2, <2>5, ApprovalsHoldOn DEF CreateSlot
  <2> QED BY <1>0, <2>2, <2>3, <2>4 DEF HoldInv
<1>2. ASSUME NEW u \in Puts, NEW s \in Slots, BeginPut(u, s) PROVE HoldInv'
  <2>0. SlotStep
        BY SweptIsTyped, NewSlotIsTyped, <1>0, <1>2 DEF Inv, BeginPut, SlotStep, UploadTypeOK, SlotRecords, SlotsAreMinted
  <2>1. HoldStep
        BY SweptIsTyped, <1>0, <1>a, <1>2 DEF BeginPut, HoldStep, UsedUp, UploadTypeOK, SweptSlots, Expired
  <2>2. NamesAreUnique'
        BY SweptIsTyped, <1>0, <1>2 DEF BeginPut, HoldInv, NamesAreUnique, UploadTypeOK
  <2>5. now' >= now /\ now' = now
        BY <1>0, <1>2 DEF BeginPut, UploadTypeOK
  <2>3. ReadersHold'
        BY <1>0, <1>2, <2>1, <2>5, ReadersHoldOn, FreshIsTyped DEF BeginPut, UploadTypeOK, CallRecords, Fresh
  <2>4. ApprovalsHold'
        BY <1>0, <1>2, <2>0, <2>1, <2>2, <2>5, ApprovalsHoldOn DEF BeginPut
  <2> QED BY <1>0, <2>2, <2>3, <2>4 DEF HoldInv
<1>3. ASSUME NEW u \in Puts, AbandonPut(u) PROVE HoldInv'
  <2>0. SlotStep
        BY <1>0, <1>3 DEF Inv, AbandonPut, SlotStep, UploadTypeOK, SlotRecords, SlotsAreMinted
  <2>1. HoldStep
        BY <1>0, <1>a, <1>3 DEF AbandonPut, HoldStep, UsedUp, UploadTypeOK
  <2>2. NamesAreUnique'
        BY <1>0, <1>3 DEF AbandonPut, HoldInv, NamesAreUnique, UploadTypeOK
  <2>5. now' >= now /\ now' = now
        BY <1>0, <1>3 DEF AbandonPut, UploadTypeOK
  <2>3. ReadersHold'
        BY <1>0, <1>3, <2>1, <2>5, ReadersHoldOn, FreshIsTyped DEF AbandonPut, UploadTypeOK, CallRecords, Fresh
  <2>4. ApprovalsHold'
        BY <1>0, <1>3, <2>0, <2>1, <2>2, <2>5, ApprovalsHoldOn DEF AbandonPut
  <2> QED BY <1>0, <2>2, <2>3, <2>4 DEF HoldInv
<1>4. ASSUME NEW u \in Puts, FailPut(u) PROVE HoldInv'
  <2>0. SlotStep
        BY <1>0, <1>4 DEF Inv, FailPut, SlotStep, UploadTypeOK, SlotRecords, SlotsAreMinted
  <2>1. HoldStep
        BY <1>0, <1>a, <1>4 DEF FailPut, HoldStep, UsedUp, UploadTypeOK
  <2>2. NamesAreUnique'
        BY <1>0, <1>4 DEF FailPut, HoldInv, NamesAreUnique, UploadTypeOK
  <2>5. now' >= now /\ now' = now
        BY <1>0, <1>4 DEF FailPut, UploadTypeOK
  <2>3. ReadersHold'
        BY <1>0, <1>4, <2>1, <2>5, ReadersHoldOn, FreshIsTyped DEF FailPut, UploadTypeOK, CallRecords, Fresh
  <2>4. ApprovalsHold'
        BY <1>0, <1>4, <2>0, <2>1, <2>2, <2>5, ApprovalsHoldOn DEF FailPut
  <2> QED BY <1>0, <2>2, <2>3, <2>4 DEF HoldInv
<1>5. ASSUME NEW u \in Puts, NEW v \in Contents, FinishPut(u, v) PROVE HoldInv'
  <2>0. SlotStep
    <3>1. PICK s \in Slots : /\ s = put[u] /\ ~slot[s].filled
                             /\ slot' = [slot EXCEPT ![s].filled = TRUE, ![s].content = v]
          BY <1>0, <1>5 DEF FinishPut, Fillable, UploadTypeOK
    <3>2. slot[s].ref # None
          BY <1>5, <3>1 DEF HoldInv, Inv, SlotsAreMinted, FinishPut
    <3>3. \A q \in Slots : q # s => slot'[q] = slot[q]
          BY <3>1, <1>0 DEF UploadTypeOK
    <3>4. /\ slot'[s].ref = slot[s].ref /\ slot'[s].owner = slot[s].owner
          /\ slot'[s].live = slot[s].live
          BY <3>1, <1>0 DEF UploadTypeOK, SlotRecords
    <3> HIDE DEF UploadConstants
    <3> QED BY <3>1, <3>2, <3>3, <3>4, <1>0 DEF SlotStep, Inv, SlotsAreMinted
  <2>1. HoldStep
        BY <1>0, <1>a, <1>5 DEF FinishPut, HoldStep, UsedUp, UploadTypeOK, SlotRecords
  <2>2. NamesAreUnique'
        BY <1>0, <1>5 DEF FinishPut, HoldInv, NamesAreUnique, UploadTypeOK, SlotRecords
  <2>5. now' >= now /\ now' = now
        BY <1>0, <1>5 DEF FinishPut, UploadTypeOK
  <2>3. ReadersHold'
        BY <1>0, <1>5, <2>1, <2>5, ReadersHoldOn, FreshIsTyped DEF FinishPut, UploadTypeOK, CallRecords, Fresh
  <2>4. ApprovalsHold'
        BY <1>0, <1>5, <2>0, <2>1, <2>2, <2>5, ApprovalsHoldOn DEF FinishPut
  <2> QED BY <1>0, <2>2, <2>3, <2>4 DEF HoldInv
<1>6. ASSUME NEW c \in Calls, NEW r \in Refs, NEW s \in Slots, NeedUpload(c, r, s) PROVE HoldInv'
  <2>0. SlotStep
        BY SweptIsTyped, HeldIsTyped, FreshIsTyped, NewSlotIsTyped, <1>0, <1>6 DEF Inv, NeedUpload, NewSlot, Unminted, SlotStep, UploadTypeOK, SlotRecords, SlotsAreMinted
  <2>1. HoldStep
    <3>1. /\ \A q \in Ids(c) : Readable(q, Caller[c])
          /\ slot' = [HeldFor(Ids(c)) EXCEPT ![s] = NewSlot(r, Caller[c])]
          BY <1>6 DEF NeedUpload
    <3>2. UNCHANGED <<backed, wasted>> /\ slot[s].ref = None
          BY <1>6 DEF NeedUpload, Unminted
    <3>3. \A q \in Ids(c) : SweptSlots[q].live
          BY <3>1 DEF Readable
    <3>5. \A q \in Slots : q # s => slot'[q] = HeldFor(Ids(c))[q]
          BY <3>1 DEF HeldFor, HeldUntil
    <3> HIDE DEF UploadConstants
    <3> QED BY <3>2, <3>3, <3>5, HeldKeepsTime, <1>0 DEF HoldStep, UsedUp
  <2>2. NamesAreUnique'
    <3>1. \A q \in Slots : slot'[q].ref = IF q = s THEN r ELSE slot[q].ref
          BY HeldIsTyped, <1>0, <1>6 DEF NeedUpload, NewSlot
    <3> QED BY <3>1, <1>6 DEF NeedUpload, Unminted, HoldInv, NamesAreUnique
  <2>5. now' >= now /\ now' = now
        BY <1>0, <1>6 DEF NeedUpload, UploadTypeOK
  <2>3. ReadersHold'
        BY <1>0, <1>6, <2>1, <2>5, ReadersHoldOn, FreshIsTyped DEF NeedUpload, NewSlot, Unminted, UploadTypeOK, CallRecords, Fresh
  <2>4. ApprovalsHold'
        BY <1>0, <1>6, <2>0, <2>1, <2>2, <2>5, ApprovalsHoldOn DEF NeedUpload
  <2> QED BY <1>0, <2>2, <2>3, <2>4 DEF HoldInv
<1>7. ASSUME NEW c \in Calls, ReadUploads(c) PROVE HoldInv'
  <2>0. SlotStep
        BY SweptIsTyped, HeldIsTyped, FreshIsTyped, NewSlotIsTyped, <1>0, <1>7 DEF Inv, ReadUploads, SlotStep, UploadTypeOK, SlotRecords, SlotsAreMinted
  <2>1. HoldStep
    <3>1. slot' = HeldFor(Asked(c)) /\ \A q \in Asked(c) : Readable(q, Caller[c])
          BY <1>7 DEF ReadUploads
    <3>2. UNCHANGED <<backed, wasted>>
          BY <1>7 DEF ReadUploads
    <3>3. \A q \in Asked(c) : SweptSlots[q].live
          BY <3>1 DEF Readable
    <3> HIDE DEF UploadConstants
    <3> QED BY <3>1, <3>2, <3>3, HeldKeepsTime, <1>0 DEF HoldStep, UsedUp
  <2>2. NamesAreUnique'
        BY SweptIsTyped, HeldIsTyped, <1>0, <1>7 DEF ReadUploads, HoldInv, NamesAreUnique, UploadTypeOK
  <2>5. now' >= now /\ now' = now
        BY <1>0, <1>7 DEF ReadUploads, UploadTypeOK
  <2>3. ReadersHold'
    <3>1. call[c] \in CallRecords
          BY <1>0 DEF UploadTypeOK
    <3>2. /\ call'[c].uses = [r \in Refs |-> IF r \in RefsOf[c] THEN Given(c, r) ELSE None]
          /\ \A d \in Calls \ {c} : call'[d] = call[d]
          BY <3>1, <1>0, <1>7 DEF ReadUploads, UploadTypeOK, CallRecords
    <3>3. ASSUME NEW r \in RefsOf[c] \ Paths, NEW s \in Slots, s = call'[c].uses[r]
          PROVE  StillHeld(s)'
      <4>1. r \in Refs /\ s = Given(c, r) /\ s \in Asked(c)
            BY <3>2, <3>3 DEF Asked
      <4>2. SweptSlots[s].live /\ slot'[s] = HeldFor(Asked(c))[s] /\ now' = now
            BY <4>1, <1>7 DEF ReadUploads, Readable
      <4> QED BY <4>1, <4>2, HeldIsTyped, <1>0 DEF StillHeld
    <3>4. ASSUME NEW d \in Calls \ {c}, call'[d].phase = "read", NEW r \in RefsOf[d] \ Paths,
                 NEW s \in Slots, s = call'[d].uses[r]
          PROVE  StillHeld(s)'
      <4>1. call'[d] = call[d] /\ CallKnows(d) /\ now' = now
            BY <3>2, <1>7 DEF HoldInv, Inv, CallsKnow, ReadUploads
      <4>2. slot[s].ref # None
            BY <3>4, <4>1 DEF CallKnows
      <4>3. StillHeld(s)
            BY <3>4, <4>1 DEF HoldInv, ReadersHold
      <4> QED BY <4>1, <4>2, <4>3, <2>1, <1>0, SlotHeldOn
    <3> QED BY <3>3, <3>4 DEF ReadersHold
  <2>4. ApprovalsHold'
        BY <1>0, <1>7, <2>0, <2>1, <2>2, <2>5, ApprovalsHoldOn DEF ReadUploads
  <2> QED BY <1>0, <2>2, <2>3, <2>4 DEF HoldInv
<1>8. ASSUME NEW c \in Calls, ReadFails(c) PROVE HoldInv'
  <2>0. SlotStep
        BY SweptIsTyped, HeldIsTyped, FreshIsTyped, NewSlotIsTyped, <1>0, <1>8 DEF Inv, ReadFails, Over, SlotStep, UploadTypeOK, SlotRecords, SlotsAreMinted
  <2>1. HoldStep
    <3>1. PICK before \in SUBSET {q \in Asked(c) : Readable(q, Caller[c])} : slot' = HeldFor(before)
          BY <1>8 DEF ReadFails
    <3>2. UNCHANGED <<backed, wasted>>
          BY <1>8 DEF ReadFails
    <3>3. \A q \in before : SweptSlots[q].live
          BY DEF Readable
    <3> HIDE DEF UploadConstants
    <3> QED BY <3>1, <3>2, <3>3, HeldKeepsTime, <1>0 DEF HoldStep, UsedUp
  <2>2. NamesAreUnique'
        BY SweptIsTyped, HeldIsTyped, <1>0, <1>8 DEF ReadFails, Over, HoldInv, NamesAreUnique, UploadTypeOK
  <2>5. now' >= now /\ now' = now
        BY <1>0, <1>8 DEF ReadFails, UploadTypeOK
  <2>3. ReadersHold'
        BY <1>0, <1>8, <2>1, <2>5, ReadersHoldOn, FreshIsTyped DEF ReadFails, Over, UploadTypeOK, CallRecords, Fresh
  <2>4. ApprovalsHold'
        BY <1>0, <1>8, <2>0, <2>1, <2>2, <2>5, ApprovalsHoldOn DEF ReadFails
  <2> QED BY <1>0, <2>2, <2>3, <2>4 DEF HoldInv
<1>9. ASSUME NEW c \in Calls, EnterGate(c) PROVE HoldInv'
  <2>0. SlotStep
        BY KeyIsTyped, <1>0, <1>9 DEF Inv, EnterGate, SlotStep, UploadTypeOK, SlotRecords, SlotsAreMinted
  <2>1. HoldStep
        BY <1>0, <1>a, <1>9 DEF EnterGate, HoldStep, UsedUp, UploadTypeOK
  <2>2. NamesAreUnique'
        BY <1>0, <1>9 DEF EnterGate, HoldInv, NamesAreUnique, UploadTypeOK
  <2>5. now' >= now /\ now' = now
        BY <1>0, <1>9 DEF EnterGate, UploadTypeOK
  <2>3. ReadersHold'
        BY <1>0, <1>9, <2>1, <2>5, ReadersHoldOn, FreshIsTyped DEF EnterGate, UploadTypeOK, CallRecords, Fresh
  <2>4. ApprovalsHold'
    <3> DEFINE new == [key |-> KeyOf(c), shown |-> call[c].data, since |-> now, granted |-> 0]
    <3>1. call[c].phase = "read" /\ CallKnows(c) /\ UNCHANGED <<now, slot, backed, wasted>>
          BY <1>9 DEF EnterGate, HoldInv, Inv, CallsKnow
    <3>2. new.key.refs = RefsOf[c] /\ new.since = now
          BY DEF KeyOf
    <3>3. \A r \in RefsOf[c] \ Paths : r # None /\ \E s \in Slots : slot[s].ref = r /\ slot[s].filled
          BY <3>1 DEF CallKnows
    <3>4. ASSUME NEW s \in Slots, Backs(s, new)
          PROVE  slot[s].expires >= now + Hold /\ (slot[s].live \/ UsedUp(s))
      <4>1. PICK r \in RefsOf[c] \ Paths : slot[s].ref = r
            BY <3>2, <3>4 DEF Backs
      <4>2. s = call[c].uses[r]
            BY <3>1, <4>1 DEF CallKnows, HoldInv, NamesAreUnique
      <4> QED BY <3>1, <4>1, <4>2 DEF HoldInv, ReadersHold, StillHeld
    <3>5. \A b \in approvals' : b \in approvals \/ b = new
          BY <1>9 DEF EnterGate, Of
    <3>6. \A b, s : Backs(s, b)' <=> Backs(s, b)
          BY <3>1 DEF Backs
    <3>7. \A s : UsedUp(s)' <=> UsedUp(s)
          BY <3>1 DEF UsedUp
    <3> HIDE DEF new
    <3>8. ASSUME NEW b \in approvals'
          PROVE  /\ \A r \in b.key.refs \ Paths : r # None /\ \E s \in Slots : slot[s].ref = r /\ slot[s].filled
                 /\ \A s \in Slots :
                        Backs(s, b) =>
                            /\ slot[s].expires >= b.since + Hold
                            /\ slot[s].live \/ UsedUp(s) \/ now > slot[s].expires
          BY <3>2, <3>3, <3>4, <3>5 DEF HoldInv, ApprovalsHold
    <3> QED BY <3>1, <3>6, <3>7, <3>8 DEF ApprovalsHold
  <2> QED BY <1>0, <2>2, <2>3, <2>4 DEF HoldInv
<1>10. ASSUME NEW c \in Calls, LeaveGate(c) PROVE HoldInv'
  <2>0. SlotStep
        BY FreshIsTyped, <1>0, <1>10 DEF Inv, LeaveGate, Over, SlotStep, UploadTypeOK, SlotRecords, SlotsAreMinted
  <2>1. HoldStep
        BY <1>0, <1>a, <1>10 DEF LeaveGate, Over, HoldStep, UsedUp, UploadTypeOK
  <2>2. NamesAreUnique'
        BY <1>0, <1>10 DEF LeaveGate, Over, HoldInv, NamesAreUnique, UploadTypeOK
  <2>5. now' >= now /\ now' = now
        BY <1>0, <1>10 DEF LeaveGate, UploadTypeOK
  <2>3. ReadersHold'
        BY <1>0, <1>10, <2>1, <2>5, ReadersHoldOn, FreshIsTyped DEF LeaveGate, Over, UploadTypeOK, CallRecords, Fresh
  <2>4. ApprovalsHold'
        BY <1>0, <1>10, <2>0, <2>1, <2>2, <2>5, ApprovalsHoldOn DEF LeaveGate
  <2> QED BY <1>0, <2>2, <2>3, <2>4 DEF HoldInv
<1>11. ASSUME NEW c \in Calls, NEW a \in approvals, CommitAndWrite(c, a) PROVE HoldInv'
  <2>0. SlotStep
        BY SweptIsTyped, ConsumedIsTyped, FreshIsTyped, <1>0, <1>11 DEF Inv, CommitAndWrite, Takes, SlotStep, UploadTypeOK, SlotRecords, SlotsAreMinted
  <2>1. HoldStep
    <3>1. slot' = Consumed(Uses(c)) /\ wasted' = wasted
          /\ backed' = [q \in Slots |-> IF q \in Uses(c) THEN backed[q] + 1 ELSE backed[q]]
          BY <1>11 DEF CommitAndWrite
    <3>2. \A q \in Slots : backed[q] \in Nat
          BY <1>0 DEF UploadTypeOK
    <3>3. \A q \in Slots : (q \in Uses(c) => UsedUp(q)') /\ (UsedUp(q) => UsedUp(q)')
          BY <3>1, <3>2 DEF UsedUp
    <3> QED BY <3>1, <3>3, ConsumedIsTyped, SweptIsTyped, <1>0, <1>a DEF HoldStep, SweptSlots, Expired
  <2>2. NamesAreUnique'
        BY SweptIsTyped, ConsumedIsTyped, <1>0, <1>11 DEF CommitAndWrite, Takes, HoldInv, NamesAreUnique, UploadTypeOK
  <2>5. now' >= now /\ now' = now
        BY <1>0, <1>11 DEF CommitAndWrite, UploadTypeOK
  <2>3. ReadersHold'
        BY <1>0, <1>11, <2>1, <2>5, ReadersHoldOn, FreshIsTyped DEF CommitAndWrite, Takes, UploadTypeOK, CallRecords, Fresh
  <2>4. ApprovalsHold'
        BY <1>0, <1>11, <2>0, <2>1, <2>2, <2>5, ApprovalsHoldOn DEF CommitAndWrite, Takes
  <2> QED BY <1>0, <2>2, <2>3, <2>4 DEF HoldInv
<1>12. ASSUME NEW c \in Calls, NEW a \in approvals, CommitFails(c, a) PROVE HoldInv'
  <2>0. SlotStep
        BY SweptIsTyped, ConsumedIsTyped, FreshIsTyped, <1>0, <1>12 DEF Inv, CommitFails, Takes, Over, SlotStep, UploadTypeOK, SlotRecords, SlotsAreMinted
  <2>1. HoldStep
    <3>1. PICK before \in SUBSET {q \in Uses(c) : Readable(q, Caller[c])} :
             slot' = Consumed(before) /\ wasted' = wasted \union before
          BY <1>12 DEF CommitFails
    <3>2. backed' = backed
          BY <1>12 DEF CommitFails
    <3> HIDE DEF UploadConstants
    <3> QED BY <3>1, <3>2, ConsumedIsTyped, SweptIsTyped, <1>0, <1>a DEF HoldStep, UsedUp, SweptSlots, Expired
  <2>2. NamesAreUnique'
        BY SweptIsTyped, ConsumedIsTyped, <1>0, <1>12 DEF CommitFails, Takes, Over, HoldInv, NamesAreUnique, UploadTypeOK
  <2>5. now' >= now /\ now' = now
        BY <1>0, <1>12 DEF CommitFails, UploadTypeOK
  <2>3. ReadersHold'
        BY <1>0, <1>12, <2>1, <2>5, ReadersHoldOn, FreshIsTyped DEF CommitFails, Takes, Over, UploadTypeOK, CallRecords, Fresh
  <2>4. ApprovalsHold'
        BY <1>0, <1>12, <2>0, <2>1, <2>2, <2>5, ApprovalsHoldOn DEF CommitFails, Takes
  <2> QED BY <1>0, <2>2, <2>3, <2>4 DEF HoldInv
<1>13. ASSUME NEW a \in approvals, Allow(a) PROVE HoldInv'
  <2>0. SlotStep
        BY <1>0, <1>13 DEF Inv, Allow, SlotStep, UploadTypeOK, SlotRecords, SlotsAreMinted
  <2>1. HoldStep
        BY <1>0, <1>a, <1>13 DEF Allow, HoldStep, UsedUp, UploadTypeOK
  <2>2. NamesAreUnique'
        BY <1>0, <1>13 DEF Allow, HoldInv, NamesAreUnique, UploadTypeOK
  <2>5. now' >= now /\ now' = now
        BY <1>0, <1>13 DEF Allow, UploadTypeOK
  <2>3. ReadersHold'
        BY <1>0, <1>13, <2>1, <2>5, ReadersHoldOn, FreshIsTyped DEF Allow, UploadTypeOK, CallRecords, Fresh
  <2>4. ApprovalsHold'
    <3>1. a \in Approvals
          BY <1>0 DEF UploadTypeOK
    <3>2. /\ [a EXCEPT !.granted = now].shown = a.shown /\ [a EXCEPT !.granted = now].key = a.key
          /\ [a EXCEPT !.granted = now].since = a.since
          BY <3>1 DEF Approvals
    <3>3. \A b \in approvals' : \E d \in approvals : b.key = d.key /\ b.shown = d.shown /\ b.since = d.since
          BY <3>2, <1>13 DEF Allow
    <3> QED BY <3>3, <2>1, <2>2, <2>0, <2>5, <1>0, ApprovalsHoldOn
  <2> QED BY <1>0, <2>2, <2>3, <2>4 DEF HoldInv
<1>14. ASSUME NEW a \in approvals, Deny(a) PROVE HoldInv'
  <2>0. SlotStep
        BY <1>0, <1>14 DEF Inv, Deny, SlotStep, UploadTypeOK, SlotRecords, SlotsAreMinted
  <2>1. HoldStep
        BY <1>0, <1>a, <1>14 DEF Deny, HoldStep, UsedUp, UploadTypeOK
  <2>2. NamesAreUnique'
        BY <1>0, <1>14 DEF Deny, HoldInv, NamesAreUnique, UploadTypeOK
  <2>5. now' >= now /\ now' = now
        BY <1>0, <1>14 DEF Deny, UploadTypeOK
  <2>3. ReadersHold'
        BY <1>0, <1>14, <2>1, <2>5, ReadersHoldOn, FreshIsTyped DEF Deny, UploadTypeOK, CallRecords, Fresh
  <2>4. ApprovalsHold'
        BY <1>0, <1>14, <2>0, <2>1, <2>2, <2>5, ApprovalsHoldOn DEF Deny
  <2> QED BY <1>0, <2>2, <2>3, <2>4 DEF HoldInv
<1>15. ASSUME UploadRestart PROVE HoldInv'
  <2>1. NamesAreUnique'
        <3>1. \A q \in Slots : slot'[q].ref = slot[q].ref
              BY <1>0, <1>15 DEF UploadRestart, UploadTypeOK, SlotRecords
        <3> QED BY <3>1 DEF HoldInv, NamesAreUnique
  <2>2. \A c \in Calls : call'[c].phase # "read"
        BY <1>15 DEF UploadRestart, Fresh
  <2> QED BY <1>0, <1>15, <2>1, <2>2 DEF HoldInv, ReadersHold, ApprovalsHold, UploadRestart
<1>16. ASSUME UploadTick PROVE HoldInv'
  <2>0. SlotStep
        BY <1>0, <1>16 DEF Inv, UploadTick, SlotStep, UploadTypeOK, SlotRecords, SlotsAreMinted
  <2>1. HoldStep
        BY <1>0, <1>a, <1>16 DEF UploadTick, HoldStep, UsedUp, UploadTypeOK
  <2>2. NamesAreUnique'
        BY <1>0, <1>16 DEF UploadTick, HoldInv, NamesAreUnique, UploadTypeOK
  <2>5. now' >= now
        BY <1>0, <1>16 DEF UploadTick, UploadTypeOK
  <2>3. ReadersHold'
        BY <1>16 DEF UploadTick, ReadersHold
  <2>4. ApprovalsHold'
        BY <1>0, <1>16, <2>0, <2>1, <2>2, <2>5, ApprovalsHoldOn DEF UploadTick
  <2> QED BY <1>0, <2>2, <2>3, <2>4 DEF HoldInv
<1> QED BY <1>1, <1>2, <1>3, <1>4, <1>5, <1>6, <1>7, <1>8, <1>9, <1>10, <1>11, <1>12, <1>13, <1>14, <1>15, <1>16 DEF UploadNext

\* An upload an approval was asked about is there for as long as that approval can be used.
THEOREM UploadsOutliveApprovals == UploadSpec => []HeldUploadOutlivesItsApproval
<1> USE UploadAssumption
<1>1. UploadInit => HoldInv
  <2> SUFFICES ASSUME UploadInit PROVE HoldInv
      OBVIOUS
  <2>1. NamesAreUnique
        BY DEF UploadInit, NamesAreUnique, NoSlot
  <2>2. ReadersHold
        BY DEF UploadInit, ReadersHold, Fresh
  <2> QED BY InitInv, <2>1, <2>2 DEF HoldInv, UploadInit, ApprovalsHold
<1>2. HoldInv /\ [UploadNext]_uploadVars => HoldInv'
  <2>1. ASSUME HoldInv, UNCHANGED uploadVars PROVE HoldInv'
    <3>1. \A s, a : (Backs(s, a)' <=> Backs(s, a)) /\ (UsedUp(s)' <=> UsedUp(s))
          BY <2>1 DEF uploadVars, Backs, UsedUp
    <3>2. Inv'
          BY <2>1, StutterKeepsInv DEF HoldInv
    <3>3. ReadersHold'
          BY <2>1, <3>1 DEF HoldInv, uploadVars, ReadersHold, StillHeld
    <3>4. ApprovalsHold'
          BY <2>1, <3>1 DEF HoldInv, uploadVars, ApprovalsHold
    <3>5. NamesAreUnique'
          BY <2>1 DEF HoldInv, uploadVars, NamesAreUnique
    <3> QED BY <3>2, <3>3, <3>4, <3>5 DEF HoldInv
  <2> QED BY <2>1, StepKeepsHoldInv
<1>3. HoldInv => HeldUploadOutlivesItsApproval
  <2> SUFFICES ASSUME HoldInv, NEW a \in approvals, NEW s \in Slots,
                      Backs(s, a), Live(a), a.granted <= a.since + PendingTTL, ~UsedUp(s)
               PROVE  slot[s].live /\ now <= slot[s].expires
      BY DEF HeldUploadOutlivesItsApproval, UsedUp
  <2>1. /\ slot[s].expires >= a.since + Hold
        /\ slot[s].live \/ now > slot[s].expires
        BY DEF HoldInv, ApprovalsHold
  <2>2. slot[s].expires \in Int /\ a.since \in Nat /\ a.granted \in Nat /\ now \in Nat
        BY DEF HoldInv, Inv, UploadTypeOK, SlotRecords, UploadConstants, Hold, Approvals
  <2> QED BY <2>1, <2>2 DEF UploadConstants, Hold, Live, Collectable, StillOpen
<1> QED BY <1>1, <1>2, <1>3, PTL DEF UploadSpec

----------------------------------------------------------------------------
(* No ciphertext without an entry that will remove it.                      *)

\* A slot leaves its entry only with its file gone too, and a file that comes in without one is noted.
FilesStep ==
    /\ files' \subseteq files \union late' \union {s \in Slots : slot'[s].live}
    /\ \A s \in files' : s \in late \/ (s \in files /\ slot[s].live) => slot'[s].live \/ s \in late'

LEMMA FilesStepKeeps ==
    ASSUME EveryFileHasItsSlot, FilesStep
    PROVE  EveryFileHasItsSlot'
BY DEF EveryFileHasItsSlot, FilesStep

\* What a sweep leaves, and a hold: exactly the live slots that are not past their time.
LEMMA SweptLive ==
    ASSUME UploadConstants, UploadTypeOK, NEW S, NEW s \in Slots
    PROVE  /\ SweptSlots[s].live <=> slot[s].live /\ s \notin Expired
           /\ HeldFor(S)[s].live <=> slot[s].live /\ s \notin Expired
           /\ Consumed(S)[s].live <=> slot[s].live /\ s \notin Expired /\ s \notin S
<1>1. slot[s] \in SlotRecords
      BY DEF UploadTypeOK
<1>2. SweptSlots[s].live <=> slot[s].live /\ s \notin Expired
      BY <1>1 DEF SweptSlots, SlotRecords
<1> QED BY <1>2, HeldIsTyped, ConsumedIsTyped

\* Every step keeps a file and its entry together.
LEMMA StepKeepsFiles ==
    ASSUME UploadConstants, Inv, UploadNext
    PROVE  FilesStep
<1> USE DEF FilesStep, SweptFiles
<1>0. UploadTypeOK /\ files \subseteq Slots
      BY DEF Inv, UploadTypeOK
<1>1. ASSUME NEW s \in Slots, NEW r \in Refs, NEW p \in Owners, CreateSlot(s, r, p)
      PROVE  FilesStep
  <2>1. \A t \in Slots \ {s} : slot'[t] = SweptSlots[t]
        BY <1>1 DEF CreateSlot, SweptSlots
  <2>2. slot'[s].live
        BY <1>1 DEF CreateSlot, SweptSlots, NewSlot
  <2> QED BY <1>0, <1>1, <2>1, <2>2, SweptLive DEF CreateSlot
<1>2. ASSUME NEW u \in Puts, NEW s \in Slots, BeginPut(u, s) PROVE FilesStep
      BY <1>0, <1>2, SweptLive DEF BeginPut
<1>3. ASSUME NEW u \in Puts, AbandonPut(u) \/ FailPut(u) PROVE FilesStep
      BY <1>0, <1>3 DEF AbandonPut, FailPut
<1>4. ASSUME NEW u \in Puts, NEW v \in Contents, FinishPut(u, v) PROVE FilesStep
  <2>1. put[u] \in Slots
        BY <1>0, <1>4 DEF FinishPut, UploadTypeOK
  <2>2. \A t \in Slots : slot'[t].live = slot[t].live
        BY <1>0, <1>4, <2>1 DEF FinishPut, UploadTypeOK, SlotRecords
  <2> QED BY <1>0, <1>4, <2>1, <2>2 DEF FinishPut
<1>5. ASSUME NEW c \in Calls, NEW r \in Refs, NEW s \in Slots, NeedUpload(c, r, s) PROVE FilesStep
  <2>1. \A t \in Slots \ {s} : slot'[t] = HeldFor(Ids(c))[t]
        BY <1>5 DEF NeedUpload, HeldFor, HeldUntil
  <2>2. slot'[s].live
        BY <1>5 DEF NeedUpload, HeldFor, HeldUntil, NewSlot
  <2> QED BY <1>0, <1>5, <2>1, <2>2, SweptLive DEF NeedUpload
<1>6. ASSUME NEW c \in Calls, ReadUploads(c) PROVE FilesStep
      BY <1>0, <1>6, SweptLive DEF ReadUploads
<1>7. ASSUME NEW c \in Calls, ReadFails(c) PROVE FilesStep
  <2>1. PICK S : slot' = HeldFor(S)
        BY <1>7 DEF ReadFails
  <2> QED BY <1>0, <1>7, <2>1, SweptLive DEF ReadFails
<1>8. ASSUME NEW c \in Calls, EnterGate(c) \/ LeaveGate(c) PROVE FilesStep
      BY <1>0, <1>8 DEF EnterGate, LeaveGate
<1>9. ASSUME NEW c \in Calls, NEW a \in approvals, CommitAndWrite(c, a) PROVE FilesStep
      BY <1>0, <1>9, SweptLive DEF CommitAndWrite
<1>10. ASSUME NEW c \in Calls, NEW a \in approvals, CommitFails(c, a) PROVE FilesStep
  <2>1. PICK S : slot' = Consumed(S) /\ files' = (files \ Expired) \ S
        BY <1>10 DEF CommitFails
  <2> QED BY <1>0, <1>10, <2>1, SweptLive DEF CommitFails
<1>11. ASSUME NEW a \in approvals, Allow(a) \/ Deny(a) PROVE FilesStep
      BY <1>0, <1>11 DEF Allow, Deny
<1>12. ASSUME UploadRestart PROVE FilesStep
      BY <1>12 DEF UploadRestart
<1>13. ASSUME UploadTick PROVE FilesStep
      BY <1>0, <1>13 DEF UploadTick
<1> QED BY <1>1, <1>2, <1>3, <1>4, <1>5, <1>6, <1>7, <1>8, <1>9, <1>10, <1>11, <1>12, <1>13 DEF UploadNext

\* No ciphertext stays behind without an entry that can expire: sweeping, consuming and restarting
\* remove the file with the entry, and bytes that arrive after the sweep are known to be late.
THEOREM FilesHaveSlots == UploadSpec => []EveryFileHasItsSlot
<1> USE UploadAssumption
<1>1. UploadInit => EveryFileHasItsSlot
      BY DEF UploadInit, EveryFileHasItsSlot
<1>2. Inv /\ EveryFileHasItsSlot /\ [UploadNext]_uploadVars => EveryFileHasItsSlot'
  <2>1. Inv /\ EveryFileHasItsSlot /\ UploadNext => EveryFileHasItsSlot'
        BY StepKeepsFiles, FilesStepKeeps
  <2>2. EveryFileHasItsSlot /\ UNCHANGED uploadVars => EveryFileHasItsSlot'
        BY DEF EveryFileHasItsSlot, uploadVars
  <2> QED BY <2>1, <2>2
<1> QED BY <1>1, <1>2, InvHolds, PTL DEF UploadSpec
=============================================================================
