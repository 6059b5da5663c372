---------------------------- MODULE ClientProofs ----------------------------
(***************************************************************************)
(* Proofs about FarmClient.  That a call cancels what it abandons, and     *)
(* nothing else, rests on where the call is: a renderId is known from the  *)
(* wait on and never before, and only the wait leads to a cancel, with the *)
(* last status it saw not an end.                                          *)
(***************************************************************************)
EXTENDS FarmClient, TLAPS

\* The awaits before there is a renderId, and those of the wait.
Before == {"archive", "register", "put", "finalize", "enqueue", "enqueuing"}
During == {"poll", "callback", "got", "sleep", "cancel"}

WalkInv ==
    /\ pc \in Before => ~id /\ status = "none"
    /\ pc \in During => id
    /\ request = "taken" => render # "none"
    /\ id => request = "taken"
    /\ pc \in {"poll", "callback", "sleep", "cancel"} => status \notin Terminal
    /\ pc \in Before \cup {"poll", "callback", "got", "sleep"} => why = "none"
    /\ pc = "cancel" => why \in Walkaways
    /\ pc # "settled" => cancels = "none"

LEMMA InitWalk == Init => TypeOK /\ WalkInv /\ CancelsWhatItAbandons
    BY DEF Init, TypeOK, WalkInv, CancelsWhatItAbandons, Signaled, Terminal, Walkaways, Before, During

\* Every step keeps the types.
LEMMA TypeStep == TypeOK /\ [Next]_vars => TypeOK'
<1> SUFFICES ASSUME TypeOK, [Next]_vars
             PROVE  TypeOK'
    OBVIOUS
<1> USE DEF TypeOK, Signaled, Terminal, Walkaways, client, farm, Settles, abandon, Waiting
<1>1. CASE Archive \/ Register \/ Put \/ Finalize
    BY <1>1 DEF Archive, Register, Put, Finalize
<1>2. CASE UploadFails
    BY <1>2 DEF UploadFails
<1>3. CASE Enqueue \/ Enqueued \/ EnqueueFails \/ FarmTakes
    BY <1>3 DEF Enqueue, Enqueued, EnqueueFails, FarmTakes
<1>4. CASE Answered \/ WaitFails \/ FetchAborted \/ PollAborted
    BY <1>4 DEF Answered, WaitFails, FetchAborted, PollAborted
<1>5. CASE Decide \/ Sleep \/ Cancel
    BY <1>5 DEF Decide, Sleep, Cancel
<1>6. CASE Abort \/ Deadline \/ RenderEnds \/ OthersRegister \/ UNCHANGED vars
    BY <1>6 DEF Abort, Deadline, RenderEnds, OthersRegister, vars
<1> QED
    BY <1>1, <1>2, <1>3, <1>4, <1>5, <1>6 DEF Next, Call

\* Every step keeps what the place of the call says of its render.
LEMMA WalkStep == TypeOK /\ WalkInv /\ [Next]_vars => WalkInv'
<1> SUFFICES ASSUME TypeOK, WalkInv, [Next]_vars
             PROVE  WalkInv'
    OBVIOUS
<1> USE DEF TypeOK, WalkInv, Signaled, Terminal, Walkaways, Before, During, client, farm,
            Settles, abandon, Waiting
<1>1. CASE Archive \/ Register \/ Put \/ Finalize \/ UploadFails
    BY <1>1 DEF Archive, Register, Put, Finalize, UploadFails
<1>2. CASE Enqueue \/ EnqueueFails \/ FetchAborted
    BY <1>2 DEF Enqueue, EnqueueFails, FetchAborted
<1>3. CASE FarmTakes
    BY <1>3 DEF FarmTakes
<1>4. CASE Enqueued
    BY <1>4 DEF Enqueued
<1>5. CASE Answered
    BY <1>5 DEF Answered
<1>6. CASE WaitFails \/ PollAborted \/ Sleep
    BY <1>6 DEF WaitFails, PollAborted, Sleep
<1>7. CASE Decide
    BY <1>7 DEF Decide
<1>8. CASE Cancel
    BY <1>8 DEF Cancel
<1>9. CASE Abort \/ Deadline \/ RenderEnds \/ OthersRegister \/ UNCHANGED vars
    BY <1>9 DEF Abort, Deadline, RenderEnds, OthersRegister, vars
<1> QED
    BY <1>1, <1>2, <1>3, <1>4, <1>5, <1>6, <1>7, <1>8, <1>9 DEF Next, Call

\* A call settles by walking away through Cancel, or without it: before the
\* renderId, or from a wait that gave up nothing.
LEMMA AbandonStep ==
    TypeOK /\ WalkInv /\ CancelsWhatItAbandons /\ [Next]_vars => CancelsWhatItAbandons'
<1> SUFFICES ASSUME TypeOK, WalkInv, CancelsWhatItAbandons, [Next]_vars
             PROVE  CancelsWhatItAbandons'
    OBVIOUS
<1> USE DEF CancelsWhatItAbandons, WalkInv, Signaled, Terminal, Walkaways, Before, During,
            client, farm, Settles, abandon, Waiting
<1>1. CASE Archive \/ Register \/ Put \/ Finalize \/ UploadFails
    BY <1>1 DEF Archive, Register, Put, Finalize, UploadFails
<1>2. CASE Enqueue \/ EnqueueFails \/ FetchAborted
    BY <1>2 DEF Enqueue, EnqueueFails, FetchAborted
<1>3. CASE FarmTakes
    BY <1>3 DEF FarmTakes
<1>4. CASE Enqueued \/ Answered \/ WaitFails \/ PollAborted \/ Sleep
    BY <1>4 DEF Enqueued, Answered, WaitFails, PollAborted, Sleep
<1>5. CASE Decide
    BY <1>5 DEF Decide
<1>6. CASE Cancel
    BY <1>6 DEF Cancel, TypeOK
<1>7. CASE Abort \/ Deadline \/ RenderEnds \/ OthersRegister \/ UNCHANGED vars
    BY <1>7 DEF Abort, Deadline, RenderEnds, OthersRegister, vars
<1> QED
    BY <1>1, <1>2, <1>3, <1>4, <1>5, <1>6, <1>7 DEF Next, Call

(* The types, and with them that a renderId is known only of a render the    *)
(* farm has taken.                                                           *)
THEOREM ClientTypeCorrect == Spec => [](TypeOK /\ WalkInv)
<1>1. Init => TypeOK /\ WalkInv
    BY InitWalk
<1>2. TypeOK /\ WalkInv /\ [Next]_vars => (TypeOK /\ WalkInv)'
    BY TypeStep, WalkStep
<1> QED
    BY <1>1, <1>2, PTL DEF Spec

(* A call cancels the render it walks away from and no other, whatever is    *)
(* lost, refused or late, and however the caller's abort and the deadline    *)
(* fall between its awaits.                                                  *)
THEOREM CancelsWhatItAbandonsHolds == Spec => []CancelsWhatItAbandons
<1>1. Init => TypeOK /\ WalkInv /\ CancelsWhatItAbandons
    BY InitWalk
<1>2. TypeOK /\ WalkInv /\ CancelsWhatItAbandons /\ [Next]_vars
        => (TypeOK /\ WalkInv /\ CancelsWhatItAbandons)'
    BY TypeStep, WalkStep, AbandonStep
<1> QED
    BY <1>1, <1>2, PTL DEF Spec
=============================================================================
