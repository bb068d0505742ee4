-------------------------- MODULE BobserverSchedule --------------------------
(***************************************************************************)
(* The producer ("bobserver") schedule engine of sigmaengine:              *)
(* update_bobserver_schedule / update_bobserver_schedule4 in               *)
(* src/libraries/chain/bobserver_schedule.cpp, driven once per block by    *)
(* the block pipeline.                                                     *)
(*                                                                         *)
(* Account names are positive integers so that the name order of the      *)
(* by_vote_name index is the integer order; the empty name                 *)
(* account_name_type() is 0.  A signing key is abstracted to whether it is *)
(* the null key.  The xorshift value k of the shuffle is abstracted to its *)
(* only use, the offset k % jmax, which ranges over 0 .. jmax-1.           *)
(***************************************************************************)
EXTENDS Integers, Sequences, FiniteSets, SequencesExt

CONSTANTS
    Producers,          \* names of the bobserver objects
    NumSlots,           \* SIGMAENGINE_NUM_BOBSERVERS
    MaxVoted,           \* bobserver_schedule_object::max_voted_bobservers
    HardforkRequired,   \* bobserver_schedule_object::hardfork_required_bobservers
    Votes,              \* values of bobserver_object::votes
    Versions,           \* values of running_version (ordered by v_num)
    HfVotes,            \* <<hardfork_version_vote, hardfork_time_vote>> pairs
    InitMiner,          \* SIGMAENGINE_INIT_MINER_NAME
    MaxBlock            \* bound on the head block number (state constraint)

Empty == 0

ASSUME /\ Producers \subseteq Nat \ {Empty}
       /\ InitMiner \in Producers
       /\ MaxVoted \in 1..NumSlots
       /\ HardforkRequired \in Nat \ {0}
       /\ HfVotes \subseteq (Nat \X Nat)

VARIABLES
    bobservers,         \* bobserver_index: name -> the fields the engine reads
    shuffled,           \* current_shuffled_bobservers, 1..NumSlots -> name
    numScheduled,       \* num_scheduled_bobservers
    nextShuffleBlockNum,\* next_shuffle_block_num
    majorityVersion,    \* majority_version
    hfp,                \* hardfork_property_object
    shutdownVops,       \* shutdown_bobserver_operation's of the last update
    headBlockNum        \* dynamic_global_property_object::head_block_number

vars == <<bobservers, shuffled, numScheduled, nextShuffleBlockNum,
          majorityVersion, hfp, shutdownVops, headBlockNum>>

BobserverRec == [votes : Votes, keyed : BOOLEAN, running : Versions,
                 hfVote : HfVotes, excepted : BOOLEAN]
HfpRec == [current : {v[1] : v \in HfVotes}, next : {v[1] : v \in HfVotes},
           nextTime : {v[2] : v \in HfVotes}]
Name == Producers \cup {Empty}

GenesisHfVote == CHOOSE v \in HfVotes : \A w \in HfVotes : v[1] <= w[1]

(***************************************************************************)
(* Genesis state of the chain (database::init_genesis): every producer     *)
(* starts with the lowest version and the genesis hardfork vote; the init *)
(* miner is the only scheduled producer.                                   *)
(***************************************************************************)
Init ==
    /\ bobservers = [p \in Producers |->
                        [votes |-> CHOOSE v \in Votes : \A w \in Votes : v <= w,
                         keyed |-> TRUE,
                         running |-> CHOOSE v \in Versions : \A w \in Versions : v <= w,
                         hfVote |-> GenesisHfVote,
                         excepted |-> FALSE]]
    /\ shuffled = [i \in 1..NumSlots |-> IF i = 1 THEN InitMiner ELSE Empty]
    /\ numScheduled = 1
    /\ nextShuffleBlockNum = 1
    /\ majorityVersion = CHOOSE v \in Versions : \A w \in Versions : v <= w
    /\ hfp = [current |-> GenesisHfVote[1], next |-> GenesisHfVote[1],
              nextTime |-> GenesisHfVote[2]]
    /\ shutdownVops = {}
    /\ headBlockNum = 0

-----------------------------------------------------------------------------
(* The producer operations a block's transactions carry before the        *)
(* schedule update at its end (bobserver update, vote and except          *)
(* operations): the table unchanged, or one field of one producer set.    *)
(* One producer operation per block is the model's bound on them.         *)

ProducerOps(bs) ==
    {bs} \cup
    UNION {{[bs EXCEPT ![p].votes = v] : v \in Votes} \cup
           {[bs EXCEPT ![p].keyed = k] : k \in BOOLEAN} \cup
           {[bs EXCEPT ![p].running = v] : v \in Versions} \cup
           {[bs EXCEPT ![p].hfVote = v] : v \in HfVotes} \cup
           {[bs EXCEPT ![p].excepted = e] : e \in BOOLEAN} : p \in Producers}

-----------------------------------------------------------------------------
(* update_bobserver_schedule4                                              *)

\* Lines 23-32: every excepted producer still holding a key loses it.
ShutdownSet(bs) == {p \in Producers : bs[p].excepted /\ bs[p].keyed}
ClearExcepted(bs) ==
    [p \in Producers |-> IF p \in ShutdownSet(bs)
                         THEN [bs[p] EXCEPT !.keyed = FALSE] ELSE bs[p]]

\* Order of the by_vote_name index: votes descending, then name ascending.
VoteNameBefore(bs, a, b) ==
    \/ bs[a].votes > bs[b].votes
    \/ bs[a].votes = bs[b].votes /\ a < b

\* std::tuple order of <<hardfork_version, time_point_sec>>.
HfVoteBefore(a, b) == a[1] < b[1] \/ (a[1] = b[1] /\ a[2] < b[2])

\* The producer names, the versions and the hardfork votes as sequences.
ProducerSeq == SetToSortSeq(Producers, <)
VersionsDescending == SetToSortSeq(Versions, >)
HfVoteSeq == SetToSortSeq(HfVotes, LAMBDA a, b : HfVoteBefore(a, b))

\* Lines 34-43: walk by_vote_name, skip null keys, stop at max_voted.
ActiveBobservers(bs) ==
    LET ranked == SortSeq(ProducerSeq, LAMBDA a, b : VoteNameBefore(bs, a, b))
        keyed  == SelectSeq(ranked, LAMBDA p : bs[p].keyed)
    IN  SubSeq(keyed, 1, IF Len(keyed) < MaxVoted THEN Len(keyed) ELSE MaxVoted)

\* db.get_bobserver throws for a name with no bobserver object.
PrevScheduleResolvable == \A i \in 1..numScheduled : shuffled[i] \in Producers

\* Number of previously scheduled producers whose field has value v.
Tally(bs, field, v) ==
    Cardinality({i \in 1..numScheduled : bs[shuffled[i]][field] = v})

\* The cumulative walk of lines 78-93 over the version sequence vs.
RECURSIVE VersionWalk(_, _, _)
VersionWalk(bs, vs, acc) ==
    IF vs = <<>> THEN majorityVersion
    ELSE LET v == Head(vs)
             n == acc + Tally(bs, "running", v)
         IN  IF n >= HardforkRequired THEN v ELSE VersionWalk(bs, Tail(vs), n)

\* Mutant: the version histogram walked from the lowest version up.
NewMajorityVersionAscending(bs) ==
    LET seen == {bs[shuffled[i]].running : i \in 1..numScheduled}
    IN  VersionWalk(bs, SelectSeq(Reverse(VersionsDescending),
                                  LAMBDA v : v \in seen), 0)

\* Lines 78-93: versions in descending order, cumulative count, first one
\* that reaches hardfork_required_bobservers; otherwise the old value.
NewMajorityVersion(bs) ==
    LET seen == {bs[shuffled[i]].running : i \in 1..numScheduled}
    IN  VersionWalk(bs, SelectSeq(VersionsDescending, LAMBDA v : v \in seen), 0)

\* Mutant: the "no longer have a majority" reset of lines 117-124 dropped.
NewHfpNoReset(bs) ==
    LET seen    == {bs[shuffled[i]].hfVote : i \in 1..numScheduled}
        winners == SelectSeq(SelectSeq(HfVoteSeq, LAMBDA v : v \in seen),
                             LAMBDA v : Tally(bs, "hfVote", v)
                                          >= HardforkRequired)
    IN  IF winners = <<>> THEN hfp
        ELSE [hfp EXCEPT !.next = winners[1][1], !.nextTime = winners[1][2]]

\* Lines 95-124: the first (version, time) pair in tuple order with enough
\* votes becomes next_hardfork; with none, next_hardfork falls back to the
\* current version and next_hardfork_time is left as it was.
NewHfp(bs) ==
    LET seen    == {bs[shuffled[i]].hfVote : i \in 1..numScheduled}
        winners == SelectSeq(SelectSeq(HfVoteSeq, LAMBDA v : v \in seen),
                             LAMBDA v : Tally(bs, "hfVote", v)
                                          >= HardforkRequired)
    IN  IF winners = <<>> THEN [hfp EXCEPT !.next = hfp.current]
        ELSE [hfp EXCEPT !.next = winners[1][1], !.nextTime = winners[1][2]]

\* Mutant: j drawn from i .. n instead of i .. n-1 (k % (jmax + 1)).
ShuffleOffsetsPastEnd(n) ==
    {o \in [1..n -> 0..NumSlots] : \A i \in 1..n : o[i] <= n - i + 1}

\* Lines 144-158: offsets k % jmax the xorshift generator can produce.
ShuffleOffsets(n) ==
    {o \in [1..n -> 0..NumSlots] : \A i \in 1..n : o[i] < n - i + 1}

\* Lines 144-158: for each slot i, swap with slot i + offset.
RECURSIVE Shuffle(_, _, _, _)
Shuffle(arr, i, n, o) ==
    IF i > n THEN arr
    ELSE LET j == i + o[i]
         IN  Shuffle([arr EXCEPT ![i] = arr[j], ![j] = arr[i]], i + 1, n, o)

\* Lines 130-140: write the active list and zero-fill the trailing slots.
SlotArray(active) ==
    [i \in 1..NumSlots |-> IF i <= Len(active) THEN active[i] ELSE Empty]

\* Mutant: the max< uint8_t >( size, 1 ) floor of line 140 dropped.
UpdateBobserverSchedule4NoFloor(bs0, newHead) ==
    LET bs     == ClearExcepted(bs0)
        active == ActiveBobservers(bs)
        n      == Len(active)
    IN  /\ PrevScheduleResolvable
        /\ \E o \in ShuffleOffsets(n) :
              shuffled' = Shuffle(SlotArray(active), 1, n, o)
        /\ bobservers' = bs
        /\ shutdownVops' = ShutdownSet(bs0)
        /\ numScheduled' = n
        /\ nextShuffleBlockNum' = newHead + n
        /\ majorityVersion' = NewMajorityVersion(bs)
        /\ hfp' = NewHfp(bs)

\* update_bobserver_schedule4 run on the new head block, with no failure.
UpdateBobserverSchedule4(bs0, newHead) ==
    LET bs     == ClearExcepted(bs0)
        active == ActiveBobservers(bs)
        n      == IF Len(active) > 1 THEN Len(active) ELSE 1
    IN  /\ PrevScheduleResolvable
        /\ \E o \in ShuffleOffsets(n) :
              shuffled' = Shuffle(SlotArray(active), 1, n, o)
        /\ bobservers' = bs
        /\ shutdownVops' = ShutdownSet(bs0)
        /\ numScheduled' = n
        /\ nextShuffleBlockNum' = newHead + n
        /\ majorityVersion' = NewMajorityVersion(bs)
        /\ hfp' = NewHfp(bs)

-----------------------------------------------------------------------------
(* One block of the pipeline, as far as the schedule is concerned.  Block  *)
(* validation (database.cpp, not in the tree) accepts a block only when    *)
(* it is signed with the signing key of the producer that                  *)
(* get_scheduled_bobserver (database.hpp:254) gives for its slot.  Slots   *)
(* may be missed, so the next block may come from any scheduled producer; *)
(* with none holding a key no block is accepted and the chain stops.      *)
(* Then the head advances and, every NumSlots blocks,                      *)
(* update_bobserver_schedule runs.                                         *)
ScheduledSigners ==
    {shuffled[i] : i \in 1..numScheduled} \cap {p \in Producers : bobservers[p].keyed}

ApplyBlock ==
    /\ ScheduledSigners # {}
    /\ (headBlockNum + 1) % NumSlots # 0
    /\ bobservers' \in ProducerOps(bobservers)
    /\ headBlockNum' = headBlockNum + 1
    /\ UNCHANGED <<shuffled, numScheduled, nextShuffleBlockNum,
                   majorityVersion, hfp, shutdownVops>>

ApplyShuffleBlock ==
    /\ ScheduledSigners # {}
    /\ (headBlockNum + 1) % NumSlots = 0
    /\ \E bs0 \in ProducerOps(bobservers) :
          UpdateBobserverSchedule4(bs0, headBlockNum + 1)
    /\ headBlockNum' = headBlockNum + 1

Next ==
    \/ ApplyBlock
    \/ ApplyShuffleBlock
Spec == Init /\ [][Next]_vars

-----------------------------------------------------------------------------
(* Properties                                                              *)

\* The bound on the head block number, used as a state constraint.
BlockBound == headBlockNum <= MaxBlock

(* Every field of the producer table, schedule and hardfork property      *)
(* holds a value of its type; num_scheduled_bobservers stays within the     *)
(* slot array, as the max<uint8_t>(n, 1) floor of update_bobserver_schedule4 *)
(* requires.                                                               *)
TypeOK ==
    /\ bobservers \in [Producers -> BobserverRec]
    /\ shuffled \in [1..NumSlots -> Name]
    /\ numScheduled \in 1..NumSlots
    /\ nextShuffleBlockNum \in Nat \ {0}
    /\ majorityVersion \in Versions
    /\ hfp \in HfpRec
    /\ shutdownVops \subseteq Producers
    /\ headBlockNum \in Nat

\* A step that ran update_bobserver_schedule4 to completion.
IsScheduleUpdate ==
    headBlockNum' # headBlockNum /\ headBlockNum' % NumSlots = 0

\* Producers the schedule may pick: a live key and not excepted.
Eligible(bs) == {p \in Producers : bs[p].keyed /\ ~bs[p].excepted}

\* Rank by vote weight descending, name ascending on ties (spec 4.6 step 2).
Outranks(bs, a, b) ==
    bs[a].votes > bs[b].votes \/ (bs[a].votes = bs[b].votes /\ a < b)

TopEligible(bs) ==
    LET E == Eligible(bs)
        k == IF Cardinality(E) < MaxVoted THEN Cardinality(E) ELSE MaxVoted
    IN  CHOOSE T \in SUBSET E :
            /\ Cardinality(T) = k
            /\ \A a \in T, b \in E \ T : Outranks(bs, a, b)

(***************************************************************************)
(* Every schedule update (update_bobserver_schedule4, the selection loop,  *)
(* the exception clearing and the shuffle together) leaves in the first    *)
(* num_scheduled slots exactly the MaxVoted best-ranked producers that     *)
(* were eligible, each once, and only empty names after them; when no      *)
(* producer is eligible it leaves one empty slot.                          *)
(***************************************************************************)
ScheduleIsTopEligible ==
    [][IsScheduleUpdate =>
        LET n == numScheduled'
        IN  /\ \A i, j \in 1..n : i # j => shuffled'[i] # shuffled'[j]
            /\ \A i \in (n + 1)..NumSlots : shuffled'[i] = Empty
            /\ IF Eligible(bobservers') = {}
               THEN n = 1 /\ shuffled'[1] = Empty
               ELSE /\ {shuffled'[i] : i \in 1..n} = TopEligible(bobservers')
                    /\ n = Cardinality(TopEligible(bobservers'))]_vars

(***************************************************************************)
(* The majority version written by a schedule update is the highest       *)
(* version that at least hardfork_required_bobservers producers of the    *)
(* previous schedule run or exceed (the cumulative walk of lines 78-93);   *)
(* with no such version it keeps its old value.                            *)
(***************************************************************************)
MajorityVersionIsHighestSupported ==
    [][IsScheduleUpdate =>
        LET support(v) == Cardinality({i \in 1..numScheduled :
                                         bobservers'[shuffled[i]].running >= v})
            ok == {v \in Versions : support(v) >= HardforkRequired}
        IN  majorityVersion' = IF ok = {} THEN majorityVersion ELSE Max(ok)]_vars

(***************************************************************************)
(* After a schedule update a hardfork is pending (next_hardfork and its    *)
(* time) only if enough producers of the previous schedule voted for that  *)
(* exact (version, time) pair, the least such pair if several; otherwise   *)
(* next_hardfork is reset to the current version (lines 95-124).          *)
(***************************************************************************)
HardforkFollowsSupermajority ==
    [][IsScheduleUpdate =>
        LET votes(v) == Cardinality({i \in 1..numScheduled :
                                       bobservers'[shuffled[i]].hfVote = v})
            win == {v \in HfVotes : votes(v) >= HardforkRequired}
        IN  IF win = {}
            THEN hfp'.next = hfp.current /\ hfp'.nextTime = hfp.nextTime
            ELSE \E w \in win :
                    /\ \A x \in win : w[1] < x[1] \/ (w[1] = x[1] /\ w[2] <= x[2])
                    /\ hfp'.next = w[1] /\ hfp'.nextTime = w[2]]_vars

=============================================================================
