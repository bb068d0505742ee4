--------------------------- MODULE BobserverQueries ---------------------------
(***************************************************************************)
(* The database_api queries over the producer table and the schedule     *)
(* (app/database_api.cpp), as operators on the state of BobserverSchedule. *)
(* A wallet lists the producers a page at a time: get_bobservers_by_vote   *)
(* walks the by_vote_name index from a named producer, and                 *)
(* lookup_bobserver_accounts collects the names from a lower bound.  The   *)
(* next page starts at the last name of the previous one, which both      *)
(* queries return again.  The empty string is the empty name Empty.       *)
(***************************************************************************)
EXTENDS BobserverSchedule

\* The limits the two queries assert.
ByVoteLimitMax == 100
LookupLimitMax == 1000

(* bobserver_api_obj: a producer as the queries return it, with the       *)
(* modelled fields copied; the signing key is whether it is the null key. *)
BobserverApiObj(bs, p) ==
    [account |-> p, votes |-> bs[p].votes, signing_key_null |-> ~bs[p].keyed,
     running_version |-> bs[p].running,
     hardfork_version_vote |-> bs[p].hfVote[1],
     hardfork_time_vote |-> bs[p].hfVote[2], is_excepted |-> bs[p].excepted]

\* The producer table in by_vote_name order.
VoteOrder(bs) == SortSeq(ProducerSeq, LAMBDA a, b : VoteNameBefore(bs, a, b))

\* get_bobserver_by_account: the name_idx.find the by_vote query asserts.
GetBobserverByAccount(name) == name \in Producers

(* get_bobservers_by_vote: begin() for an empty from, else iterator_to    *)
(* the named producer; then push while fewer than limit were pushed and   *)
(* the producer has votes.                                                  *)
ByVoteAccepts(from, limit) ==
    limit <= ByVoteLimitMax /\ (from = Empty \/ GetBobserverByAccount(from))

\* Mutant: the walk starts one past the named producer.
GetBobserversByVoteAfterFrom(from, limit) ==
    LET order == VoteOrder(bobservers)
        start == IF from = Empty THEN 1 ELSE SelectInSeq(order, LAMBDA p : p = from) + 1
        scan  == SubSeq(order, start, Len(order))
        stop  == SelectInSeq(scan, LAMBDA p : bobservers[p].votes <= 0)
        voted == IF stop = 0 THEN scan ELSE SubSeq(scan, 1, stop - 1)
        kept  == SubSeq(voted, 1, IF Len(voted) < limit THEN Len(voted) ELSE limit)
    IN  [i \in DOMAIN kept |-> BobserverApiObj(bobservers, kept[i])]

GetBobserversByVote(from, limit) ==
    LET order == VoteOrder(bobservers)
        start == IF from = Empty THEN 1 ELSE SelectInSeq(order, LAMBDA p : p = from)
        scan  == SubSeq(order, start, Len(order))
        stop  == SelectInSeq(scan, LAMBDA p : bobservers[p].votes <= 0)
        voted == IF stop = 0 THEN scan ELSE SubSeq(scan, 1, stop - 1)
        kept  == SubSeq(voted, 1, IF Len(voted) < limit THEN Len(voted) ELSE limit)
    IN  [i \in DOMAIN kept |-> BobserverApiObj(bobservers, kept[i])]

(* lookup_bobserver_accounts: the names of the producers not excepted and *)
(* not below lower_bound_name, cut after the first limit in name order.   *)
LookupBobserverAccounts(lowerBound, limit) ==
    LET names == SetToSortSeq({p \in Producers : ~bobservers[p].excepted
                                                 /\ p >= lowerBound}, <)
    IN  ToSet(SubSeq(names, 1, IF Len(names) < limit THEN Len(names) ELSE limit))

-----------------------------------------------------------------------------
(* A wallet's paging: the first page from the empty name, each next page  *)
(* from the last name returned, dropping that name; it stops at a page   *)
(* shorter than the limit.  fuel bounds the recursion by the table size.  *)
RECURSIVE ByVotePages(_, _, _, _)
ByVotePages(from, limit, acc, fuel) ==
    LET objs == GetBobserversByVote(from, limit)
        page == [i \in DOMAIN objs |-> objs[i].account]
        new  == IF from = Empty \/ page = <<>> THEN page ELSE Tail(page)
    IN  IF fuel = 0 \/ Len(page) < limit \/ new = <<>>
        THEN acc \o new
        ELSE ByVotePages(page[Len(page)], limit, acc \o new, fuel - 1)

RECURSIVE LookupPages(_, _, _, _)
LookupPages(lowerBound, limit, acc, fuel) ==
    LET page == LookupBobserverAccounts(lowerBound, limit)
    IN  IF fuel = 0 \/ Cardinality(page) < limit \/ page \subseteq acc
        THEN acc \cup page
        ELSE LookupPages(Max(page), limit, acc \cup page, fuel - 1)

PageLimits == 2..3

(* Paging through the producer lists shows every producer once: paging    *)
(* get_bobservers_by_vote lists, in by_vote_name order and each once, the  *)
(* producers with votes, and paging lookup_bobserver_accounts lists the   *)
(* producers that are not excepted, whatever the votes, keys and          *)
(* exception flags the producer operations and the schedule updates have  *)
(* left in the table.                                                      *)
ProducerListsPageCompletely ==
    \A limit \in PageLimits :
       /\ ByVoteAccepts(Empty, limit)
       /\ ByVotePages(Empty, limit, <<>>, Cardinality(Producers)) =
             SelectSeq(VoteOrder(bobservers), LAMBDA p : bobservers[p].votes > 0)
       /\ limit <= LookupLimitMax
       /\ LookupPages(Empty, limit, {}, Cardinality(Producers)) =
             {p \in Producers : ~bobservers[p].excepted}

=============================================================================
