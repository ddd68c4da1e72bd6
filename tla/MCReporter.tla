------------------------------ MODULE MCReporter ------------------------------
(***************************************************************************)
(* Two reporters that share nothing, checked side by side: SrReporter with *)
(* a buffer of a single chunk, whose capacity changes at any moment, and   *)
(* Paged with one of several chunks, on variables of its own, over a fair  *)
(* network.  paging says which of them moves in a behaviour.               *)
(***************************************************************************)
EXTENDS SrReporter

CONSTANTS PagedChunk, PagedPrios, PagedCapacities, PagedMaxSend

VARIABLES
    paging,
    news, gone, pages, room, resting, first, at, size, chunk, fresh, number,
    xid, tries, reached, pushedOut, answered

pagedVars == <<news, gone, pages, room, resting, first, at, size, chunk, fresh,
               number, xid, tries, reached, pushedOut, answered>>
allVars == <<paging, vars, pagedVars>>

Paged == INSTANCE SrReporter WITH
    Chunk <- PagedChunk, Prios <- PagedPrios, Capacities <- PagedCapacities,
    MaxSend <- PagedMaxSend,
    sent <- news, taken <- gone, mcb <- pages, cap <- room, sleeping <- resting,
    booting <- first, pc <- at, bsize <- size, data <- chunk, aggre <- fresh,
    count <- number, current <- xid, attempts <- tries, delivered <- reached,
    evicted <- pushedOut, acked <- answered

ASSUME PagedAssumption == Paged!ChunkAssumption /\ Paged!ReporterAssumption

AllInit == paging \in BOOLEAN /\ Init /\ Paged!Init

PlainStep == ~paging /\ Next /\ UNCHANGED <<paging, pagedVars>>
PagedStep == paging /\ Paged!Next /\ UNCHANGED <<paging, vars>>

(* The fairness of the paged reporter, in the behaviours in which it moves. *)
AllFairness ==
    /\ WF_pagedVars(paging /\ Paged!Reporter)
    /\ SF_pagedVars(paging /\ Paged!TakeNews)
    /\ SF_pagedVars(paging /\ Paged!PostOk)

AllSpec == AllInit /\ [][PlainStep \/ PagedStep]_allVars /\ AllFairness

-----------------------------------------------------------------------------
(* A buffer of several chunks that never had to push a message out has     *)
(* lost none, whatever the network did, and what was answered is not sent  *)
(* again (src/srreporter.cc 760-801).                                      *)
PagedKeepsTheUnread == Paged!LosesNothingUntilFull /\ Paged!NoResendAfterAck

(* The server reads every message with the template it was written for,    *)
(* also after evictions, chunk by chunk, and when it is retried; and the   *)
(* backward search of pop_front() finds a header in every chunk that it    *)
(* removes (src/srreporter.cc 403-452, 547-606).                           *)
PagedRightTemplate == Paged!RightTemplate /\ Paged!HeaderFound

(* The server reads the messages for the first time in the order they were *)
(* sent (src/srreporter.cc 756-785).                                       *)
PagedFirstReadInOrder == Paged!FirstReadInOrder

(* A reporter that is not put to sleep for good always drains queue and    *)
(* buffer again (src/srreporter.cc 694-805).                               *)
PagedDrained == paging => Paged!Drained
=============================================================================
