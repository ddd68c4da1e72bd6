--------------------------- MODULE MCReporterProof ---------------------------
(***************************************************************************)
(* What SrReporterProof proves of a reporter, for the two reporters of     *)
(* MCReporter side by side: whichever of them moves.                       *)
(***************************************************************************)
EXTENDS MCReporter, SrReporterProof

PagedProof == INSTANCE SrReporterProof WITH
    Chunk <- PagedChunk, Prios <- PagedPrios, Capacities <- PagedCapacities,
    MaxSend <- PagedMaxSend,
    sent <- news, taken <- gone, mcb <- pages, cap <- room, sleeping <- resting,
    booting <- first, pc <- at, bsize <- size, data <- chunk, aggre <- fresh,
    count <- number, current <- xid, attempts <- tries, delivered <- reached,
    evicted <- pushedOut, acked <- answered

-----------------------------------------------------------------------------
(* PagedProof speaks of the reporter Paged. *)

LEMMA PagedAssumed == PagedProof!ChunkAssumption /\ PagedProof!ReporterAssumption
BY PagedAssumption DEF Paged!ChunkAssumption, Paged!ReporterAssumption,
   PagedProof!ChunkAssumption, PagedProof!ReporterAssumption

LEMMA PagedInitIs == Paged!Init => PagedProof!Init
BY DEF Paged!Init, PagedProof!Init

LEMMA PagedReadIs ==
    ASSUME NEW lines
    PROVE  Paged!Read(lines) = PagedProof!Read(lines)
BY DEF Paged!Read, PagedProof!Read, Paged!Template, PagedProof!Template,
   Paged!IsHeader, PagedProof!IsHeader, Paged!Max, PagedProof!Max

LEMMA PagedIdsIs ==
    ASSUME NEW lines
    PROVE  Paged!Ids(lines) = PagedProof!Ids(lines)
BY DEF Paged!Ids, PagedProof!Ids

LEMMA PagedFrontIs ==
    ASSUME NEW m
    PROVE  /\ Paged!BSize(m) = PagedProof!BSize(m) /\ Paged!Front(m) = PagedProof!Front(m)
           /\ Paged!PopFrontDefined(m) = PagedProof!PopFrontDefined(m)
           /\ Paged!PopFront(m) = PagedProof!PopFront(m)
BY DEF Paged!BSize, PagedProof!BSize, Paged!Front, PagedProof!Front,
   Paged!PopFrontDefined, PagedProof!PopFrontDefined, Paged!PopFront, PagedProof!PopFront,
   Paged!HeadersIn, PagedProof!HeadersIn, Paged!IsHeader, PagedProof!IsHeader,
   Paged!Max, PagedProof!Max

LEMMA PagedBufferedIs ==
    ASSUME NEW m, NEW c, NEW header, NEW line
    PROVE  Paged!Buffered(m, c, header, line) = PagedProof!Buffered(m, c, header, line)
BY DEF Paged!Buffered, PagedProof!Buffered, Paged!EmplaceBack, PagedProof!EmplaceBack,
   Paged!MakeRoom, PagedProof!MakeRoom, Paged!IsHeader, PagedProof!IsHeader

LEMMA PagedAgentIs == Paged!Agent => PagedProof!Agent
BY DEF Paged!Agent, PagedProof!Agent, Paged!Send, PagedProof!Send,
   Paged!SetSleeping, PagedProof!SetSleeping, Paged!SetCapacity, PagedProof!SetCapacity

LEMMA PagedReporterIs == Paged!Reporter => PagedProof!Reporter
<1>1. Paged!Prefetch => PagedProof!Prefetch
  BY PagedFrontIs DEF Paged!Prefetch, PagedProof!Prefetch, Paged!agentVars, PagedProof!agentVars
<1>2. Paged!TakeNews => PagedProof!TakeNews
  BY PagedBufferedIs, PagedIdsIs DEF Paged!TakeNews, PagedProof!TakeNews,
     Paged!agentVars, PagedProof!agentVars, Paged!Header, PagedProof!Header,
     Paged!Line, PagedProof!Line
<1>3. Paged!EndAggregate => PagedProof!EndAggregate
  BY DEF Paged!EndAggregate, PagedProof!EndAggregate, Paged!Request, PagedProof!Request,
     Paged!agentVars, PagedProof!agentVars
<1>4. Paged!PostOk => PagedProof!PostOk
  BY PagedReadIs, PagedIdsIs, PagedFrontIs DEF Paged!PostOk, PagedProof!PostOk,
     Paged!Success, PagedProof!Success, Paged!agentVars, PagedProof!agentVars
<1>5. Paged!PostFails => PagedProof!PostFails
  BY PagedReadIs DEF Paged!PostFails, PagedProof!PostFails, Paged!agentVars, PagedProof!agentVars
<1> QED
  BY <1>1, <1>2, <1>3, <1>4, <1>5 DEF Paged!Reporter, PagedProof!Reporter

LEMMA PagedStepIs ==
    ASSUME [PlainStep \/ PagedStep]_allVars
    PROVE  [PagedProof!Next]_(PagedProof!vars)
<1>1. CASE PagedStep
  BY <1>1, PagedAgentIs, PagedReporterIs DEF PagedStep, Paged!Next, PagedProof!Next
<1>2. CASE UNCHANGED pagedVars
  BY <1>2 DEF pagedVars, PagedProof!vars
<1> QED
  BY <1>1, <1>2 DEF PlainStep, allVars

-----------------------------------------------------------------------------
(* The same steps for the reporter whose capacity changes. *)

LEMMA PlainStepIs ==
    ASSUME [PlainStep \/ PagedStep]_allVars
    PROVE  [Next]_vars
BY DEF PlainStep, PagedStep, allVars

(* What is in force at the start is, of both. *)
LEMMA PartsInit == AllInit => Init /\ PagedProof!Init
BY PagedInitIs DEF AllInit

(* A buffer of several chunks that never had to push a message out has     *)
(* lost none, and what was answered is not sent again, whatever the        *)
(* network did (src/srreporter.cc 760-801).                                *)
THEOREM PagedNothingIsLost == AllSpec => []PagedKeepsTheUnread
<1>1. AllInit => PagedProof!LossInv /\ PagedProof!ResendInv
  BY PartsInit, PagedAssumed, PagedProof!LossInit, PagedProof!ResendInit
<1>2. PagedProof!LossInv /\ PagedProof!ResendInv /\ [PlainStep \/ PagedStep]_allVars
        => (PagedProof!LossInv /\ PagedProof!ResendInv)'
  BY PagedStepIs, PagedAssumed, PagedProof!LossNext, PagedProof!ResendNext
<1>3. PagedProof!LossInv /\ PagedProof!ResendInv => PagedKeepsTheUnread
  <2> SUFFICES ASSUME PagedProof!LossInv, PagedProof!ResendInv PROVE PagedKeepsTheUnread
    OBVIOUS
  <2>1. PagedProof!LosesNothingUntilFull /\ PagedProof!NoResendAfterAck
    BY DEF PagedProof!LossInv, PagedProof!ResendInv, PagedProof!NoResendAfterAck
  <2> QED
    BY <2>1, PagedIdsIs DEF PagedKeepsTheUnread,
       Paged!LosesNothingUntilFull, PagedProof!LosesNothingUntilFull,
       Paged!LostOnlyByEviction, PagedProof!LostOnlyByEviction,
       Paged!NoResendAfterAck, PagedProof!NoResendAfterAck,
       Paged!DeliveredIds, PagedProof!DeliveredIds
<1> QED
  BY <1>1, <1>2, <1>3, PTL DEF AllSpec

(* The server reads every message with its template, also after evictions, *)
(* chunk by chunk and when a post is repeated, as long as all messages are *)
(* buffered and no capacity is below 3 (src/srreporter.cc 403-452,         *)
(* 547-606).                                                               *)
THEOREM PagedTemplatesAreRight ==
    ASSUME PagedPrios \subseteq {TRUE}, \A c \in PagedCapacities : c >= 3
    PROVE  AllSpec => []PagedRightTemplate
<1>0. PagedProof!AllBuffered
  BY DEF PagedProof!AllBuffered
<1>1. AllInit => PagedProof!TemplateInv
  BY PartsInit, PagedAssumed, PagedProof!TemplateInit
<1>2. PagedProof!TemplateInv /\ [PlainStep \/ PagedStep]_allVars => PagedProof!TemplateInv'
  BY <1>0, PagedStepIs, PagedAssumed, PagedProof!TemplateNext
<1>3. PagedProof!TemplateInv => PagedRightTemplate
  BY DEF PagedRightTemplate, PagedProof!TemplateInv,
     Paged!RightTemplate, PagedProof!RightTemplate, Paged!HeaderFound, PagedProof!HeaderFound
<1> QED
  BY <1>1, <1>2, <1>3, PTL DEF AllSpec

(* A step of the paged reporter reads, for the first time, later messages. *)
PagedOrdered ==
    \A i \in {d[1] : d \in reached'} \ Paged!DeliveredIds :
        \A j \in Paged!DeliveredIds : j < i

(* The server reads the messages for the first time in the order they were *)
(* sent (src/srreporter.cc 756-785).                                       *)
THEOREM PagedFirstReadsAreInOrder == AllSpec => PagedFirstReadInOrder
<1>1. AllInit => PagedProof!OrderInv
  BY PartsInit, PagedAssumed, PagedProof!OrderInit
<1>2. PagedProof!OrderInv /\ [PlainStep \/ PagedStep]_allVars => PagedProof!OrderInv'
  BY PagedStepIs, PagedAssumed, PagedProof!OrderNext
<1>3. PagedProof!OrderInv /\ [PlainStep \/ PagedStep]_allVars
        => [PagedOrdered]_(Paged!vars)
  BY PagedStepIs, PagedAssumed, PagedProof!OrderedStep
     DEF Paged!vars, PagedProof!vars, Paged!DeliveredIds, PagedProof!DeliveredIds,
         PagedOrdered, PagedProof!Ordered
<1> QED
  BY <1>1, <1>2, <1>3, PTL DEF AllSpec, PagedFirstReadInOrder, Paged!FirstReadInOrder,
     PagedOrdered

(* A buffer of a single chunk loses a message only by eviction             *)
(* (include/srtypes.h 70-73).                                              *)
THEOREM PlainLosesOnlyByEviction == OneChunk => (AllSpec => []LostOnlyByEviction)
<1> SUFFICES ASSUME OneChunk PROVE AllSpec => []LostOnlyByEviction
  OBVIOUS
<1>1. AllInit => OneChunkInv
  BY PartsInit, OneChunkInit
<1>2. OneChunkInv /\ [PlainStep \/ PagedStep]_allVars => OneChunkInv'
  BY PlainStepIs, OneChunkNext
<1>3. OneChunkInv => LostOnlyByEviction
  BY DEF OneChunkInv
<1> QED
  BY <1>1, <1>2, <1>3, PTL DEF AllSpec

(* And its buffer never grows beyond its capacity, also after              *)
(* setCapacity() has made it smaller than what it holds.                   *)
THEOREM PlainCapacityRespected == AllSpec => GrowsWithinCapacity
<1>1. AllInit => IInv
  BY PartsInit, IInvInit
<1>2. IInv /\ [PlainStep \/ PagedStep]_allVars => IInv'
  BY PlainStepIs, IInvNext
<1>3. IInv /\ [PlainStep \/ PagedStep]_allVars => [Growth]_vars
  BY PlainStepIs, GrowthStep
<1> QED
  BY <1>1, <1>2, <1>3, PTL DEF AllSpec, GrowsWithinCapacity, Growth
=============================================================================
