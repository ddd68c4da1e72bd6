----------------------------- MODULE SrFilePager -----------------------------
(***************************************************************************)
(* _BFPager (src/srreporter.cc): the file backed request buffer.  Blocks   *)
(* of requests lie in fixed pages of one file; pcb lists the pages in      *)
(* order, and a run of pages of equal flags is what is sent in one go.     *)
(* The list is also kept in a second file, the index, which is rewritten   *)
(* at every change.                                                        *)
(*                                                                         *)
(* An operation changes the memory and leaves the file operations it makes *)
(* in todo, in their order: one is done per step, and the process may be   *)
(* killed between two.  A partial page goes through the buffer of an       *)
(* ofstream, which may reach the file only when the stream is destroyed,   *)
(* that is after the index; a full page is written at once.  The write of  *)
(* a page may fail.                                                        *)
(*                                                                         *)
(* The byte <<n, k>> is the kth byte of the nth block.  want is what a     *)
(* reader should find: a sequence of bytes per run.                        *)
(***************************************************************************)
EXTENDS Integers, Sequences, SequencesExt

CONSTANTS
    PageSize,     \* SR_FILEBUF_PAGE_SIZE
    Lengths,      \* the lengths of the blocks
    InitCap,      \* the capacity given to the constructor, in pages
    NewCaps,      \* the capacities given to setCapacity
    GrowInside,   \* whether it may raise the capacity inside an operation
    CrashInside,  \* whether the process may be killed inside an operation
    MaxBlocks,    \* bound: how many blocks are buffered
    MaxCrashes,   \* bound: how often the process is killed
    MaxFailures,  \* bound: how often the write of a page fails
    Hole          \* a byte nobody wrote

Capacities == {InitCap} \cup NewCaps

(* A block larger than the buffer would evict its own pages. *)
FilePagerAssumption ==
    /\ PageSize \in Nat \ {0}
    /\ Lengths \subseteq Nat \ {0}
    /\ Capacities \subseteq Nat \ {0} /\ \A c \in Capacities : c <= 65535
    /\ \A n \in Lengths, c \in Capacities : n <= c * PageSize
    /\ MaxBlocks \in Nat /\ MaxCrashes \in Nat /\ MaxFailures \in Nat

VARIABLES
    cap,      \* the capacity
    pcb,      \* the pages in use, in order: index, offset of the last byte, flag
    used,     \* the pages whose uflag is set
    uflen,    \* uflag.size()
    head,     \* size and cnt: the numbers of pages and of runs
    file,     \* the pages' file: its bytes and its length
    index,    \* the index file: a head and a pcb
    todo,     \* the file operations the current call still has to make
    pc,       \* idle, push (inside push_back), or restarted
    block,    \* the block of push_back()
    placed,   \* how many of its bytes push_back() has placed
    flag,     \* the flag push_back() gives to its pages
    blocks,   \* how many blocks were buffered
    want,     \* history: what the pager should hold
    before,   \* history: want when the current call began
    gone,     \* history: how many runs the current call has removed
    torn,     \* history: how many pages of pcb head.size does not count
    missing,  \* history: how many runs of pcb head.cnt does not count
    failures,
    crashes

memory == <<cap, pcb, used, uflen, head, block, placed, flag>>
history == <<blocks, want, before, gone>>
faults == <<torn, missing, failures>>
vars == <<memory, file, index, todo, pc, history, faults, crashes>>

Empty == [head |-> [size |-> 0, cnt |-> 0], pcb |-> <<>>]
Places == 0 .. Max(Capacities) * PageSize

Init ==
    /\ cap = InitCap /\ pcb = <<>> /\ used = {} /\ uflen = InitCap
    /\ head = Empty.head
    /\ file = [byte |-> [b \in Places |-> Hole], len |-> 0]
    /\ index = Empty
    /\ todo = <<>> /\ pc = "idle"
    /\ block = <<>> /\ placed = 0 /\ flag = 0
    /\ blocks = 0 /\ want = <<>> /\ before = <<>> /\ gone = 0
    /\ torn = 0 /\ missing = 0 /\ failures = 0
    /\ crashes = 0

Idle == pc = "idle" /\ todo = <<>>

-----------------------------------------------------------------------------
(* Pages and runs *)

Indexes(p) == {p[i].index : i \in DOMAIN p}

RunStarts(p) == {i \in DOMAIN p : i = 1 \/ p[i].flag # p[i - 1].flag}

(* The length of the first run of p, which is not empty.                   *)
FrontLen(p) == Min((RunStarts(p) \ {1}) \cup {Len(p) + 1}) - 1

(* The bytes readPage() finds for a page; it fails at the end of the file. *)
Start(page) == page.index * PageSize
Readable(page) == Start(page) + page.offset + 1 <= file.len
Bytes(page) ==
    [k \in 1 .. page.offset + 1 |-> file.byte[Start(page) + k - 1]]

(* front(): the pages of the first run, up to one that cannot be read.     *)
ReadFront(p) ==
    LET run == SubSeq(p, 1, FrontLen(p))
        bad == {i \in DOMAIN run : ~Readable(run[i])}
        good == SubSeq(run, 1, Min(bad \cup {Len(run) + 1}) - 1)
    IN  FlattenSeq([i \in DOMAIN good |-> Bytes(good[i])])

(* Where the rth run begins.                                               *)
RunStart(p, r) ==
    CHOOSE s \in RunStarts(p) : Cardinality({t \in RunStarts(p) : t <= s}) = r

(* What front() would return for one run after the other.                  *)
Contents(p) ==
    [r \in 1 .. Cardinality(RunStarts(p)) |-> ReadFront(SubSeq(p, RunStart(p, r), Len(p)))]

-----------------------------------------------------------------------------
(* File operations *)

WritePage(at, bytes) == [kind |-> "page", at |-> at, bytes |-> bytes]

(* writePCB() opens the index, which empties it, and then writes it.       *)
WritePCB(h, p) ==
    <<[kind |-> "index", pcb |-> Empty],
      [kind |-> "index", pcb |-> [head |-> h, pcb |-> p]]>>

(* Mutant of PageThenIndex: the index is left to the destructor.           *)
PageOnly(page, late, h, p) == <<page>>

(* A page and then the index; the page may reach its file last.            *)
PageThenIndex(page, late, h, p) ==
    IF late THEN Append(WritePCB(h, p), page) ELSE <<page>> \o WritePCB(h, p)

Written(f, at, bytes) ==
    [byte |-> [b \in Places |-> IF b \in at .. at + Len(bytes) - 1
                                THEN bytes[b - at + 1] ELSE f.byte[b]],
     len  |-> Max({f.len, at + Len(bytes)})]

Cut(f, len) ==
    [byte |-> [b \in Places |-> IF b < len THEN f.byte[b] ELSE Hole],
     len  |-> len]

FileStep ==
    /\ todo # <<>>
    /\ todo' = Tail(todo)
    /\ LET e == Head(todo)
       IN  \/ /\ e.kind = "page"
              /\ file' = Written(file, e.at, e.bytes)
              /\ UNCHANGED index
           \/ /\ e.kind = "truncate"
              /\ file' = Cut(file, e.len)
              /\ UNCHANGED index
           \/ /\ e.kind = "index"
              /\ index' = e.pcb
              /\ UNCHANGED file
    /\ UNCHANGED <<memory, pc, history, faults, crashes>>

-----------------------------------------------------------------------------
(* emplace_back() *)

(* A call: what it should leave behind is newWant.                         *)
Call(newWant, removed) ==
    /\ Idle
    /\ want' = newWant
    /\ before' = want
    /\ gone' = removed
    /\ UNCHANGED <<cap, file, index, crashes>>

Block(len) == [k \in 1 .. len |-> <<blocks + 1, k>>]

(* The test compares the length of the block with the offset of the last   *)
(* byte of the page, not with the number of its bytes.                     *)
FitsLastPage(len) == pcb # <<>> /\ len + Last(pcb).offset <= PageSize

(* Mutant of Behind: the last byte of the page is overwritten.             *)
BehindLast(page) == Start(page) + page.offset

(* The place behind the last byte of a page. *)
Behind(page) == Start(page) + page.offset + 1

(* The block fits in the last page. *)
Extend(len) ==
    /\ FitsLastPage(len)
    /\ blocks < MaxBlocks
    /\ LET n == Len(pcb)
           s == Block(len)
           page == WritePage(Behind(pcb[n]), s)
       IN  /\ Call([want EXCEPT ![Len(want)] = @ \o s], 0)
           /\ pcb' = [pcb EXCEPT ![n].offset = @ + len]
           /\ \E late \in BOOLEAN : todo' = PageThenIndex(page, late, head, pcb')
    /\ blocks' = blocks + 1
    /\ UNCHANGED <<used, uflen, head, pc, block, placed, flag, faults>>

(* A new run's flag differs from that of the run before it.                *)
NewFlag == IF pcb = <<>> \/ Last(pcb).flag = 1 THEN 0 ELSE 1

Resized == Max({uflen, cap})

(* push_back() up to its first page; flags added to uflag are clear.       *)
PushBack(len) ==
    /\ ~FitsLastPage(len)
    /\ blocks < MaxBlocks
    /\ Call(want, 0)
    /\ uflen' = Resized
    /\ used' = used \ (uflen .. uflen' - 1)
    /\ block' = Block(len)
    /\ placed' = 0
    /\ flag' = NewFlag
    /\ blocks' = blocks + 1
    /\ pc' = "push"
    /\ UNCHANGED <<pcb, head, todo, faults>>

Memory == [pcb |-> pcb, used |-> used, head |-> head]

(* pop_front() in memory. *)
Popped(m) ==
    LET n == FrontLen(m.pcb)
        p == SubSeq(m.pcb, n + 1, Len(m.pcb))
    IN  [pcb |-> p, used |-> m.used \ Indexes(SubSeq(m.pcb, 1, n)),
         head |-> [size |-> Len(p), cnt |-> (m.head.cnt - 1) % 65536]]

(* get_free_page() returns the lowest page not marked, or else the first   *)
(* page of the oldest run, which it removes.  A flag past the end of uflag *)
(* may read as anything until it is written.                               *)
FreePages(junk) == {i \in 0 .. cap - 1 : i \notin used \cup junk}

GetFreePage(page, m, removed) ==
    \E junk \in SUBSET (uflen .. cap - 1) :
       \/ /\ FreePages(junk) # {}
          /\ page = Min(FreePages(junk)) /\ m = Memory /\ removed = 0
       \/ /\ FreePages(junk) = {}
          /\ page = pcb[1].index /\ m = Popped(Memory) /\ removed = 1

(* The head with one block more, when the list is p. *)
Counted(h, p) == [size |-> Len(p), cnt |-> (h.cnt + 1) % 65536]

(* One page of push_back(), and after the last one the head and the index. *)
PushPage ==
    /\ pc = "push"
    /\ todo = <<>>
    /\ \E page \in 0 .. Max(Capacities) - 1, m \in {Memory, Popped(Memory)},
          removed \in {0, 1} :
       LET n == Min({PageSize, Len(block) - placed})
           write == WritePage(page * PageSize, SubSeq(block, placed + 1, placed + n))
           evict == IF removed = 1 THEN WritePCB(m.head, m.pcb) ELSE <<>>
           left == SubSeq(want, removed + 1, Len(want))
       IN  /\ GetFreePage(page, m, removed)
           /\ pcb' = Append(m.pcb, [index |-> page, offset |-> n - 1, flag |-> flag])
           /\ used' = m.used \cup {page}
           /\ placed' = placed + n
           /\ gone' = gone + removed
           /\ \/ /\ placed' < Len(block)
                 /\ head' = m.head
                 /\ torn' = IF removed = 1 THEN 0 ELSE torn
                 /\ todo' = Append(evict, write)
                 /\ want' = left
                 /\ UNCHANGED pc
              \/ /\ placed' = Len(block)
                 /\ head' = Counted(m.head, pcb')
                 /\ \E late \in IF n < PageSize THEN BOOLEAN ELSE {FALSE} :
                       todo' = evict \o PageThenIndex(write, late, head', pcb')
                 /\ want' = Append(left, block)
                 /\ torn' = 0
                 /\ pc' = "idle"
    /\ UNCHANGED <<cap, uflen, block, flag, file, index, blocks, before,
                   missing, failures, crashes>>

Fails == failures < MaxFailures /\ failures' = failures + 1

(* writePage() fails in the last page: the call gives up.                  *)
ExtendFails(len) ==
    /\ FitsLastPage(len)
    /\ blocks < MaxBlocks
    /\ Fails
    /\ Call(want, 0)
    /\ blocks' = blocks + 1
    /\ UNCHANGED <<memory, todo, pc, torn, missing>>

(* It fails in push_back().  The pages placed before stay in the list, as  *)
(* a run of their own.  The loop over full pages gives up: neither head    *)
(* nor the index tell of them.  A partial page is skipped, and the block   *)
(* is counted, even if nothing of it was placed.                           *)
PushPageFails ==
    /\ pc = "push"
    /\ todo = <<>>
    /\ Fails
    /\ \E page \in 0 .. Max(Capacities) - 1, m \in {Memory, Popped(Memory)},
          removed \in {0, 1} :
       LET full == Len(block) - placed >= PageSize
           evict == IF removed = 1 THEN WritePCB(m.head, m.pcb) ELSE <<>>
           left == SubSeq(want, removed + 1, Len(want))
           part == IF placed > 0 THEN <<SubSeq(block, 1, placed)>> ELSE <<>>
       IN  /\ GetFreePage(page, m, removed)
           /\ pcb' = m.pcb /\ used' = m.used
           /\ gone' = gone + removed
           /\ want' = left \o part
           /\ \/ /\ full
                 /\ head' = m.head /\ todo' = evict
                 /\ torn' = Len(m.pcb) - m.head.size
                 /\ missing' = missing + Len(part)
              \/ /\ ~full
                 /\ head' = Counted(m.head, m.pcb)
                 /\ todo' = evict \o WritePCB(head', pcb')
                 /\ torn' = 0
                 /\ missing' = missing + Len(part) - 1
    /\ pc' = "idle"
    /\ UNCHANGED <<cap, uflen, block, placed, flag, file, index, blocks, before,
                   crashes>>

-----------------------------------------------------------------------------
(* The other operations *)

PopFront ==
    /\ pcb # <<>>
    /\ Call(Tail(want), 1)
    /\ LET m == Popped(Memory)
       IN  /\ pcb' = m.pcb /\ used' = m.used /\ head' = m.head
           /\ todo' = WritePCB(m.head, m.pcb)
    /\ torn' = 0
    /\ UNCHANGED <<uflen, block, placed, flag, blocks, pc, missing, failures>>

Clear ==
    /\ Call(<<>>, Len(want))
    /\ pcb' = <<>> /\ used' = {} /\ head' = Empty.head
    /\ \/ /\ cap < uflen
          /\ uflen' = cap
          /\ todo' = Append(WritePCB(head', pcb'),
                            [kind |-> "truncate", len |-> cap * PageSize])
       \/ /\ cap >= uflen
          /\ UNCHANGED uflen
          /\ todo' = WritePCB(head', pcb')
    /\ torn' = 0 /\ missing' = 0
    /\ UNCHANGED <<block, placed, flag, blocks, pc, failures>>

(* setCapacity(), called by another thread. *)
SetCapacity ==
    /\ pc # "restarted"
    /\ cap' \in Capacities \ {cap}
    /\ cap' > cap => Idle \/ GrowInside
    /\ UNCHANGED <<pcb, used, uflen, head, block, placed, flag, file, index,
                   todo, pc, history, faults, crashes>>

(* The process is killed and runs the constructor again: what the streams  *)
(* had not written is lost, and readPCB() takes the memory from the index. *)
Restart ==
    /\ pc # "restarted"
    /\ Idle \/ CrashInside
    /\ crashes < MaxCrashes
    /\ crashes' = crashes + 1
    /\ LET h == index.head
           p == SubSeq(index.pcb, 1, Min({h.size, Len(index.pcb)}))
       IN  /\ pcb' = p
           /\ used' = Indexes(p)
           /\ uflen' = Max({InitCap, h.size})
           /\ head' = [size |-> Len(p), cnt |-> Cardinality(RunStarts(p)) % 65536]
    /\ cap' = InitCap
    /\ todo' = <<>>
    /\ block' = <<>> /\ placed' = 0 /\ flag' = 0
    /\ pc' = "restarted"
    /\ before' = IF Idle THEN want ELSE before
    /\ gone' = IF Idle THEN 0 ELSE gone
    /\ missing' = 0
    /\ UNCHANGED <<file, index, blocks, want, torn, failures>>

(* What the restart found is what the pager holds from now on. *)
Open ==
    /\ pc = "restarted"
    /\ pc' = "idle"
    /\ want' = Contents(pcb)
    /\ before' = want'
    /\ gone' = 0
    /\ torn' = 0
    /\ UNCHANGED <<memory, file, index, todo, blocks, missing, failures, crashes>>

Next ==
    \/ \E len \in Lengths : Extend(len) \/ ExtendFails(len) \/ PushBack(len)
    \/ PushPage \/ PushPageFails
    \/ PopFront \/ Clear \/ SetCapacity
    \/ FileStep
    \/ Restart \/ Open

Spec == Init /\ [][Next]_vars

-----------------------------------------------------------------------------
(* Properties *)

Page == [index : Nat, offset : Nat, flag : {0, 1}]
Head16 == [size : 0 .. 65535, cnt : 0 .. 65535]
Byte == Nat \X Nat

(* Every variable has its type. *)
TypeOK ==
    /\ cap \in Capacities /\ uflen \in Nat /\ used \subseteq Nat
    /\ pcb \in Seq(Page) /\ head \in Head16
    /\ file.len \in Places
    /\ DOMAIN file.byte = Places
    /\ \A b \in Places : file.byte[b] \in Byte \cup {Hole}
    /\ index.head \in Head16 /\ index.pcb \in Seq(Page)
    /\ pc \in {"idle", "push", "restarted"}
    /\ placed \in 0 .. Len(block) /\ flag \in {0, 1}
    /\ torn \in Nat /\ missing \in Int /\ failures \in 0 .. MaxFailures
    /\ blocks \in 0 .. MaxBlocks /\ crashes \in 0 .. MaxCrashes

(* Whatever was buffered, removed, evicted and reread, the pages hold      *)
(* every block that is left, whole and in order, and a run is made of the  *)
(* blocks that were put in it: front() gives what emplace_back() was given *)
(* (src/srreporter.cc 210-233, 250-272, 296-338).                          *)
RunsAreWhole == Idle => Contents(pcb) = want

(* bsize() is the number of runs there are to send, and size() of pages:   *)
(* with a count that is too low the reporter would stop sending what is    *)
(* buffered, with one too high it would pop from an empty list.  A failed  *)
(* write makes them wrong by exactly what it left behind, until clear() or *)
(* a restart (src/srreporter.cc 200-208, 245-246, 296-338).                *)
CountsRuns ==
    /\ pc # "restarted" => (head.cnt + missing) % 65536 = Len(want)
    /\ Idle => head.size + torn = Len(pcb)

(* No page is in two places of the list, and a page is marked exactly when *)
(* it is in the list: none is given out twice and none leaks.  uflag is    *)
(* only indexed within its size, although the capacity changes under the   *)
(* pager (src/srreporter.cc 235-248, 316-330, 340-355).                    *)
PagesOwnedOnce ==
    /\ used = Indexes(pcb)
    /\ Cardinality(Indexes(pcb)) = Len(pcb)
    /\ \A i \in used : i < uflen

(* A restart between two calls finds exactly the runs there were: nothing  *)
(* is lost and nothing sent comes back, but for the pages of calls that    *)
(* failed, which are the last ones                                         *)
(* (src/srreporter.cc 78-130, 182-188).                                    *)
RestartsWhereItStopped ==
    pc = "restarted" /\ ~CrashInside =>
       LET found == Contents(pcb)
       IN  /\ failures = 0 => found = want
           /\ Len(found) <= Len(want) /\ Len(want) - Len(found) <= torn
           /\ torn = 0 => found = want
           /\ \A r \in DOMAIN found :
                 IF r < Len(found) THEN found[r] = want[r] ELSE IsPrefix(found[r], want[r])

(* Every one of these runs is found, perhaps with more bytes behind it.    *)
Survives(runs, found) ==
    /\ Len(found) >= Len(runs)
    /\ \A r \in DOMAIN runs : IsPrefix(runs[r], found[r])

(* Wherever the process is killed, a restart finds every run there was     *)
(* when the call it was in began, but for those the call removed:          *)
(* "buffered messages will not be lost in case of sudden outage"           *)
(* (include/srreporter.h 49-51).                                           *)
Durable ==
    pc = "restarted" =>
       \E n \in 0 .. gone : Survives(SubSeq(before, n + 1, Len(before)), Contents(pcb))
=============================================================================
