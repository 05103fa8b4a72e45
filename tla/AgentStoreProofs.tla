--------------------------- MODULE AgentStoreProofs ---------------------------
(***************************************************************************)
(* Proofs about the two parts of the agent store: the audit log (AuditLog) *)
(* for any number of sessions, calls of appendEvent, and events, and the   *)
(* session row (AgentSessions) for any capabilities, operations and calls. *)
(*                                                                         *)
(*   Seen    a call that has read the head of the log carries the hash of  *)
(*           an event that is there: the log only grows;                   *)
(*   Alone   while no two calls have overlapped, at most one is on its     *)
(*           way, and the head that it has read is still the head;         *)
(*   Paged   what the reader has been shown is, newest first, every row it *)
(*           asked for from its cursor up to where it began.               *)
(*                                                                         *)
(* A session row is read and saved in two round trips, so that what it     *)
(* promises holds for as long as calls come one at a time (OneAtATime):    *)
(*                                                                         *)
(*   SerialRow   the row that a call is about to save is the row that is   *)
(*               there, and what it is about to book or buy fits;          *)
(*   Remembered  the setting of the emergency stop and the memory of the   *)
(*               process agree, but while one of them is being saved.      *)
(***************************************************************************)
EXTENDS AgentSessions, AuditLog, SequenceTheorems, TLAPS

Appending == [pc : {"read", "insert"}, event : Event]

LogTyped ==
    /\ log \in Seq(Event)
    /\ append \in [Appenders -> {NoAppend} \cup Appending]
    /\ issued \in 0..MaxEvents
    /\ serial \in BOOLEAN

(* The hash that the next event is to carry.                               *)
ChainHead == IF log = <<>> THEN None ELSE log[Len(log)].id

InLog(hash) == hash = None \/ \E j \in 1..Len(log) : log[j].id = hash

Reading(a) == append[a].pc = "insert"

Seen == \A a \in Appenders : Reading(a) => InLog(append[a].event.previousHash)

Alone ==
    serial =>
        \A a \in Appenders : append[a] # NoAppend =>
            /\ \A b \in Appenders : append[b] # NoAppend => b = a
            /\ Reading(a) => append[a].event.previousHash = ChainHead

(* The rows that the reader is to see, and those that it has seen.         *)
Wanted == {i \in 1..top : page.filter \in {All, log[i].session}}
Values(seq) == {seq[i] : i \in 1..Len(seq)}
Descending(seq) == \A i, j \in 1..Len(seq) : i < j => seq[i] > seq[j]

Paged ==
    /\ page \in [filter : Sessions \cup {All}, cursor : 0..Len(log),
                 shown : Seq(Nat), done : BOOLEAN]
    /\ top \in 0..Len(log)
    /\ Descending(page.shown)
    /\ Values(page.shown) = {i \in Wanted : page.done \/ page.cursor <= i}
    /\ ~page.done /\ page.shown = <<>> => page.cursor = None /\ top = 0
    /\ ~page.done /\ page.shown # <<>> => page.cursor \in Values(page.shown)

LogInv == LogTyped /\ Seen /\ ChainedToEarlier /\ Alone /\ SerialChainValid

-------------------------------------------------------------------------------

LEMMA LogInvInit == LogInit => LogInv
<1> SUFFICES ASSUME LogInit PROVE LogInv
    OBVIOUS
<1>1. LogTyped
    BY EventsAssumption DEF LogInit, LogTyped
<1>2. Seen /\ Alone
    BY DEF LogInit, Seen, Alone, Reading, NoAppend
<1>3. ChainedToEarlier /\ SerialChainValid
    BY DEF LogInit, ChainedToEarlier, SerialChainValid, ChainValid, Valid
<1> QED
    BY <1>1, <1>2, <1>3 DEF LogInv

(* Who is neither idle nor anything else is appending.                     *)
LEMMA Busy ==
    ASSUME LogTyped, NEW a \in Appenders, append[a].pc # "idle"
    PROVE append[a] \in Appending /\ append[a] # NoAppend
BY DEF LogTyped, NoAppend

(* The head of the log is in the log.                                      *)
LEMMA HeadIsThere == ASSUME LogTyped PROVE InLog(ChainHead) /\ ChainHead \in 0..MaxEvents
<1>1. CASE log = <<>>
    BY <1>1, EventsAssumption DEF ChainHead, InLog, None
<1>2. CASE log # <<>>
    <2>1. Len(log) \in 1..Len(log)
        BY <1>2 DEF LogTyped
    <2>2. log[Len(log)] \in Event
        BY <2>1 DEF LogTyped
    <2> QED
        BY <1>2, <2>1, <2>2, EventsAssumption DEF ChainHead, InLog, Event
<1> QED
    BY <1>1, <1>2

LEMMA BeginKeeps ==
    ASSUME LogInv, NEW a \in Appenders, NEW s \in Sessions, BeginAppend(a, s)
    PROVE LogInv'
<1> DEFINE event == [id |-> issued + 1, session |-> s, previousHash |-> None]
<1> USE DEF LogInv
<1>1. event \in Event
    BY EventsAssumption DEF BeginAppend, LogTyped, Event, None
<1>2. [pc |-> "read", event |-> event] \in Appending
    BY <1>1 DEF Appending
<1>3. append' = [append EXCEPT ![a] = [pc |-> "read", event |-> event]]
    BY DEF BeginAppend
<1>4. LogTyped'
    BY <1>2, <1>3, EventsAssumption DEF BeginAppend, LogTyped
<1>5. \A b \in Appenders : append'[b] = append[b] \/ append'[b].pc = "read"
    BY <1>3 DEF LogTyped
<1>6. Seen'
    BY <1>5 DEF BeginAppend, Seen, Reading, InLog
<1>7. Alone'
    <2> SUFFICES ASSUME serial', NEW b \in Appenders, append'[b] # NoAppend
                 PROVE /\ \A c \in Appenders : append'[c] # NoAppend => c = b
                       /\ Reading(b)' => append'[b].event.previousHash = ChainHead'
        BY DEF Alone
    <2>1. \A c \in Appenders : append[c] = NoAppend
        BY DEF BeginAppend
    <2>2. \A c \in Appenders : append'[c] # NoAppend => c = a
        BY <2>1, <1>3 DEF LogTyped
    <2>3. ~Reading(b)'
        BY <2>2, <1>3 DEF LogTyped, Reading
    <2> QED
        BY <2>2, <2>3
<1> QED
    BY <1>4, <1>6, <1>7 DEF BeginAppend, ChainedToEarlier, SerialChainValid, ChainValid, Valid

LEMMA ReadKeeps ==
    ASSUME LogInv, NEW a \in Appenders, ReadHead(a)
    PROVE LogInv'
<1> DEFINE read == [append[a] EXCEPT !.pc = "insert", !.event.previousHash = ChainHead]
<1> USE DEF LogInv
<1>1. append[a] \in Appending /\ append[a] # NoAppend
    BY Busy DEF ReadHead
<1>2. read \in Appending
    BY <1>1, HeadIsThere DEF Appending, Event
<1>3. append' = [append EXCEPT ![a] = read] /\ UNCHANGED <<log, issued, serial>>
    BY DEF ReadHead, ChainHead
<1>4. read.event.previousHash = ChainHead /\ read # NoAppend
    BY <1>1, <1>2 DEF Appending, Event, NoAppend
<1>5. LogTyped'
    BY <1>2, <1>3 DEF LogTyped
<1>6. append'[a] = read /\ \A b \in Appenders \ {a} : append'[b] = append[b]
    BY <1>3 DEF LogTyped
<1>7. ChainHead' = ChainHead
    BY <1>3 DEF ChainHead
<1>8. Seen'
    BY <1>3, <1>4, <1>6, HeadIsThere DEF Seen, Reading, InLog
<1>9. Alone'
    BY <1>1, <1>3, <1>4, <1>6, <1>7 DEF Alone, Reading
<1> QED
    BY <1>3, <1>5, <1>8, <1>9 DEF ChainedToEarlier, SerialChainValid, ChainValid, Valid

LEMMA InsertKeeps ==
    ASSUME LogInv, NEW a \in Appenders, Insert(a)
    PROVE LogInv'
<1> DEFINE event == append[a].event
           n == Len(log)
<1> USE DEF LogInv
<1>1. append[a] \in Appending /\ append[a] # NoAppend
    BY Busy DEF Insert
<1>2. event \in Event /\ Reading(a)
    BY <1>1 DEF Appending, Insert, Reading
<1>3. /\ append' = [append EXCEPT ![a] = NoAppend]
      /\ log' = Append(log, event)
      /\ UNCHANGED <<issued, serial>>
    BY DEF Insert
<1>4. LogTyped'
    BY <1>2, <1>3 DEF LogTyped
<1>5. /\ n \in Nat /\ Len(log') = n + 1
      /\ log'[n + 1] = event
      /\ \A i \in 1..n : log'[i] = log[i]
    BY <1>2, <1>3 DEF LogTyped
<1>6. append'[a] = NoAppend /\ \A b \in Appenders \ {a} : append'[b] = append[b]
    BY <1>3 DEF LogTyped
<1>7. \A hash : InLog(hash) => InLog(hash)'
    BY <1>5 DEF InLog
<1>8. Seen'
    BY <1>6, <1>7 DEF Seen, Reading, NoAppend
<1>9. InLog(event.previousHash)
    BY <1>2 DEF Seen
<1>10. ChainedToEarlier'
    <2> SUFFICES ASSUME NEW i \in 1..(n + 1)
                 PROVE \/ log'[i].previousHash = None
                       \/ \E j \in 1..(i - 1) : log'[j].id = log'[i].previousHash
        BY <1>5 DEF ChainedToEarlier
    <2>1. CASE i = n + 1
        BY <2>1, <1>5, <1>9 DEF InLog
    <2>2. CASE i \in 1..n
        <3>1. \/ log[i].previousHash = None
              \/ \E j \in 1..(i - 1) : log[j].id = log[i].previousHash
            BY <2>2 DEF ChainedToEarlier
        <3> QED
            BY <2>2, <3>1, <1>5
    <2> QED
        BY <2>1, <2>2, <1>5
<1>11. Alone'
    BY <1>1, <1>3, <1>6 DEF Alone
<1>12. SerialChainValid'
    <2> SUFFICES ASSUME serial, NEW i \in 1..(n + 1)
                 PROVE log'[i].previousHash = IF i = 1 THEN None ELSE log'[i - 1].id
        BY <1>3, <1>5 DEF SerialChainValid, ChainValid, Valid
    <2>1. CASE i = n + 1
        <3>1. event.previousHash = ChainHead
            BY <1>1, <1>2 DEF Alone
        <3>2. CASE n = 0
            BY <2>1, <3>1, <3>2, <1>5 DEF ChainHead, LogTyped
        <3>3. CASE n # 0
            BY <2>1, <3>1, <3>3, <1>5 DEF ChainHead, LogTyped
        <3> QED
            BY <3>2, <3>3
    <2>2. CASE i \in 1..n
        <3>1. log[i].previousHash = IF i = 1 THEN None ELSE log[i - 1].id
            BY <2>2 DEF SerialChainValid, ChainValid, Valid
        <3> QED
            BY <2>2, <3>1, <1>5
    <2> QED
        BY <2>1, <2>2, <1>5
<1> QED
    BY <1>4, <1>8, <1>10, <1>11, <1>12

LEMMA CrashKeeps ==
    ASSUME LogInv, NEW a \in Appenders, Crash(a)
    PROVE LogInv'
<1> USE DEF LogInv
<1>1. /\ append' = [append EXCEPT ![a] = NoAppend]
      /\ UNCHANGED <<log, issued, serial>>
    BY DEF Crash
<1>2. append'[a] = NoAppend /\ \A b \in Appenders \ {a} : append'[b] = append[b]
    BY <1>1 DEF LogTyped
<1>3. LogTyped'
    BY <1>1 DEF LogTyped
<1>4. Seen' /\ Alone'
    BY <1>1, <1>2 DEF Seen, Alone, Reading, InLog, ChainHead, NoAppend
<1> QED
    BY <1>1, <1>3, <1>4 DEF ChainedToEarlier, SerialChainValid, ChainValid, Valid

(* Reading a page leaves the log and the calls alone.                      *)
LEMMA OthersKeep ==
    ASSUME LogInv, UNCHANGED <<log, append, issued, serial>>
    PROVE LogInv'
BY DEF LogInv, LogTyped, Seen, Alone, Reading, InLog, ChainHead, ChainedToEarlier, SerialChainValid,
       ChainValid, Valid

-------------------------------------------------------------------------------

(* LogInv holds of every reachable state of the log and of the calls.         *)
THEOREM LogInvariant == LogSpec => []LogInv
<1>1. LogInv /\ [LogNext]_logVars => LogInv'
    <2> SUFFICES ASSUME LogInv, [LogNext]_logVars PROVE LogInv'
        OBVIOUS
    <2>1. ASSUME NEW a \in Appenders, NEW s \in Sessions, BeginAppend(a, s) PROVE LogInv'
        BY <2>1, BeginKeeps
    <2>2. ASSUME NEW a \in Appenders, ReadHead(a) PROVE LogInv'
        BY <2>2, ReadKeeps
    <2>3. ASSUME NEW a \in Appenders, Insert(a) PROVE LogInv'
        BY <2>3, InsertKeeps
    <2>4. ASSUME NEW a \in Appenders, Crash(a) PROVE LogInv'
        BY <2>4, CrashKeeps
    <2>5. CASE NextPage \/ UNCHANGED logVars
        BY <2>5, OthersKeep DEF NextPage, Show, logVars
    <2> QED
        BY <2>1, <2>2, <2>3, <2>4, <2>5 DEF LogNext
<1> QED
    BY <1>1, LogInvInit, PTL DEF LogSpec

(* Whatever appends overlap and whichever process dies between its two round
   trips, an event is chained to one that precedes it in the log
   (appendEvent).                                                          *)
THEOREM NothingChainedToLost == LogSpec => []ChainedToEarlier
BY LogInvariant, PTL DEF LogInv

(* For as long as no two calls of appendEvent overlap, verifyEventChain
   accepts the log.                                                        *)
THEOREM SerialAppendsVerify == LogSpec => []SerialChainValid
BY LogInvariant, PTL DEF LogInv

-------------------------------------------------------------------------------
(* Paged *)

(* An answer of the database is a part of the rows, newest first, and a row  *)
(* that is not in it is older than all that are.                             *)
LEMMA NewestEffect ==
    ASSUME NEW S \in SUBSET Nat, NEW limit \in Nat, NEW rows \in Newest(S, limit)
    PROVE /\ rows \in Seq(S) /\ Descending(rows)
          /\ \A k \in S : \/ \E i \in 1..Len(rows) : rows[i] = k
                          \/ Len(rows) = limit /\ \A i \in 1..Len(rows) : k < rows[i]
<1>1. PICK n \in 0..limit : rows \in [1..n -> S]
    BY DEF Newest
<1>2. rows \in Seq(S)
    BY <1>1, SeqDef
<1>3. /\ \A i, j \in 1..Len(rows) : i < j => rows[i] > rows[j]
      /\ \A k \in S : \/ \E i \in 1..Len(rows) : rows[i] = k
                      \/ Len(rows) = limit /\ \A i \in 1..Len(rows) : k < rows[i]
    BY Zenon DEF Newest
<1> QED
    BY <1>2, <1>3, Zenon DEF Descending

(* The part of an answer that is shown: its newest rows, from the last of   *)
(* them up when there are more.                                             *)
LEMMA PageRows ==
    ASSUME NEW S \in SUBSET Nat, NEW rows \in Newest(S, PageSize + 1),
           Len(rows) > PageSize
    PROVE LET shown == SubSeq(rows, 1, PageSize) IN
          /\ shown \in Seq(S) /\ Len(shown) = PageSize /\ Descending(shown)
          /\ rows[PageSize] \in S
          /\ Values(shown) = {k \in S : rows[PageSize] <= k}
<1> DEFINE shown == SubSeq(rows, 1, PageSize)
<1> USE PageAssumption
<1>1. /\ rows \in Seq(S) /\ Descending(rows)
      /\ \A k \in S : \/ \E i \in 1..Len(rows) : rows[i] = k
                      \/ \A i \in 1..Len(rows) : k < rows[i]
    <2>1. PageSize + 1 \in Nat
        OBVIOUS
    <2> QED
        BY <2>1, NewestEffect
<1>2. PageSize \in 1..Len(rows) /\ \A i \in 1..Len(rows) : rows[i] \in S /\ rows[i] \in Nat
    <2>1. Len(rows) \in Nat /\ \A i \in 1..Len(rows) : rows[i] \in S
        BY <1>1
    <2>2. \A x \in S : x \in Nat
        OBVIOUS
    <2>3. PageSize \in 1..Len(rows)
        BY <2>1
    <2> QED
        BY <2>1, <2>2, <2>3
<1>3. /\ shown \in Seq(S) /\ Len(shown) = PageSize
      /\ \A i \in 1..PageSize : shown[i] = rows[i]
    <2>1. \A i \in 1..PageSize : rows[i] \in S
        BY <1>2
    <2>2. Len(shown) = IF 1 <= PageSize THEN PageSize - 1 + 1 ELSE 0
        BY <2>1, SubSeqProperties
    <2>3. \A i \in 1..PageSize - 1 + 1 : shown[i] = rows[1 + i - 1]
        BY <2>1, SubSeqProperties
    <2>4. shown \in Seq(S)
        BY <2>1, SubSeqProperties
    <2> QED
        BY <2>2, <2>3, <2>4, <1>2
<1>4. Descending(shown)
    BY <1>1, <1>2, <1>3 DEF Descending
<1>5. ASSUME NEW i \in 1..PageSize PROVE rows[PageSize] <= rows[i]
    BY <1>1, <1>2 DEF Descending
<1>6. ASSUME NEW k \in S, rows[PageSize] <= k PROVE k \in Values(shown)
    <2>1. PICK i \in 1..Len(rows) : rows[i] = k
        BY <1>1, <1>2, <1>6
    <2>2. i <= PageSize
        BY <1>1, <1>2, <1>6, <2>1 DEF Descending
    <2> QED
        BY <1>3, <2>1, <2>2 DEF Values
<1>7. Values(shown) \subseteq {k \in S : rows[PageSize] <= k}
    BY <1>2, <1>3, <1>5 DEF Values
<1> QED
    BY <1>2, <1>3, <1>4, <1>6, <1>7

(* The last page: all the rows that are left.                              *)
LEMMA LastRows ==
    ASSUME NEW S \in SUBSET Nat, NEW rows \in Newest(S, PageSize + 1),
           ~(Len(rows) > PageSize)
    PROVE rows \in Seq(S) /\ Descending(rows) /\ Values(rows) = S
<1>1. /\ rows \in Seq(S) /\ Descending(rows)
      /\ \A k \in S : \/ \E i \in 1..Len(rows) : rows[i] = k
                      \/ Len(rows) = PageSize + 1
    BY NewestEffect, PageAssumption
<1>2. S \subseteq Values(rows)
    BY <1>1, PageAssumption DEF Values
<1>3. Values(rows) \subseteq S
    BY <1>1 DEF Values
<1> QED
    BY <1>1, <1>2, <1>3

(* A page below what has been shown keeps the whole in order.              *)
LEMMA Below ==
    ASSUME NEW s \in Seq(Nat), NEW t \in Seq(Nat), Descending(s), Descending(t),
           \A x \in Values(s), y \in Values(t) : y < x
    PROVE /\ s \o t \in Seq(Nat) /\ Descending(s \o t)
          /\ Values(s \o t) = Values(s) \cup Values(t)
          /\ t # <<>> => s \o t # <<>>
<1>1. /\ s \o t \in Seq(Nat) /\ Len(s \o t) = Len(s) + Len(t)
      /\ \A i \in 1..Len(s) + Len(t) :
            (s \o t)[i] = IF i <= Len(s) THEN s[i] ELSE t[i - Len(s)]
    BY ConcatProperties
<1>2. /\ \A i \in 1..Len(s) : s[i] \in Values(s)
      /\ \A i \in 1..Len(t) : t[i] \in Values(t)
    BY DEF Values
<1>3. Descending(s \o t)
    <2> SUFFICES ASSUME NEW i \in 1..Len(s) + Len(t), NEW j \in 1..Len(s) + Len(t), i < j
                 PROVE (s \o t)[i] > (s \o t)[j]
        BY <1>1 DEF Descending
    <2>1. CASE j <= Len(s)
        BY <1>1, <2>1 DEF Descending
    <2>2. CASE i <= Len(s) /\ ~(j <= Len(s))
        <3>1. i \in 1..Len(s) /\ j - Len(s) \in 1..Len(t)
            BY <2>2
        <3>2. s[i] \in Values(s) /\ t[j - Len(s)] \in Values(t)
            BY <1>2, <3>1
        <3>3. (s \o t)[i] = s[i] /\ (s \o t)[j] = t[j - Len(s)]
            BY <1>1, <2>2
        <3>4. s[i] \in Nat /\ t[j - Len(s)] \in Nat
            BY <3>1
        <3> QED
            BY <3>2, <3>3, <3>4
    <2>3. CASE ~(i <= Len(s))
        <3>1. t[i - Len(s)] > t[j - Len(s)]
            <4>1. i - Len(s) \in 1..Len(t) /\ j - Len(s) \in 1..Len(t) /\ i - Len(s) < j - Len(s)
                BY <2>3
            <4> QED
                BY <4>1 DEF Descending
        <3> QED
            BY <1>1, <2>3, <3>1
    <2> QED
        BY <2>1, <2>2, <2>3
<1>4. Values(s \o t) \subseteq Values(s) \cup Values(t)
    BY <1>1 DEF Values
<1>5. ASSUME NEW i \in 1..Len(s) PROVE s[i] \in Values(s \o t)
    BY <1>1 DEF Values
<1>6. ASSUME NEW i \in 1..Len(t) PROVE t[i] \in Values(s \o t)
    <2>1. Len(s) + i \in 1..Len(s \o t) /\ (s \o t)[Len(s) + i] = t[i]
        BY <1>1
    <2> QED
        BY <2>1 DEF Values
<1>7. Values(s) \cup Values(t) \subseteq Values(s \o t)
    BY <1>5, <1>6 DEF Values
<1>8. t # <<>> => s \o t # <<>>
    BY <1>1
<1> QED
    BY <1>1, <1>3, <1>4, <1>7, <1>8

(* While the log grows on top, what the reader wants and has seen stays.   *)
LEMMA PagedKept ==
    ASSUME Paged, UNCHANGED <<page, top>>, Len(log) \in Nat, Len(log') \in Nat,
           Len(log) <= Len(log'), \A i \in 1..Len(log) : log'[i] = log[i]
    PROVE Paged'
<1>1. Wanted' = Wanted
    <2>1. \A i \in 1..top : i \in 1..Len(log) /\ log'[i] = log[i]
        BY DEF Paged
    <2> QED
        BY <2>1, Zenon DEF Wanted
<1>2. 0..Len(log) \subseteq 0..Len(log')
    OBVIOUS
<1>3. page \in [filter : Sessions \cup {All}, cursor : 0..Len(log'),
                shown : Seq(Nat), done : BOOLEAN]
    BY <1>2 DEF Paged
<1>4. top \in 0..Len(log')
    BY <1>2 DEF Paged
<1> QED
    BY <1>1, <1>3, <1>4 DEF Paged

(* The rows of a request: those that are wanted and have not been seen.    *)
LEMMA MatchingRows ==
    ASSUME LogTyped, Paged, ~page.done
    PROVE LET upto == IF page.shown = <<>> THEN Len(log) ELSE top IN
          /\ upto \in 0..Len(log)
          /\ Matching(page.cursor) =
               {i \in 1..upto : page.filter \in {All, log[i].session}
                                 /\ (page.shown = <<>> \/ i < page.cursor)}
          /\ page.shown # <<>> => page.cursor \in Values(page.shown)
<1> DEFINE upto == IF page.shown = <<>> THEN Len(log) ELSE top
<1>1. Len(log) \in Nat /\ upto \in 0..Len(log) /\ page.cursor \in 0..Len(log)
    BY DEF LogTyped, Paged
<1>2. CASE page.shown = <<>>
    <2>1. page.cursor = None
        BY <1>2 DEF Paged
    <2> QED
        BY <1>1, <1>2, <2>1 DEF Matching
<1>3. CASE page.shown # <<>>
    <2>1. page.cursor \in Wanted
        BY <1>3 DEF Paged
    <2>2. page.cursor \in 1..top /\ page.cursor # None /\ top \in 0..Len(log)
        BY <2>1 DEF Wanted, Paged, None
    <2>3. Matching(page.cursor) = {i \in 1..top : page.filter \in {All, log[i].session}
                                                   /\ i < page.cursor}
        BY <1>1, <2>2 DEF Matching
    <2> QED
        BY <1>1, <1>3, <2>3 DEF Paged
<1> QED
    BY <1>2, <1>3

(* What is shown of an answer, and where the next request goes on.         *)
LEMMA ShowKeeps ==
    ASSUME LogTyped, Paged, ~page.done, NEW rows \in Seq(Matching(page.cursor)),
           NEW cursor, NEW done \in BOOLEAN, Show(rows, cursor, done),
           Descending(rows),
           Values(rows) = {k \in Matching(page.cursor) : done \/ cursor <= k},
           ~done => cursor \in Matching(page.cursor),
           done => cursor = page.cursor
    PROVE Paged'
<1> DEFINE upto == IF page.shown = <<>> THEN Len(log) ELSE top
           matching == Matching(page.cursor)
           seen == page.shown
           Asked(i) == page.filter \in {All, log[i].session}
<1>1. /\ upto \in 0..Len(log)
      /\ matching = {i \in 1..upto : Asked(i) /\ (seen = <<>> \/ i < page.cursor)}
      /\ seen # <<>> => page.cursor \in Values(seen)
    BY MatchingRows
<1>2. /\ page.filter \in Sessions \cup {All} /\ page.cursor \in 0..Len(log)
      /\ seen \in Seq(Nat) /\ Len(log) \in Nat
    BY DEF LogTyped, Paged
<1>3. /\ page' \in [filter : Sessions \cup {All}, cursor : {cursor},
                    shown : {seen \o rows}, done : {done}]
      /\ page'.filter = page.filter /\ page'.cursor = cursor
      /\ page'.shown = seen \o rows /\ page'.done = done
    BY <1>2 DEF Show, Paged
<1>4. top' = upto /\ log' = log
    BY DEF Show
<1>5. cursor \in 0..Len(log)
    BY <1>1, <1>2
<1>6. rows \in Seq(Nat)
    <2>1. matching \subseteq Nat
        BY <1>1
    <2> QED
        BY <2>1
<1>7. ASSUME NEW x \in Values(seen), NEW y \in Values(rows) PROVE y < x
    <2>1. seen # <<>>
        BY <1>7 DEF Values
    <2>2. x \in Nat /\ page.cursor <= x
        BY DEF Paged, Wanted
    <2>3. y \in Nat /\ y < page.cursor
        BY <1>1, <2>1
    <2> QED
        BY <1>2, <2>2, <2>3
<1>8. /\ seen \o rows \in Seq(Nat) /\ Descending(seen \o rows)
      /\ Values(seen \o rows) = Values(seen) \cup Values(rows)
      /\ rows # <<>> => seen \o rows # <<>>
    BY <1>2, <1>6, <1>7, Below DEF Paged
<1>9. Wanted' = {i \in 1..upto : Asked(i)}
    BY <1>3, <1>4 DEF Wanted
<1>10. Values(seen) \cup Values(rows) = {i \in Wanted' : done \/ cursor <= i}
    <2>1. CASE seen = <<>>
        <3>1. Values(seen) = {} /\ matching = Wanted'
            BY <1>1, <1>9, <2>1 DEF Values
        <3> QED
            BY <3>1
    <2>2. CASE seen # <<>>
        <3>1. Values(seen) = {i \in Wanted : page.cursor <= i} /\ Wanted' = Wanted
            BY <1>9, <2>2 DEF Paged, Wanted
        <3>2. matching = {i \in Wanted : i < page.cursor}
            BY <1>1, <1>9, <2>2, <3>1
        <3>3. ~done => cursor < page.cursor
            BY <3>2
        <3>4. Wanted \subseteq Nat
            BY DEF Wanted
        <3>5. Values(rows) = {k \in matching : done \/ cursor <= k}
            OBVIOUS
        <3>6. ASSUME NEW i \in Wanted
              PROVE i \in Values(seen) \cup Values(rows) <=> done \/ cursor <= i
            BY <1>2, <1>5, <3>1, <3>2, <3>3, <3>4, <3>5, <3>6
        <3> QED
            BY <3>1, <3>2, <3>5, <3>6
    <2> QED
        BY <2>1, <2>2
<1>11. ~done => cursor \in Values(rows) /\ seen \o rows # <<>>
    <2>1. ~done => cursor \in Values(rows)
        BY <1>5
    <2> QED
        BY <1>8, <2>1 DEF Values
<1>12. page' \in [filter : Sessions \cup {All}, cursor : 0..Len(log'),
                 shown : Seq(Nat), done : BOOLEAN]
    BY <1>3, <1>4, <1>5, <1>8
<1>13. Values(page'.shown) = {i \in Wanted' : page'.done \/ page'.cursor <= i}
    BY <1>3, <1>8, <1>10
<1>14. top' \in 0..Len(log')
    BY <1>1, <1>4
<1> QED
    BY <1>3, <1>8, <1>11, <1>12, <1>13, <1>14 DEF Paged

LEMMA NextPageKeeps ==
    ASSUME LogTyped, Paged, NextPage
    PROVE Paged'
<1> DEFINE matching == Matching(page.cursor)
<1>1. PICK rows \in Newest(matching, PageSize + 1) :
           IF Len(rows) > PageSize
           THEN Show(SubSeq(rows, 1, PageSize), rows[PageSize], FALSE)
           ELSE Show(rows, page.cursor, TRUE)
    BY DEF NextPage
<1>2. ~page.done /\ matching \in SUBSET Nat
    BY DEF NextPage, Matching, LogTyped
<1>3. CASE Len(rows) > PageSize
    <2> DEFINE shown == SubSeq(rows, 1, PageSize)
    <2>1. /\ shown \in Seq(matching) /\ Descending(shown)
          /\ rows[PageSize] \in matching
          /\ Values(shown) = {k \in matching : rows[PageSize] <= k}
        BY <1>2, <1>3, PageRows
    <2> QED
        BY <1>1, <1>2, <1>3, <2>1, ShowKeeps
<1>4. CASE ~(Len(rows) > PageSize)
    <2>1. rows \in Seq(matching) /\ Descending(rows) /\ Values(rows) = matching
        BY <1>2, <1>4, LastRows
    <2> QED
        BY <1>1, <1>2, <1>4, <2>1, ShowKeeps
<1> QED
    BY <1>3, <1>4

(* Paging is exact for any filter, page size and number of events, however     *)
(* many are appended while a person reads: a finished reader has seen what     *)
(* there was when it began, newest first, each row once (listEventPage).       *)
THEOREM PagingIsExact == LogSpec => []PagesAreExact
<1>1. LogInit => Paged
    <2> SUFFICES ASSUME LogInit PROVE Paged
        OBVIOUS
    <2>1. /\ page \in [filter : Sessions \cup {All}, cursor : {None}, shown : {<<>>}, done : {FALSE}]
          /\ log = <<>> /\ top = 0
        BY DEF LogInit
    <2>2. page.shown = <<>> /\ page.cursor = None /\ page.done = FALSE
        BY <2>1
    <2>3. page \in [filter : Sessions \cup {All}, cursor : 0..Len(log),
                    shown : Seq(Nat), done : BOOLEAN]
        <3>1. None \in 0..Len(log) /\ <<>> \in Seq(Nat) /\ FALSE \in BOOLEAN
            BY <2>1 DEF None
        <3> QED
            BY <2>1, <3>1
    <2>4. Wanted = {} /\ Values(page.shown) = {} /\ Descending(page.shown)
        BY <2>1, <2>2 DEF Wanted, Values, Descending
    <2> QED
        BY <2>1, <2>2, <2>3, <2>4 DEF Paged
<1>2. LogInv /\ Paged /\ [LogNext]_logVars => Paged'
    <2> SUFFICES ASSUME LogInv, Paged, [LogNext]_logVars PROVE Paged'
        OBVIOUS
    <2>1. Len(log) \in Nat
        BY DEF LogInv, LogTyped
    <2>2. ASSUME UNCHANGED <<page, top, log>> PROVE Paged'
        BY <2>1, <2>2, PagedKept
    <2>3. ASSUME NEW a \in Appenders, NEW s \in Sessions, BeginAppend(a, s) PROVE Paged'
        BY <2>2, <2>3 DEF BeginAppend
    <2>4. ASSUME NEW a \in Appenders, ReadHead(a) \/ Crash(a) PROVE Paged'
        BY <2>2, <2>4 DEF ReadHead, Crash
    <2>5. ASSUME NEW a \in Appenders, Insert(a) PROVE Paged'
        <3>1. append[a].event \in Event /\ log \in Seq(Event)
            BY <2>5, Busy DEF LogInv, LogTyped, Insert, Appending
        <3>2. /\ Len(log') = Len(log) + 1
              /\ \A i \in 1..Len(log) : log'[i] = log[i]
            BY <2>5, <3>1 DEF Insert
        <3> QED
            BY <2>1, <2>5, <3>2, PagedKept DEF Insert
    <2>6. CASE NextPage
        BY <2>6, NextPageKeeps DEF LogInv
    <2>7. CASE UNCHANGED logVars
        BY <2>2, <2>7 DEF logVars
    <2> QED
        BY <2>3, <2>4, <2>5, <2>6, <2>7 DEF LogNext
<1>3. LogInv /\ Paged => PagesAreExact
    <2> SUFFICES ASSUME LogInv, Paged PROVE PagesAreExact
        OBVIOUS
    <2>1. LogTypeOK
        BY DEF LogInv, LogTyped, Paged, LogTypeOK, Appending
    <2>2. page.done => Values(page.shown) = Wanted
        BY DEF Paged
    <2> QED
        BY <2>1, <2>2 DEF Paged, PagesAreExact, Values, Wanted, Descending
<1> QED
    BY <1>1, <1>2, <1>3, LogInvariant, PTL DEF LogSpec

-------------------------------------------------------------------------------
(* The session row *)

(* The calls on the row do not overlap: what the methods of                 *)
(* AgentSessionManager rely on, and nothing enforces.                       *)
OneAtATime == \A c, d \in Calls : call[c] # Idle /\ call[d] # Idle => c = d

(* What the emergency stop relies on: one process that is asked to stop.    *)
OneProcess == \A p, q \in Procs : p = q

(* A call knows what it is doing where it stands.                           *)
CallFits(e) ==
    e # Idle =>
        /\ e.pc = "save" => e.op.kind \in {"stop", "clear"}
        /\ e.pc \in {"list", "relist"} => e.op.kind \in {"stop", "revokeAll"}
        /\ e.pc \in {"read", "write"} => e.op.kind # "clear"
        /\ e.pc = "write" => e.row # NoSession
        /\ e.pc = "buy" => e.op.kind = "spend"

SessionTyped ==
    /\ TypeOK
    /\ \A c \in Calls : /\ CallFits(call[c])
                        /\ call[c] # Idle => session # NoSession

(* Who is to make a session live again has said so before.                  *)
Reviving(op) == op.kind = "status" /\ op.to \in {"active", "paused"}

(* The row a call is about to save is the one that is there, what it is     *)
(* about to book fits the budget, and what it is about to buy is booked.    *)
CallSerial(e) ==
    /\ e.pc = "write" => e.row = session
    /\ e.pc = "write" /\ e.op.kind = "spend" => session.spend + e.op.eur <= session.cap
    /\ e.pc = "buy" => bought + e.op.eur <= session.spend
    /\ e # Idle /\ Reviving(e.op) => ~ended

RowSerial ==
    /\ taken # {} => session # NoSession /\ taken \subseteq session.deny
    /\ bought > 0 => session # NoSession /\ bought <= session.spend
    /\ ended => session # NoSession /\ session.status \in {"revoked", "expired"}

SerialRow ==
    /\ SessionTyped
    /\ RowSerial
    /\ \A c \in Calls : CallSerial(call[c])

(* The setting and the memory of the process agree, but for a stop or its   *)
(* end whose setting is not yet saved.                                      *)
CallRemembered(e) ==
    /\ e.pc = "save" => stopped[e.proc] = (e.op.kind = "stop")
    /\ e # Idle /\ e.op.kind = "stop" => stopped[e.proc] /\ (e.pc # "save" => setting)

Remembered ==
    /\ pressed = "stop" => setting /\ Procs # {}
    /\ (\A c \in Calls : call[c].pc # "save") => \A p \in Procs : stopped[p] = setting
    /\ \A c \in Calls : CallRemembered(call[c])

(* A record that is not Idle is a call with all of its fields. *)
LEMMA CallRecord ==
    ASSUME SessionTyped, NEW c \in Calls, call[c].pc # "idle"
    PROVE call[c] \in Call /\ call[c] # Idle
BY DEF SessionTyped, TypeOK, Idle

(* What an operation is made of, by its kind. *)
LEMMA OperationKinds ==
    ASSUME NEW op \in Operation
    PROVE /\ op.kind \in {"status", "increment", "clear", "spend", "extend", "grant",
                          "narrow", "stop", "revokeAll"}
          /\ op.kind = "status" => op.to \in SessionStatus
          /\ op.kind \in {"stop", "revokeAll"} =>
               /\ op \in [kind : {"stop", "revokeAll"}, to : {"revoked", "expired"}]
               /\ op.to \in SessionStatus
          /\ op.kind = "spend" => op.eur \in Nat
          /\ op.kind = "extend" => op.expires \in Nat
          /\ op.kind = "grant" =>
               /\ op.capability \in Capabilities
               /\ op.target \in Targets \cup {NoTarget}
               /\ op.environments \subseteq Environments
          /\ op.kind = "narrow" =>
               /\ op.capabilities \subseteq Capabilities
               /\ op.targets \in Seq(SUBSET Targets)
               /\ op.expires \in Seq(Nat)
               /\ op.cap \in Seq(Nat)
BY DEF Operation, SessionStatus

(* What a narrowing sets a field to, or leaves it at. *)
LEMMA FieldSet ==
    ASSUME NEW S, NEW old \in S, NEW s \in Seq(S)
    PROVE (IF s = <<>> THEN old ELSE s[1]) \in S
OBVIOUS

(* The row a call saves is a session, and what has changed in it.           *)
LEMMA UpdatedTyped ==
    ASSUME NEW op \in Operation, op.kind # "clear", NEW row \in Session
    PROVE /\ Updated(op, row) \in Session
          /\ op.kind \in {"status", "stop", "revokeAll"} => Updated(op, row).status = op.to
          /\ op.kind \notin {"status", "stop", "revokeAll"} => Updated(op, row).status = row.status
          /\ Updated(op, row).spend = IF op.kind = "spend" THEN row.spend + op.eur ELSE row.spend
          /\ op.kind # "narrow" => Updated(op, row).cap = row.cap
          /\ Updated(op, row).deny = CASE op.kind = "narrow" -> row.deny \cup op.capabilities
                                       [] op.kind = "grant" -> row.deny \ {op.capability}
                                       [] OTHER -> row.deny
<1> DEFINE new == Updated(op, row)
<1>1. CASE op.kind \in {"status", "stop", "revokeAll"}
  <2>1. new = [row EXCEPT !.status = op.to] /\ op.to \in SessionStatus
    BY <1>1, OperationKinds DEF Updated
  <2> QED
    BY <1>1, <2>1 DEF Session
<1>2. CASE op.kind = "increment"
  <2>1. new = [row EXCEPT !.count = @ + 1]
    BY <1>2 DEF Updated
  <2> QED
    BY <1>2, <2>1 DEF Session
<1>3. CASE op.kind = "spend"
  <2>1. new = [row EXCEPT !.spend = @ + op.eur] /\ op.eur \in Nat
    BY <1>3, OperationKinds DEF Updated
  <2> QED
    BY <1>3, <2>1 DEF Session
<1>4. CASE op.kind = "extend"
  <2>1. new = [row EXCEPT !.expires = op.expires] /\ op.expires \in Nat
    BY <1>4, OperationKinds DEF Updated
  <2> QED
    BY <1>4, <2>1 DEF Session
<1>5. CASE op.kind = "grant"
  <2>1. new = GrantScope(row, op)
    BY <1>5 DEF Updated
  <2>2. /\ op.capability \in Capabilities
        /\ op.target \in Targets \cup {NoTarget}
        /\ op.environments \subseteq Environments
    BY <1>5, OperationKinds
  <2> DEFINE targets == IF op.target = NoTarget THEN row.targets
                        ELSE row.targets \cup {op.target}
  <2>3. targets \in SUBSET Targets
    BY <2>2 DEF Session
  <2>4. new = [row EXCEPT !.targets = targets, !.environments = @ \cup op.environments,
                          !.allow = @ \cup {op.capability}, !.deny = @ \ {op.capability},
                          !.requireApproval = @ \ {op.capability}]
    BY <2>1 DEF GrantScope
  <2> HIDE DEF targets, new
  <2>5. new \in Session
    BY <2>2, <2>3, <2>4 DEF Session, Patterns
  <2>6. /\ new.deny = row.deny \ {op.capability} /\ new.status = row.status
        /\ new.spend = row.spend /\ new.cap = row.cap
    BY <2>4 DEF Session
  <2> QED
    BY <1>5, <2>5, <2>6 DEF new
<1>6. CASE op.kind = "narrow"
  <2> DEFINE targets == IF op.targets = <<>> THEN row.targets ELSE op.targets[1]
             expires == IF op.expires = <<>> THEN row.expires ELSE op.expires[1]
             cap == IF op.cap = <<>> THEN row.cap ELSE op.cap[1]
  <2>1. /\ op.capabilities \subseteq Capabilities
        /\ op.targets \in Seq(SUBSET Targets)
        /\ op.expires \in Seq(Nat) /\ op.cap \in Seq(Nat)
    BY <1>6, OperationKinds
  <2>2. targets \in SUBSET Targets /\ expires \in Nat /\ cap \in Nat
    <3>1. row.targets \in SUBSET Targets /\ row.expires \in Nat /\ row.cap \in Nat
      BY DEF Session
    <3> QED
      BY <2>1, <3>1, FieldSet
  <2>3. new = [row EXCEPT !.targets = targets, !.allow = @ \ op.capabilities,
                 !.allowWithinApprovedPlan = @ \ op.capabilities,
                 !.requireApproval = @ \ op.capabilities,
                 !.deny = @ \cup op.capabilities, !.expires = expires, !.cap = cap]
    BY <1>6 DEF Updated, NarrowScope
  <2> HIDE DEF targets, expires, cap, new
  <2>4. new \in Session
    BY <2>1, <2>2, <2>3 DEF Session, Patterns
  <2>5. /\ new.deny = row.deny \cup op.capabilities /\ new.status = row.status
        /\ new.spend = row.spend
    BY <2>3 DEF Session
  <2> QED
    BY <1>6, <2>4, <2>5 DEF new
<1> QED
  BY <1>1, <1>2, <1>3, <1>4, <1>5, <1>6, OperationKinds

(* What else a step of the sessions keeps. *)
OthersTyped ==
    /\ now \in 0..MaxTime
    /\ setting \in BOOLEAN
    /\ stopped \in [Procs -> BOOLEAN]
    /\ bought \in Nat
    /\ taken \subseteq Capabilities
    /\ ended \in BOOLEAN
    /\ pressed \in {"none", "stop", "clear"}

(* A step that moves one call and leaves the row alone. *)
LEMMA CallMoved ==
    ASSUME SessionTyped, OthersTyped', session' = session, NEW c \in Calls,
           NEW e \in {Idle} \cup Call, CallFits(e),
           e # Idle => session # NoSession,
           call' = [call EXCEPT ![c] = e]
    PROVE SessionTyped'
BY DEF SessionTyped, TypeOK, OthersTyped, CallFits

LEMMA BeginTyped ==
    ASSUME SessionTyped, NEW c \in Calls, NEW p \in Procs, NEW op \in Operation,
           Begin(c, p, op)
    PROVE SessionTyped'
<1> DEFINE e == [pc |-> FirstPc(p, op), proc |-> p, op |-> op, row |-> NoSession]
<1>1. op \in Operation /\ stopped[p] \in BOOLEAN
  BY DEF SessionTyped, TypeOK
<1>2. /\ FirstPc(p, op) \in {"save", "list", "read"}
      /\ FirstPc(p, op) = "save" => op.kind \in {"stop", "clear"}
      /\ FirstPc(p, op) = "list" => op.kind \in {"stop", "revokeAll"}
      /\ FirstPc(p, op) = "read" => op.kind # "clear"
  BY <1>1, OperationKinds DEF FirstPc
<1>3. e \in Call
  BY <1>1, <1>2 DEF Call, CallPc
<1>4. CallFits(e)
  BY <1>2 DEF CallFits
<1>5. OthersTyped'
  BY <1>1, OperationKinds DEF Begin, OthersTyped, SessionTyped, TypeOK
<1>6. call' = [call EXCEPT ![c] = e] /\ session' = session /\ session # NoSession
  BY DEF Begin
<1> HIDE DEF e
<1> QED
  BY <1>3, <1>4, <1>5, <1>6, CallMoved

LEMMA SaveTyped ==
    ASSUME SessionTyped, NEW c \in Calls, Save(c)
    PROVE SessionTyped'
<1>1. call[c] \in Call /\ call[c] # Idle /\ CallFits(call[c])
      /\ session # NoSession
  BY CallRecord DEF Save, SessionTyped
<1> DEFINE stop == call[c].op.kind = "stop"
           e == IF stop THEN [call[c] EXCEPT !.pc = "list"] ELSE Idle
<1>2. e \in {Idle} \cup Call
  BY <1>1 DEF Call, CallPc
<1>3. CallFits(e)
  BY <1>1 DEF CallFits, Call
<1>4. OthersTyped'
  BY DEF Save, OthersTyped, SessionTyped, TypeOK
<1>5. call' = [call EXCEPT ![c] = e] /\ session' = session
  BY DEF Save
<1> HIDE DEF e
<1> QED
  BY <1>1, <1>2, <1>3, <1>4, <1>5, CallMoved

LEMMA ListTyped ==
    ASSUME SessionTyped, NEW c \in Calls, List(c)
    PROVE SessionTyped'
<1>1. call[c] \in Call /\ call[c] # Idle /\ CallFits(call[c])
      /\ session # NoSession
  BY CallRecord DEF List, SessionTyped
<1> DEFINE overdue == session.status = "active" /\ session.expires <= now
           pc == IF overdue THEN "read" ELSE "relist"
           op == IF overdue THEN [call[c].op EXCEPT !.to = "expired"] ELSE call[c].op
           e == [call[c] EXCEPT !.pc = pc, !.op = op]
<1>2. /\ call[c].op.kind \in {"stop", "revokeAll"}
      /\ call[c].op \in [kind : {"stop", "revokeAll"}, to : {"revoked", "expired"}]
  BY <1>1, OperationKinds DEF List, CallFits, Call
<1>3. op \in Operation /\ op.kind = call[c].op.kind
  BY <1>2 DEF Operation
<1>4. pc \in {"read", "relist"}
  OBVIOUS
<1>5. call' = [call EXCEPT ![c] = e] /\ session' = session
  BY <1>1, <1>2 DEF List, SessionTyped, TypeOK, Call
<1> HIDE DEF pc, op, overdue
<1>6. e \in Call
  BY <1>1, <1>3, <1>4 DEF Call, CallPc
<1>7. CallFits(e)
  BY <1>1, <1>2, <1>3, <1>4 DEF CallFits, Call
<1>8. OthersTyped'
  BY DEF List, OthersTyped, SessionTyped, TypeOK
<1> HIDE DEF e
<1> QED
  BY <1>1, <1>5, <1>6, <1>7, <1>8, CallMoved

LEMMA RelistTyped ==
    ASSUME SessionTyped, NEW c \in Calls, Relist(c)
    PROVE SessionTyped'
<1>1. call[c] \in Call /\ call[c] # Idle /\ CallFits(call[c])
      /\ session # NoSession
  BY CallRecord DEF Relist, SessionTyped
<1> DEFINE live == session.status \in {"active", "paused"}
           op == [call[c].op EXCEPT !.to = "revoked"]
           e == IF live THEN [call[c] EXCEPT !.pc = "read", !.op = op] ELSE Idle
<1>2. /\ call[c].op.kind \in {"stop", "revokeAll"}
      /\ call[c].op \in [kind : {"stop", "revokeAll"}, to : {"revoked", "expired"}]
  BY <1>1, OperationKinds DEF Relist, CallFits, Call
<1>3. op \in Operation /\ op.kind = call[c].op.kind
  BY <1>2 DEF Operation
<1>4. call' = [call EXCEPT ![c] = e] /\ session' = session
  BY <1>1, <1>2 DEF Relist, SessionTyped, TypeOK, Call
<1>5. OthersTyped'
  BY DEF Relist, OthersTyped, SessionTyped, TypeOK, Completed
<1> HIDE DEF op, live
<1>6. e \in {Idle} \cup Call
  BY <1>1, <1>3 DEF Call, CallPc
<1>7. CallFits(e)
  BY <1>1, <1>2, <1>3 DEF CallFits, Call
<1> HIDE DEF e
<1> QED
  BY <1>1, <1>4, <1>5, <1>6, <1>7, CallMoved

LEMMA ReadTyped ==
    ASSUME SessionTyped, NEW c \in Calls, Read(c)
    PROVE SessionTyped'
<1>1. call[c] \in Call /\ call[c] # Idle /\ CallFits(call[c])
      /\ session # NoSession
      /\ session \in Session
  BY CallRecord DEF Read, SessionTyped, TypeOK
<1> DEFINE e == IF Refused(call[c].op) THEN Idle
                ELSE [call[c] EXCEPT !.pc = "write", !.row = session]
<1>2. e \in {Idle} \cup Call
  BY <1>1 DEF Call, CallPc
<1>3. CallFits(e)
  BY <1>1 DEF CallFits, Call, Read
<1>4. OthersTyped'
  BY DEF Read, OthersTyped, SessionTyped, TypeOK
<1>5. call' = [call EXCEPT ![c] = e] /\ session' = session
  BY DEF Read
<1> HIDE DEF e
<1> QED
  BY <1>1, <1>2, <1>3, <1>4, <1>5, CallMoved

LEMMA WriteTyped ==
    ASSUME SessionTyped, NEW c \in Calls, Write(c)
    PROVE SessionTyped'
<1>1. /\ call[c] \in Call /\ call[c] # Idle /\ CallFits(call[c])
      /\ call[c].pc = "write" /\ call[c].op \in Operation
  BY CallRecord DEF Write, SessionTyped, Call
<1>2. /\ call[c].op \in Operation /\ call[c].op.kind # "clear"
      /\ call[c].row \in Session
  BY <1>1 DEF CallFits, Call
<1>3. session' \in Session
  BY <1>2, UpdatedTyped DEF Write
<1>4. session' # NoSession
  BY <1>3 DEF Session, NoSession
<1> DEFINE last == call[c].op.kind \in {"stop", "revokeAll"} /\ call[c].op.to = "revoked"
           next == CASE call[c].op.kind = "spend" -> "buy"
                     [] call[c].op.kind \in {"stop", "revokeAll"} /\ ~last -> "relist"
                     [] OTHER -> "idle"
           e == IF next = "idle" THEN Idle
                ELSE [call[c] EXCEPT !.pc = next, !.row = NoSession]
<1>5. /\ next \in {"buy", "relist", "idle"}
      /\ next = "buy" => call[c].op.kind = "spend"
      /\ next = "relist" => call[c].op.kind \in {"stop", "revokeAll"}
  OBVIOUS
<1>6. call' = [call EXCEPT ![c] = e]
  BY DEF Write
<1> HIDE DEF next
<1>7. e \in {Idle} \cup Call
  BY <1>1, <1>5 DEF Call, CallPc
<1>8. CallFits(e)
  BY <1>1, <1>5 DEF CallFits, Call
<1>9. OthersTyped'
  <2>1. taken' \subseteq Capabilities
    BY <1>1, OperationKinds DEF Write, SessionTyped, TypeOK
  <2> QED
    BY <2>1 DEF Write, OthersTyped, SessionTyped, TypeOK, Completed
<1> HIDE DEF e
<1> QED
  BY <1>3, <1>4, <1>6, <1>7, <1>8, <1>9
  DEF SessionTyped, TypeOK, OthersTyped, CallFits

LEMMA BuyTyped ==
    ASSUME SessionTyped, NEW c \in Calls, Buy(c)
    PROVE SessionTyped'
<1>1. call[c] \in Call /\ call[c].op.kind = "spend"
  BY CallRecord DEF Buy, SessionTyped, CallFits
<1>2. call[c].op.eur \in Nat
  BY <1>1, OperationKinds DEF Call
<1>3. OthersTyped'
  BY <1>2 DEF Buy, OthersTyped, SessionTyped, TypeOK
<1>4. call' = [call EXCEPT ![c] = Idle] /\ session' = session /\ CallFits(Idle)
  BY DEF Buy, CallFits
<1> QED
  BY <1>3, <1>4, CallMoved

LEMMA OtherTyped ==
    ASSUME SessionTyped,
           Create \/ Tick \/ \E p \in Procs : Restart(p)
    PROVE SessionTyped'
<1>1. CASE Create
  <2>1. session' \in Session
    BY <1>1, PermissionsAssumption, BoundsAssumption
    DEF Create, Session, SessionStatus, Permissions, SessionTyped, TypeOK
  <2>2. session' # NoSession
    BY <2>1 DEF Session, NoSession
  <2>3. OthersTyped' /\ call' = call
    BY <1>1 DEF Create, OthersTyped, SessionTyped, TypeOK
  <2> QED
    BY <2>1, <2>2, <2>3
    DEF SessionTyped, TypeOK, OthersTyped, CallFits
<1>2. CASE Tick
  <2>1. now + 1 \in 0..MaxTime
    BY <1>2, PermissionsAssumption, BoundsAssumption DEF Tick, SessionTyped, TypeOK
  <2> QED
    BY <1>2, <2>1 DEF Tick, SessionTyped, TypeOK, CallFits
<1>3. ASSUME NEW p \in Procs, Restart(p)
      PROVE SessionTyped'
  BY <1>3 DEF Restart, SessionTyped, TypeOK, CallFits
<1> QED
  BY <1>1, <1>2, <1>3

-------------------------------------------------------------------------------
(* One call at a time *)

LEMMA SessionTypedNext == SessionTyped /\ [Next]_vars => SessionTyped'
<1> SUFFICES ASSUME SessionTyped, [Next]_vars PROVE SessionTyped'
  OBVIOUS
<1>1. ASSUME NEW c \in Calls, NEW p \in Procs, NEW op \in Ops, Begin(c, p, op)
      PROVE SessionTyped'
  BY <1>1, OpsAssumption, BeginTyped
<1>2. ASSUME NEW c \in Calls,
             Save(c) \/ List(c) \/ Relist(c) \/ Read(c) \/ Write(c) \/ Buy(c)
      PROVE SessionTyped'
  BY <1>2, SaveTyped, ListTyped, RelistTyped, ReadTyped, WriteTyped, BuyTyped
<1>3. CASE Create \/ Tick \/ \E p \in Procs : Restart(p)
  BY <1>3, OtherTyped
<1>4. CASE UNCHANGED vars
  BY <1>4 DEF vars, SessionTyped, TypeOK, CallFits
<1> QED
  BY <1>1, <1>2, <1>3, <1>4 DEF Next

LEMMA SessionTypedInit == Init => SessionTyped
<1> SUFFICES ASSUME Init PROVE SessionTyped
  OBVIOUS
<1>1. now \in 0..MaxTime
  BY BoundsAssumption DEF Init
<1>2. \A c \in Calls : call[c] = Idle
  BY DEF Init
<1> QED
  BY <1>1, <1>2 DEF Init, SessionTyped, TypeOK, CallFits

(* While a call is under way the others are not.                           *)
LEMMA OthersIdle ==
    ASSUME OneAtATime, NEW c \in Calls, call[c] # Idle, NEW d \in Calls, d # c
    PROVE call[d] = Idle
BY DEF OneAtATime

(* A step of the only call there is.                                       *)
LEMMA OneCall ==
    ASSUME SessionTyped, NEW c \in Calls, NEW e, call' = [call EXCEPT ![c] = e],
           \A d \in Calls : d # c => call[d] = Idle, CallSerial(e)'
    PROVE \A d \in Calls : CallSerial(call[d])'
<1> SUFFICES ASSUME NEW d \in Calls PROVE CallSerial(call[d])'
  OBVIOUS
<1>1. CASE d = c
  <2>1. call'[d] = e
    BY <1>1 DEF SessionTyped, TypeOK
  <2> QED
    BY <2>1 DEF CallSerial
<1>2. CASE d # c
  <2>1. call'[d] = Idle
    BY <1>2 DEF SessionTyped, TypeOK
  <2> QED
    BY <2>1 DEF CallSerial, Idle
<1> QED
  BY <1>1, <1>2

LEMMA RevivingOps ==
    ASSUME NEW op \in Operation, Reviving(op)
    PROVE op \in {SetStatus("active"), SetStatus("paused")}
<1>1. op \in [kind : {"status"}, to : SessionStatus]
  BY DEF Reviving, Operation
<1> QED
  BY <1>1 DEF Reviving, SetStatus

LEMMA SerialBegin ==
    ASSUME SerialRow, OneAtATime', NEW c \in Calls, NEW p \in Procs, NEW op \in Operation,
           Begin(c, p, op)
    PROVE RowSerial' /\ \A d \in Calls : CallSerial(call[d])'
<1>1. /\ UNCHANGED <<session, bought, taken>>
      /\ ended' => ended /\ op \notin {SetStatus("active"), SetStatus("paused")}
  BY DEF Begin
<1>2. PICK e : /\ call' = [call EXCEPT ![c] = e]
               /\ e # Idle /\ e.pc \notin {"write", "buy"} /\ e.op = op
  <2> DEFINE e == [pc |-> FirstPc(p, op), proc |-> p, op |-> op, row |-> NoSession]
  <2>1. call' = [call EXCEPT ![c] = e]
    BY DEF Begin
  <2>2. e.pc \in {"save", "list", "read"} /\ e.op = op /\ e # Idle
    BY DEF FirstPc, Idle
  <2> HIDE DEF e
  <2> QED
    BY <2>1, <2>2
<1>3. ASSUME NEW d \in Calls, d # c PROVE call[d] = Idle
  <2>1. call'[c] = e /\ call'[d] = call[d]
    BY <1>2, <1>3 DEF SerialRow, SessionTyped, TypeOK
  <2> QED
    BY <1>2, <1>3, <2>1 DEF OneAtATime
<1>4. CallSerial(e)'
  BY <1>1, <1>2, RevivingOps DEF CallSerial
<1>5. RowSerial'
  BY <1>1 DEF SerialRow, RowSerial
<1> QED
  BY <1>2, <1>3, <1>4, <1>5, OneCall DEF SerialRow

LEMMA SerialSave ==
    ASSUME SerialRow, OneAtATime, NEW c \in Calls, Save(c)
    PROVE RowSerial' /\ \A d \in Calls : CallSerial(call[d])'
<1>1. call[c] \in Call /\ call[c] # Idle
  BY CallRecord DEF Save, SerialRow
<1>2. UNCHANGED <<session, bought, taken, ended>>
  BY DEF Save
<1>3. PICK e : /\ call' = [call EXCEPT ![c] = e]
               /\ e.pc \notin {"write", "buy"} /\ (e # Idle => e.op.kind = "stop")
  <2>1. CASE call[c].op.kind = "stop"
    <3> DEFINE e == [call[c] EXCEPT !.pc = "list"]
    <3>1. call' = [call EXCEPT ![c] = e] /\ e.pc = "list" /\ e.op.kind = "stop"
      BY <1>1, <2>1 DEF Save, Call
    <3> HIDE DEF e
    <3> QED
      BY <3>1
  <2>2. CASE call[c].op.kind # "stop"
    <3>1. call' = [call EXCEPT ![c] = Idle]
      BY <2>2 DEF Save
    <3> QED
      BY <3>1 DEF Idle
  <2> QED
    BY <2>1, <2>2
<1>4. CallSerial(e)'
  BY <1>3 DEF CallSerial, Reviving
<1>5. RowSerial'
  BY <1>2 DEF SerialRow, RowSerial
<1> QED
  BY <1>1, <1>3, <1>4, <1>5, OneCall, OthersIdle DEF SerialRow

(* A call that lists the session goes on with the same operation.          *)
LEMMA ListMoves ==
    ASSUME SessionTyped, NEW c \in Calls, List(c)
    PROVE /\ call[c] \in Call /\ call[c] # Idle
          /\ call[c].op.kind \in {"stop", "revokeAll"}
          /\ \E e : /\ call' = [call EXCEPT ![c] = e]
                    /\ e.pc \in {"read", "relist"}
                    /\ e.proc = call[c].proc /\ e.op.kind = call[c].op.kind
<1>1. /\ call[c] \in Call /\ call[c] # Idle
      /\ call[c].op.kind \in {"stop", "revokeAll"}
      /\ call[c].op \in [kind : {"stop", "revokeAll"}, to : {"revoked", "expired"}]
  BY CallRecord, OperationKinds DEF List, SessionTyped, CallFits, Call
<1> DEFINE overdue == session.status = "active" /\ session.expires <= now
           pc == IF overdue THEN "read" ELSE "relist"
           op == IF overdue THEN [call[c].op EXCEPT !.to = "expired"] ELSE call[c].op
           e == [call[c] EXCEPT !.pc = pc, !.op = op]
<1>2. call' = [call EXCEPT ![c] = e]
  BY <1>1 DEF List, SessionTyped, TypeOK, Call
<1>3. pc \in {"read", "relist"} /\ op.kind = call[c].op.kind
  BY <1>1
<1> HIDE DEF overdue, pc, op
<1>4. e.pc = pc /\ e.op = op /\ e.proc = call[c].proc
  BY <1>1 DEF Call
<1> HIDE DEF e
<1> QED
  BY <1>1, <1>2, <1>3, <1>4

LEMMA RelistMoves ==
    ASSUME SessionTyped, NEW c \in Calls, Relist(c)
    PROVE /\ call[c] \in Call /\ call[c] # Idle
          /\ call[c].op.kind \in {"stop", "revokeAll"}
          /\ \E e : /\ call' = [call EXCEPT ![c] = e]
                    /\ \/ e = Idle
                       \/ /\ e.pc = "read" /\ e.proc = call[c].proc
                          /\ e.op.kind = call[c].op.kind
<1>1. /\ call[c] \in Call /\ call[c] # Idle
      /\ call[c].op.kind \in {"stop", "revokeAll"}
      /\ call[c].op \in [kind : {"stop", "revokeAll"}, to : {"revoked", "expired"}]
  BY CallRecord, OperationKinds DEF Relist, SessionTyped, CallFits, Call
<1> DEFINE live == session.status \in {"active", "paused"}
           op == [call[c].op EXCEPT !.to = "revoked"]
           e == IF live THEN [call[c] EXCEPT !.pc = "read", !.op = op] ELSE Idle
<1>2. call' = [call EXCEPT ![c] = e]
  BY <1>1 DEF Relist, SessionTyped, TypeOK, Call
<1>3. op.kind = call[c].op.kind
  BY <1>1
<1> HIDE DEF op, live
<1>4. e = Idle \/ (e.pc = "read" /\ e.op = op /\ e.proc = call[c].proc)
  BY <1>1 DEF Call
<1> HIDE DEF e
<1> QED
  BY <1>1, <1>2, <1>3, <1>4

LEMMA SerialList ==
    ASSUME SerialRow, OneAtATime, NEW c \in Calls, List(c)
    PROVE RowSerial' /\ \A d \in Calls : CallSerial(call[d])'
<1>1. UNCHANGED <<session, bought, taken, ended>>
  BY DEF List
<1>2. call[c] # Idle
  BY ListMoves DEF SerialRow
<1>3. PICK e : /\ call' = [call EXCEPT ![c] = e]
               /\ e.pc \in {"read", "relist"} /\ e.op.kind \in {"stop", "revokeAll"}
  BY ListMoves DEF SerialRow
<1>4. CallSerial(e)'
  BY <1>3 DEF CallSerial, Reviving
<1>5. RowSerial'
  BY <1>1 DEF SerialRow, RowSerial
<1> QED
  BY <1>2, <1>3, <1>4, <1>5, OneCall, OthersIdle DEF SerialRow

LEMMA SerialRelist ==
    ASSUME SerialRow, OneAtATime, NEW c \in Calls, Relist(c)
    PROVE RowSerial' /\ \A d \in Calls : CallSerial(call[d])'
<1>1. call[c] # Idle /\ session \in Session /\ session # NoSession
  BY RelistMoves DEF SerialRow, SessionTyped, TypeOK
<1>2. /\ UNCHANGED <<session, bought, taken>>
      /\ ended' = (ended \/ session.status \notin {"active", "paused"})
  BY DEF Relist
<1>3. PICK e : /\ call' = [call EXCEPT ![c] = e]
               /\ \/ e = Idle
                  \/ e.pc = "read" /\ e.op.kind \in {"stop", "revokeAll"}
  BY RelistMoves DEF SerialRow
<1>4. CallSerial(e)'
  BY <1>3 DEF CallSerial, Reviving, Idle
<1>5. RowSerial'
  <2>1. session.status \notin {"active", "paused"} => session.status \in {"revoked", "expired"}
    BY <1>1 DEF Session, SessionStatus
  <2> QED
    BY <1>1, <1>2, <2>1 DEF SerialRow, RowSerial
<1> QED
  BY <1>1, <1>3, <1>4, <1>5, OneCall, OthersIdle DEF SerialRow

LEMMA SerialRead ==
    ASSUME SerialRow, OneAtATime, NEW c \in Calls, Read(c)
    PROVE RowSerial' /\ \A d \in Calls : CallSerial(call[d])'
<1>1. /\ call[c] \in Call /\ call[c] # Idle /\ call[c].op \in Operation
      /\ session \in Session
  BY CallRecord DEF Read, SerialRow, SessionTyped, TypeOK, CallFits, Call
<1>2. UNCHANGED <<session, bought, taken, ended>>
  BY DEF Read
<1>3. PICK e : /\ call' = [call EXCEPT ![c] = e]
               /\ \/ e = Idle
                  \/ /\ e.pc = "write" /\ e.row = session /\ e.op = call[c].op
                     /\ ~Refused(call[c].op)
  <2>1. CASE Refused(call[c].op)
    BY <2>1 DEF Read
  <2>2. CASE ~Refused(call[c].op)
    <3> DEFINE e == [call[c] EXCEPT !.pc = "write", !.row = session]
    <3>1. /\ call' = [call EXCEPT ![c] = e]
          /\ e.pc = "write" /\ e.row = session /\ e.op = call[c].op
      BY <1>1, <2>2 DEF Read, Call
    <3> HIDE DEF e
    <3> QED
      BY <2>2, <3>1
  <2> QED
    BY <2>1, <2>2
<1>4. CallSerial(e)'
  <2>1. CASE e = Idle
    BY <2>1 DEF CallSerial, Idle
  <2>2. CASE e # Idle
    <3>1. e.op.kind = "spend" => session.spend + e.op.eur <= session.cap
      <4>1. e.op.kind = "spend" =>
              session.spend \in Nat /\ session.cap \in Nat /\ e.op.eur \in Nat
        BY <1>1, <1>3, <2>2, OperationKinds DEF Session
      <4> QED
        BY <1>3, <2>2, <4>1 DEF Refused
    <3>2. Reviving(e.op) => ~ended
      BY <1>1, <1>3, <2>2 DEF SerialRow, CallSerial
    <3> QED
      BY <1>2, <1>3, <2>2, <3>1, <3>2 DEF CallSerial
  <2> QED
    BY <2>1, <2>2
<1>5. RowSerial'
  BY <1>2 DEF SerialRow, RowSerial
<1> QED
  BY <1>1, <1>3, <1>4, <1>5, OneCall, OthersIdle DEF SerialRow

LEMMA SerialWrite ==
    ASSUME SerialRow, OneAtATime, NEW c \in Calls, Write(c)
    PROVE RowSerial' /\ \A d \in Calls : CallSerial(call[d])'
<1> DEFINE op == call[c].op
           last == op.kind \in {"stop", "revokeAll"} /\ op.to = "revoked"
<1>1. /\ call[c] \in Call /\ call[c] # Idle /\ op \in Operation /\ op.kind # "clear"
      /\ session \in Session /\ call[c].row = session
      /\ Reviving(op) => ~ended
  BY CallRecord
  DEF Write, SerialRow, SessionTyped, TypeOK, CallFits, Call, CallSerial
<1>2. /\ session' = Updated(op, session) /\ bought' = bought
      /\ taken' = CASE op.kind = "narrow" -> taken \cup op.capabilities
                    [] op.kind = "grant"  -> taken \ {op.capability}
                    [] OTHER              -> taken
      /\ ended' = (ended \/ last)
  BY <1>1 DEF Write
<1> HIDE DEF op, last
<1>3. /\ session' \in Session
      /\ op.kind \in {"status", "stop", "revokeAll"} => session'.status = op.to
      /\ op.kind \notin {"status", "stop", "revokeAll"} => session'.status = session.status
      /\ session'.spend = IF op.kind = "spend" THEN session.spend + op.eur ELSE session.spend
      /\ session'.deny = CASE op.kind = "narrow" -> session.deny \cup op.capabilities
                            [] op.kind = "grant" -> session.deny \ {op.capability}
                            [] OTHER -> session.deny
  BY <1>1, <1>2, UpdatedTyped
<1>4. /\ session' # NoSession /\ session # NoSession
      /\ session.spend \in Nat /\ bought \in Nat
      /\ op.kind = "spend" => op.eur \in Nat
  BY <1>1, <1>3, OperationKinds DEF Session, NoSession, SessionStatus, SerialRow, SessionTyped, TypeOK
<1>5. RowSerial'
  <2>1. taken' \subseteq session'.deny
    BY <1>2, <1>3 DEF SerialRow, RowSerial
  <2>2. bought' > 0 => bought' <= session'.spend
    BY <1>2, <1>3, <1>4 DEF SerialRow, RowSerial
  <2>3. ended' => session'.status \in {"revoked", "expired"}
    <3>1. CASE op.kind \in {"stop", "revokeAll"}
      BY <1>1, <1>3, <3>1, OperationKinds
    <3>2. CASE op.kind = "status"
      <4>1. ended' => ended
        BY <1>2, <3>2 DEF last
      <4>2. op.to \in SessionStatus
        BY <1>1, <3>2, OperationKinds
      <4> QED
        BY <1>1, <1>3, <3>2, <4>1, <4>2 DEF Reviving, SessionStatus
    <3>3. CASE op.kind \notin {"status", "stop", "revokeAll"}
      BY <1>2, <1>3, <3>3 DEF last, SerialRow, RowSerial
    <3> QED
      BY <3>1, <3>2, <3>3
  <2> QED
    BY <1>4, <2>1, <2>2, <2>3 DEF RowSerial
<1>6. PICK e : /\ call' = [call EXCEPT ![c] = e]
               /\ \/ e = Idle
                  \/ /\ e.op = op
                     /\ \/ e.pc = "buy" /\ op.kind = "spend"
                        \/ e.pc = "relist" /\ op.kind \in {"stop", "revokeAll"}
  <2>1. CASE op.kind = "spend"
    <3> DEFINE e == [call[c] EXCEPT !.pc = "buy", !.row = NoSession]
    <3>1. call' = [call EXCEPT ![c] = e] /\ e.pc = "buy" /\ e.op = op
      BY <1>1, <2>1 DEF Write, Call, op
    <3> HIDE DEF e
    <3> QED
      BY <2>1, <3>1
  <2>2. CASE op.kind \in {"stop", "revokeAll"} /\ op.to # "revoked"
    <3> DEFINE e == [call[c] EXCEPT !.pc = "relist", !.row = NoSession]
    <3>1. call' = [call EXCEPT ![c] = e] /\ e.pc = "relist" /\ e.op = op
      BY <1>1, <2>2 DEF Write, Call, op
    <3> HIDE DEF e
    <3> QED
      BY <2>2, <3>1
  <2>3. CASE op.kind # "spend" /\ ~(op.kind \in {"stop", "revokeAll"} /\ op.to # "revoked")
    BY <2>3 DEF Write, op
  <2> QED
    BY <2>1, <2>2, <2>3
<1>7. CallSerial(e)'
  <2>1. CASE e = Idle
    BY <2>1 DEF CallSerial, Idle
  <2>2. CASE e.op = op /\ e.pc = "buy" /\ op.kind = "spend"
    <3>1. bought' + op.eur <= session'.spend
      BY <1>2, <1>3, <1>4, <2>2 DEF SerialRow, RowSerial
    <3> QED
      BY <2>2, <3>1 DEF CallSerial, Reviving
  <2>3. CASE e.op = op /\ e.pc = "relist" /\ op.kind \in {"stop", "revokeAll"}
    BY <2>3 DEF CallSerial, Reviving
  <2> QED
    BY <1>6, <2>1, <2>2, <2>3
<1> QED
  BY <1>1, <1>5, <1>6, <1>7, OneCall, OthersIdle DEF SerialRow

LEMMA SerialBuy ==
    ASSUME SerialRow, OneAtATime, NEW c \in Calls, Buy(c)
    PROVE RowSerial' /\ \A d \in Calls : CallSerial(call[d])'
<1>1. /\ call[c] \in Call /\ call[c] # Idle /\ session # NoSession
      /\ session \in Session /\ call[c].op.eur \in Nat
      /\ bought \in Nat /\ session.spend \in Nat
  <2>1. call[c] \in Call /\ call[c] # Idle /\ session # NoSession
    BY CallRecord DEF Buy, SerialRow, SessionTyped
  <2>2. call[c].op \in Operation /\ call[c].op.kind = "spend"
    BY <2>1 DEF Buy, Call, SerialRow, SessionTyped, CallFits
  <2>3. session \in Session /\ bought \in Nat
    BY <2>1 DEF SerialRow, SessionTyped, TypeOK
  <2> QED
    BY <2>1, <2>2, <2>3, OperationKinds DEF Session
<1>2. bought + call[c].op.eur <= session.spend
  BY DEF Buy, SerialRow, CallSerial
<1>3. /\ call' = [call EXCEPT ![c] = Idle] /\ UNCHANGED <<session, taken, ended>>
      /\ bought' = bought \/ bought' = bought + call[c].op.eur
  BY DEF Buy
<1>4. bought' <= session.spend
  BY <1>1, <1>2, <1>3
<1>5. RowSerial'
  BY <1>1, <1>3, <1>4 DEF SerialRow, RowSerial
<1>6. CallSerial(Idle)'
  BY DEF CallSerial, Idle
<1> QED
  BY <1>1, <1>3, <1>5, <1>6, OneCall, OthersIdle DEF SerialRow

(* What happens to no call in particular.                                  *)
LEMMA SerialOther ==
    ASSUME SerialRow, \/ Create \/ Tick \/ UNCHANGED vars
                      \/ \E p \in Procs : Restart(p)
    PROVE RowSerial' /\ \A d \in Calls : CallSerial(call[d])'
<1>1. CASE Create
  <2>1. /\ session = NoSession
        /\ UNCHANGED <<call, bought, taken, ended>>
    BY <1>1 DEF Create
  <2>2. bought = 0 /\ taken = {} /\ ~ended
    BY <2>1 DEF SerialRow, RowSerial, SessionTyped, TypeOK
  <2>3. \A d \in Calls : call[d] = Idle
    BY <2>1 DEF SerialRow, SessionTyped
  <2> QED
    BY <2>1, <2>2, <2>3 DEF RowSerial, CallSerial, Idle
<1>2. CASE Tick \/ UNCHANGED vars
  BY <1>2 DEF Tick, vars, SerialRow, RowSerial, CallSerial
<1>3. ASSUME NEW p \in Procs, Restart(p)
      PROVE RowSerial' /\ \A d \in Calls : CallSerial(call[d])'
  <2>1. UNCHANGED <<session, bought, taken, ended>>
    BY <1>3 DEF Restart
  <2>2. \A d \in Calls : call'[d] = Idle \/ call'[d] = call[d]
    BY <1>3 DEF Restart
  <2> QED
    BY <2>1, <2>2 DEF SerialRow, RowSerial, CallSerial, Idle
<1> QED
  BY <1>1, <1>2, <1>3

LEMMA SerialNext == SerialRow /\ OneAtATime /\ OneAtATime' /\ [Next]_vars => SerialRow'
<1> SUFFICES ASSUME SerialRow, OneAtATime, OneAtATime', [Next]_vars
             PROVE RowSerial' /\ \A d \in Calls : CallSerial(call[d])'
  BY SessionTypedNext DEF SerialRow
<1>1. ASSUME NEW c \in Calls, NEW p \in Procs, NEW op \in Ops, Begin(c, p, op)
      PROVE RowSerial' /\ \A d \in Calls : CallSerial(call[d])'
  BY <1>1, OpsAssumption, SerialBegin
<1>2. ASSUME NEW c \in Calls,
             Save(c) \/ List(c) \/ Relist(c) \/ Read(c) \/ Write(c) \/ Buy(c)
      PROVE RowSerial' /\ \A d \in Calls : CallSerial(call[d])'
  BY <1>2, SerialSave, SerialList, SerialRelist, SerialRead, SerialWrite, SerialBuy
<1>3. CASE Create \/ Tick \/ UNCHANGED vars \/ \E p \in Procs : Restart(p)
  BY <1>3, SerialOther
<1> QED
  BY <1>1, <1>2, <1>3 DEF Next

LEMMA SerialInit == Init => SerialRow
<1> SUFFICES ASSUME Init PROVE RowSerial /\ \A c \in Calls : CallSerial(call[c])
  BY SessionTypedInit DEF SerialRow
<1> QED
  BY DEF Init, RowSerial, CallSerial, Idle

(* SerialRow holds of every reachable state while the calls do not overlap.   *)
LEMMA SerialInvariant == Spec /\ []OneAtATime => []SerialRow
BY SerialInit, SerialNext, PTL DEF Spec

(* Calls of narrowScope, grantScope and the rest that come one at a time keep *)
(* what was taken from a session out of its reach, for any capabilities and   *)
(* operations: narrowScope writes it into `deny`, and nothing but a grant of  *)
(* it removes it.  An overlapping call can save the row as it was before.     *)
THEOREM WhatIsTakenStaysOut == Spec /\ []OneAtATime => []TakenStaysOut
<1>1. SerialRow => TakenStaysOut
  <2> SUFFICES ASSUME SerialRow, NEW request \in Request, NEW stop \in BOOLEAN,
                      NEW planApproved \in BOOLEAN, request.capability \in taken
               PROVE Evaluate(session, request, stop, planApproved) = "deny"
    BY DEF TakenStaysOut
  <2>1. request.capability \in session.deny
    BY DEF SerialRow, RowSerial
  <2> QED
    BY <2>1 DEF Evaluate, Denied, Matches
<1> QED
  BY <1>1, SerialInvariant, PTL

(* A purchase is in the row before the provider is asked for it, through any  *)
(* crash between the two, when calls come one at a time: commitProviderSpend  *)
(* saves the debit first, and no other method lowers it.                      *)
THEOREM PurchasesAreBooked == Spec /\ []OneAtATime => []DebitBeforePurchase
<1>1. SerialRow => DebitBeforePurchase
  BY DEF SerialRow, SessionTyped, RowSerial, DebitBeforePurchase
<1> QED
  BY <1>1, SerialInvariant, PTL

(* stopAll leaves a session revoked or expired until somebody resumes it by   *)
(* name, when calls come one at a time.                                       *)
THEOREM StopAllIsFinal == Spec /\ []OneAtATime => []StopAllEndsSession
<1>1. SerialRow => StopAllEndsSession
  BY DEF SerialRow, RowSerial, StopAllEndsSession
<1> QED
  BY <1>1, SerialInvariant, PTL

(* A booking fits the budget that the session has when it is saved, for any   *)
(* budgets and narrowings, when calls come one at a time: the sum that        *)
(* commitProviderSpend compared with the cap is the sum it saves.             *)
THEOREM BookingsFitTheCap == Spec /\ []OneAtATime => BookedWithinCap
<1> DEFINE Fits == session # NoSession /\ session'.spend > session.spend =>
                     session'.spend <= session'.cap
<1>1. SerialRow /\ [Next]_vars => [Fits]_vars
  <2> SUFFICES ASSUME SerialRow, [Next]_vars, session # NoSession,
                      session'.spend > session.spend
               PROVE session'.spend <= session'.cap
    OBVIOUS
  <2>1. session \in Session /\ session.spend \in Nat
    BY DEF SerialRow, SessionTyped, TypeOK, Session
  <2>2. PICK c \in Calls : Write(c)
    <3>1. session' # session
      BY <2>1
    <3> QED
      BY <3>1 DEF Next, vars, Create, Begin, Save, List, Relist, Read, Buy, Restart, Tick
  <2> DEFINE op == call[c].op
  <2>3. /\ op \in Operation /\ op.kind # "clear" /\ session' = Updated(op, session)
        /\ op.kind = "spend" => session.spend + op.eur <= session.cap
    BY <2>2, CallRecord
    DEF Write, SerialRow, SessionTyped, CallFits, Call, CallSerial
  <2> HIDE DEF op
  <2>4. /\ session'.spend = IF op.kind = "spend" THEN session.spend + op.eur ELSE session.spend
        /\ op.kind # "narrow" => session'.cap = session.cap
    BY <2>1, <2>3, UpdatedTyped
  <2> QED
    BY <2>1, <2>3, <2>4
<1> QED
  BY <1>1, SerialInvariant, PTL DEF BookedWithinCap, Spec

-------------------------------------------------------------------------------
(* The emergency stop *)

(* A call that neither begins nor saves the setting keeps what it is about.  *)
LEMMA CallGoesOn ==
    ASSUME SessionTyped, NEW c \in Calls, List(c) \/ Relist(c) \/ Read(c) \/ Write(c) \/ Buy(c)
    PROVE /\ call[c] \in Call /\ call[c] # Idle /\ call[c].pc # "save"
          /\ UNCHANGED <<setting, stopped>>
          /\ pressed' \in {pressed, Completed(c)}
          /\ \E e : /\ call' = [call EXCEPT ![c] = e]
                    /\ \/ e = Idle
                       \/ /\ e.proc = call[c].proc /\ e.op.kind = call[c].op.kind
                          /\ e.pc # "save"
<1>1. call[c] \in Call /\ call[c] # Idle /\ call[c].pc # "save"
  BY CallRecord DEF List, Relist, Read, Write, Buy
<1>2. UNCHANGED <<setting, stopped>> /\ pressed' \in {pressed, Completed(c)}
  BY DEF List, Relist, Read, Write, Buy
<1>3. CASE List(c)
  BY <1>1, <1>2, <1>3, ListMoves
<1>4. CASE Relist(c)
  BY <1>1, <1>2, <1>4, RelistMoves
<1>5. CASE Read(c)
  <2>1. CASE Refused(call[c].op)
    BY <1>1, <1>2, <1>5, <2>1 DEF Read
  <2>2. CASE ~Refused(call[c].op)
    <3> DEFINE e == [call[c] EXCEPT !.pc = "write", !.row = session]
    <3>1. /\ call' = [call EXCEPT ![c] = e]
          /\ e.pc = "write" /\ e.proc = call[c].proc /\ e.op = call[c].op
      BY <1>1, <1>5, <2>2 DEF Read, Call
    <3> HIDE DEF e
    <3> QED
      BY <1>1, <1>2, <3>1
  <2> QED
    BY <2>1, <2>2
<1>6. CASE Write(c)
  <2>1. CASE call' = [call EXCEPT ![c] = Idle]
    BY <1>1, <1>2, <2>1
  <2>2. CASE call' # [call EXCEPT ![c] = Idle]
    <3>1. PICK next \in {"buy", "relist"} :
            call' = [call EXCEPT ![c] = [@ EXCEPT !.pc = next, !.row = NoSession]]
      BY <1>6, <2>2 DEF Write
    <3> DEFINE e == [call[c] EXCEPT !.pc = next, !.row = NoSession]
    <3>2. /\ call' = [call EXCEPT ![c] = e]
          /\ e.pc # "save" /\ e.proc = call[c].proc /\ e.op = call[c].op
      BY <1>1, <3>1 DEF Call
    <3> HIDE DEF e
    <3> QED
      BY <1>1, <1>2, <3>2
  <2> QED
    BY <2>1, <2>2
<1>7. CASE Buy(c)
  BY <1>1, <1>2, <1>7 DEF Buy
<1> QED
  BY <1>3, <1>4, <1>5, <1>6, <1>7

LEMMA RememberedGoesOn ==
    ASSUME SessionTyped, Remembered, NEW c \in Calls,
           List(c) \/ Relist(c) \/ Read(c) \/ Write(c) \/ Buy(c)
    PROVE Remembered'
<1>1. /\ call[c] \in Call /\ call[c] # Idle /\ call[c].pc # "save"
      /\ UNCHANGED <<setting, stopped>> /\ pressed' \in {pressed, Completed(c)}
  BY CallGoesOn
<1>2. PICK e : /\ call' = [call EXCEPT ![c] = e]
               /\ \/ e = Idle
                  \/ /\ e.proc = call[c].proc /\ e.op.kind = call[c].op.kind
                     /\ e.pc # "save"
  BY CallGoesOn
<1>3. call'[c] = e /\ e.pc # "save" /\ \A d \in Calls : d # c => call'[d] = call[d]
  BY <1>2 DEF SessionTyped, TypeOK, Idle
<1>4. pressed' = "stop" => setting' /\ Procs # {}
  <2>1. CASE pressed' = pressed
    BY <1>1, <2>1 DEF Remembered
  <2>2. CASE pressed' = Completed(c) /\ call[c].op.kind = "stop"
    BY <1>1, <2>2 DEF Remembered, CallRemembered, Call
  <2> QED
    BY <1>1, <2>1, <2>2 DEF Completed
<1>5. (\A d \in Calls : call'[d].pc # "save") => \A p \in Procs : stopped'[p] = setting'
  BY <1>1, <1>3 DEF Remembered
<1>6. \A d \in Calls : CallRemembered(call[d])'
  <2> SUFFICES ASSUME NEW d \in Calls PROVE CallRemembered(call[d])'
    OBVIOUS
  <2>1. CASE d # c
    BY <1>1, <1>3, <2>1 DEF Remembered, CallRemembered
  <2>2. CASE d = c /\ e = Idle
    BY <1>3, <2>2 DEF CallRemembered, Idle
  <2>3. CASE d = c /\ e # Idle
    <3>1. e.proc = call[c].proc /\ e.op.kind = call[c].op.kind /\ e.pc # "save"
      BY <1>2, <2>3
    <3>2. CallRemembered(call[c])
      BY DEF Remembered
    <3> QED
      BY <1>1, <1>3, <2>3, <3>1, <3>2 DEF CallRemembered
  <2> QED
    BY <2>1, <2>2, <2>3
<1> QED
  BY <1>4, <1>5, <1>6 DEF Remembered

LEMMA RememberedBegin ==
    ASSUME SessionTyped, Remembered, OneProcess, OneAtATime',
           NEW c \in Calls, NEW p \in Procs, NEW op \in Operation, Begin(c, p, op)
    PROVE Remembered'
<1>1. PICK e : /\ call' = [call EXCEPT ![c] = e]
               /\ e # Idle /\ e.pc = FirstPc(p, op) /\ e.op = op /\ e.proc = p
  <2> DEFINE e == [pc |-> FirstPc(p, op), proc |-> p, op |-> op, row |-> NoSession]
  <2>1. call' = [call EXCEPT ![c] = e]
    BY DEF Begin
  <2>2. e # Idle /\ e.pc = FirstPc(p, op) /\ e.op = op /\ e.proc = p
    BY DEF Idle
  <2> HIDE DEF e
  <2> QED
    BY <2>1, <2>2
<1>2. /\ call[c] = Idle /\ setting' = setting /\ pressed' = pressed
      /\ stopped' = CASE op.kind = "stop"  -> [stopped EXCEPT ![p] = TRUE]
                      [] op.kind = "clear" -> [stopped EXCEPT ![p] = FALSE]
                      [] OTHER             -> stopped
  BY DEF Begin
<1>3. call'[c] = e /\ \A d \in Calls : d # c => call'[d] = call[d] /\ call'[d] = Idle
  BY <1>1 DEF SessionTyped, TypeOK, OneAtATime
<1>4. \A d \in Calls : call[d] = Idle
  BY <1>2, <1>3
<1>5. stopped \in [Procs -> BOOLEAN] /\ setting \in BOOLEAN /\ \A q \in Procs : q = p
  BY DEF SessionTyped, TypeOK, OneProcess
<1>6. stopped[p] = setting
  BY <1>4, <1>5 DEF Remembered, Idle
<1>7. /\ FirstPc(p, op) = "save" <=> (op.kind = "stop" /\ ~stopped[p]) \/ op.kind = "clear"
      /\ FirstPc(p, op) \in {"save", "list", "read"}
  BY DEF FirstPc
<1>8. FirstPc(p, op) # "save" => stopped'[p] = setting
  BY <1>2, <1>5, <1>6, <1>7
<1>9. CallRemembered(e)'
  <2>1. e.pc = "save" => stopped'[p] = (op.kind = "stop")
    BY <1>1, <1>2, <1>5, <1>7
  <2>2. op.kind = "stop" => stopped'[p] /\ (e.pc # "save" => setting)
    BY <1>1, <1>2, <1>5, <1>6, <1>7
  <2> QED
    BY <1>1, <1>2, <2>1, <2>2 DEF CallRemembered
<1>10. \A d \in Calls : CallRemembered(call[d])'
  BY <1>3, <1>9 DEF CallRemembered, Idle
<1> QED
  BY <1>1, <1>2, <1>3, <1>5, <1>8, <1>10 DEF Remembered

LEMMA RememberedSave ==
    ASSUME SessionTyped, Remembered, OneProcess, OneAtATime, NEW c \in Calls, Save(c)
    PROVE Remembered'
<1> DEFINE stop == call[c].op.kind = "stop"
           p == call[c].proc
<1>1. call[c] \in Call /\ call[c] # Idle /\ p \in Procs /\ call[c].pc = "save"
  BY CallRecord DEF Save, Call
<1>2. /\ setting' = stop /\ stopped' = stopped
      /\ stop \/ pressed' = "clear"
      /\ stop => pressed' = pressed
  BY DEF Save
<1>3. stopped[p] = stop /\ \A q \in Procs : q = p
  BY <1>1 DEF Remembered, CallRemembered, OneProcess
<1>4. /\ call'[c] = IF stop THEN [call[c] EXCEPT !.pc = "list"] ELSE Idle
      /\ \A d \in Calls : d # c => call'[d] = Idle
  BY <1>1, OthersIdle DEF Save, SessionTyped, TypeOK
<1>5. CallRemembered(call[c])'
  <2>1. CASE stop
    <3>1. call'[c].pc = "list" /\ call'[c].proc = p
      BY <1>1, <1>4, <2>1 DEF Call
    <3> QED
      BY <1>2, <1>3, <2>1, <3>1 DEF CallRemembered
  <2>2. CASE ~stop
    BY <1>4, <2>2 DEF CallRemembered, Idle
  <2> QED
    BY <2>1, <2>2
<1>6. \A d \in Calls : CallRemembered(call[d])'
  <2> HIDE DEF stop, p
  <2> SUFFICES ASSUME NEW d \in Calls, d # c PROVE CallRemembered(call[d])'
    BY <1>5
  <2>1. call'[d] = Idle
    BY <1>4
  <2> QED
    BY <2>1 DEF CallRemembered, Idle
<1>7. pressed' = "stop" => setting' /\ Procs # {}
  BY <1>1, <1>2
<1> QED
  BY <1>2, <1>3, <1>6, <1>7 DEF Remembered

LEMMA RememberedRestart ==
    ASSUME SessionTyped, Remembered, OneProcess, NEW p \in Procs, Restart(p)
    PROVE Remembered'
<1>1. \A q \in Procs : q = p
  BY DEF OneProcess
<1>2. \A d \in Calls : call'[d] = Idle
  <2> SUFFICES ASSUME NEW d \in Calls PROVE call'[d] = Idle
    OBVIOUS
  <2>1. call[d] = Idle \/ call[d].proc = p
    BY <1>1 DEF SessionTyped, TypeOK, Call
  <2> QED
    BY <2>1 DEF Restart
<1>3. stopped'[p] = setting /\ setting' = setting /\ pressed' = pressed
  BY DEF Restart, SessionTyped, TypeOK
<1> QED
  BY <1>1, <1>2, <1>3 DEF Remembered, CallRemembered, Idle

LEMMA RememberedNext ==
    ASSUME OneProcess
    PROVE SessionTyped /\ Remembered /\ OneAtATime /\ OneAtATime' /\ [Next]_vars
            => Remembered'
<1> SUFFICES ASSUME SessionTyped, Remembered, OneAtATime, OneAtATime', [Next]_vars
             PROVE Remembered'
  OBVIOUS
<1>1. ASSUME NEW c \in Calls, NEW p \in Procs, NEW op \in Ops, Begin(c, p, op)
      PROVE Remembered'
  BY <1>1, OpsAssumption, RememberedBegin
<1>2. ASSUME NEW c \in Calls, Save(c) PROVE Remembered'
  BY <1>2, RememberedSave
<1>3. ASSUME NEW c \in Calls, List(c) \/ Relist(c) \/ Read(c) \/ Write(c) \/ Buy(c)
      PROVE Remembered'
  BY <1>3, RememberedGoesOn
<1>4. ASSUME NEW p \in Procs, Restart(p) PROVE Remembered'
  BY <1>4, RememberedRestart
<1>5. CASE Create \/ Tick \/ UNCHANGED vars
  BY <1>5 DEF Create, Tick, vars, Remembered, CallRemembered
<1> QED
  BY <1>1, <1>2, <1>3, <1>4, <1>5 DEF Next

(* The last emergency request decides, and outlives the process that got it:  *)
(* activate saves the setting before it revokes, and onModuleInit loads it.   *)
(* For one process whose calls come one at a time: another would keep its own *)
(* memory of the stop, and a clear could overtake a stop that is being saved. *)
THEOREM StopOutlivesProcess ==
    ASSUME OneProcess
    PROVE Spec /\ []OneAtATime => []StopPersists
<1>1. Init => Remembered
  <2> SUFFICES ASSUME Init PROVE Remembered
    OBVIOUS
  <2>1. \A c \in Calls : call[c] = Idle
    BY DEF Init
  <2>2. \A c \in Calls : CallRemembered(call[c])
    <3> SUFFICES ASSUME NEW c \in Calls PROVE CallRemembered(call[c])
      OBVIOUS
    <3>1. call[c] = Idle
      BY <2>1
    <3> QED
      BY <3>1 DEF CallRemembered, Idle
  <2>3. pressed # "stop" /\ \A p \in Procs : stopped[p] = setting
    BY DEF Init
  <2> QED
    BY <2>1, <2>2, <2>3 DEF Remembered
<1>2. SessionTyped /\ Remembered => StopPersists
  <2> SUFFICES ASSUME Remembered, pressed = "stop", \A c \in Calls : call[c] = Idle
               PROVE setting /\ \E p \in Procs : stopped[p]
    BY DEF StopPersists
  <2>1. \A c \in Calls : call[c].pc # "save"
    <3> SUFFICES ASSUME NEW c \in Calls PROVE call[c].pc # "save"
      OBVIOUS
    <3>1. call[c] = Idle
      OBVIOUS
    <3> QED
      BY <3>1 DEF Idle
  <2>2. setting /\ Procs # {} /\ \A p \in Procs : stopped[p] = setting
    BY <2>1 DEF Remembered
  <2> QED
    BY <2>2
<1>3. Spec => []SessionTyped
  BY SessionTypedInit, SessionTypedNext, PTL DEF Spec
<1>4. SessionTyped /\ Remembered /\ OneAtATime /\ OneAtATime' /\ [Next]_vars => Remembered'
  BY RememberedNext
<1> QED
  BY <1>1, <1>2, <1>3, <1>4, PTL DEF Spec

=============================================================================
