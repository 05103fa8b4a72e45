------------------------------ MODULE AuditLog -------------------------------
(***************************************************************************)
(* The audit log of the agent control plane (AgentStore): appendEvent      *)
(* chains each event to the one before it by hash, verifyEventChain walks  *)
(* the chain, and listEventPage shows it to a person one page at a time.   *)
(*                                                                         *)
(* appendEvent reads the last hash and inserts its row in two round trips; *)
(* every manager calls it, from every process, with nothing in between to  *)
(* order them.  A hash is modelled by the id of the event it was taken     *)
(* over: ids are unique and sha256 is taken to be injective.               *)
(***************************************************************************)
EXTENDS Naturals, Sequences

CONSTANTS
    Sessions,   \* sessions that events belong to
    Appenders,  \* appendEvent calls that can be in flight at once
    PageSize,   \* rows of a page
    MaxEvents   \* bound on the log, for TLC

ASSUME PageAssumption == PageSize \in Nat \ {0}
ASSUME EventsAssumption == MaxEvents \in Nat

VARIABLES
    log,     \* agent_events in sequence order
    append,  \* local state of each appendEvent call
    issued,  \* event ids handed out so far
    page,    \* the reader: what it filters by, its cursor, what it has shown
    top,     \* history: the length of the log when the first page was read
    serial   \* history: no call has begun while another was in flight

logVars == <<log, append, issued, page, top, serial>>

NoAppend == [pc |-> "idle"]

(* The previous hash of the first event, and the cursor of the first page. *)
None == 0

Event == [id : 1..MaxEvents, session : Sessions, previousHash : 0..MaxEvents]

(* No filter, or the events of one session. *)
All == "all"

LogTypeOK ==
    /\ log \in Seq(Event)
    /\ append \in [Appenders -> {NoAppend} \cup [pc : {"read", "insert"}, event : Event]]
    /\ issued \in 0..MaxEvents
    /\ page \in [filter : Sessions \cup {All}, cursor : 0..Len(log),
                 shown : Seq(Nat), done : BOOLEAN]
    /\ top \in 0..Len(log)
    /\ serial \in BOOLEAN

LogInit ==
    /\ log = <<>>
    /\ append = [a \in Appenders |-> NoAppend]
    /\ issued = 0
    /\ page \in [filter : Sessions \cup {All}, cursor : {None},
                 shown : {<<>>}, done : {FALSE}]
    /\ top = 0
    /\ serial = TRUE

-----------------------------------------------------------------------------
(* appendEvent *)

(* A call starts: the id of its event is drawn before anything is read. *)
BeginAppend(a, session) ==
    /\ append[a] = NoAppend
    /\ issued < MaxEvents
    /\ issued' = issued + 1
    /\ append' = [append EXCEPT ![a] =
                    [pc |-> "read",
                     event |-> [id |-> issued + 1, session |-> session,
                                previousHash |-> None]]]
    /\ serial' = (serial /\ \A b \in Appenders : append[b] = NoAppend)
    /\ UNCHANGED <<log, page, top>>

(* Variant: the first event ever, as previous, whenever there is one. *)
ReadFirst(a) ==
    /\ append[a].pc = "read"
    /\ append' = [append EXCEPT
                    ![a].pc = "insert",
                    ![a].event.previousHash =
                       IF log = <<>> THEN None ELSE log[1].id]
    /\ UNCHANGED <<log, issued, page, top, serial>>

(* Variant: the hash of the row it expects to exist by then. *)
ReadAhead(a) ==
    /\ append[a].pc = "read"
    /\ append' = [append EXCEPT
                    ![a].pc = "insert",
                    ![a].event.previousHash = append[a].event.id - 1]
    /\ UNCHANGED <<log, issued, page, top, serial>>

(* SELECT hash ... ORDER BY sequence DESC LIMIT 1 *)
ReadHead(a) ==
    /\ append[a].pc = "read"
    /\ append' = [append EXCEPT
                    ![a].pc = "insert",
                    ![a].event.previousHash =
                       IF log = <<>> THEN None ELSE log[Len(log)].id]
    /\ UNCHANGED <<log, issued, page, top, serial>>

(* INSERT, with the next value of the table's own counter. *)
Insert(a) ==
    /\ append[a].pc = "insert"
    /\ log' = Append(log, append[a].event)
    /\ append' = [append EXCEPT ![a] = NoAppend]
    /\ UNCHANGED <<issued, page, top, serial>>

(* The process exits between the two. *)
Crash(a) ==
    /\ append[a] # NoAppend
    /\ append' = [append EXCEPT ![a] = NoAppend]
    /\ UNCHANGED <<log, issued, page, top, serial>>

-----------------------------------------------------------------------------
(* verifyEventChain *)

Valid(events) ==
    \A i \in 1..Len(events) :
        events[i].previousHash = IF i = 1 THEN None ELSE events[i - 1].id

-----------------------------------------------------------------------------
(* listEventPage *)

(* Sequence numbers of the rows the WHERE clause selects. *)
Matching(before) ==
    {i \in 1..Len(log) : /\ before = None \/ i < before
                         /\ page.filter \in {All, log[i].session}}

(* What a query for some of them may answer: ORDER BY sequence DESC LIMIT limit. *)
Newest(matching, limit) ==
    {rows \in UNION {[1..n -> matching] : n \in 0..limit} :
        /\ \A i, j \in 1..Len(rows) : i < j => rows[i] > rows[j]
        /\ \A k \in matching :
              \/ \E i \in 1..Len(rows) : rows[i] = k
              \/ Len(rows) = limit /\ \A i \in 1..Len(rows) : k < rows[i]}

Show(rows, cursor, done) ==
    /\ page' = [page EXCEPT !.shown = @ \o rows, !.cursor = cursor, !.done = done]
    /\ top' = IF page.shown = <<>> THEN Len(log) ELSE top
    /\ UNCHANGED <<log, append, issued, serial>>

(* Variant: the cursor is the sequence of the row fetched beyond the page. *)
NextPageSkips ==
    /\ ~page.done
    /\ \E rows \in Newest(Matching(page.cursor), PageSize + 1) :
          IF Len(rows) > PageSize
          THEN Show(SubSeq(rows, 1, PageSize), rows[PageSize + 1], FALSE)
          ELSE Show(rows, page.cursor, TRUE)

(* One request: PageSize rows and one more to know whether there is a next
   page, whose cursor is the sequence of the last row shown. *)
NextPage ==
    /\ ~page.done
    /\ \E rows \in Newest(Matching(page.cursor), PageSize + 1) :
          IF Len(rows) > PageSize
          THEN Show(SubSeq(rows, 1, PageSize), rows[PageSize], FALSE)
          ELSE Show(rows, page.cursor, TRUE)

LogNext ==
    \/ \E a \in Appenders :
         \/ \E s \in Sessions : BeginAppend(a, s)
         \/ ReadHead(a) \/ Insert(a) \/ Crash(a)
    \/ NextPage

LogSpec == LogInit /\ [][LogNext]_logVars

-----------------------------------------------------------------------------
(* What is claimed *)

(* The log verifies at every moment (verifyEventChain): each event carries the
   hash of the one before it. *)
ChainValid == Valid(log)

(* It does for as long as no two calls of appendEvent have overlapped: a process
   that dies between the two round trips leaves nothing that breaks it. *)
SerialChainValid == serial => ChainValid

(* Whatever the interleaving of appends, no event is chained to one that is not
   in the log before it: a crash between the two round trips loses an event,
   never the one others are chained to. *)
ChainedToEarlier ==
    \A i \in 1..Len(log) :
        \/ log[i].previousHash = None
        \/ \E j \in 1..(i - 1) : log[j].id = log[i].previousHash

(* Paging never shows a row twice and never skips one, although events keep
   arriving on top (listEventPage): a finished reader has seen exactly the
   matching rows there were when it started, newest first. *)
PagesAreExact ==
    /\ LogTypeOK
    /\ page.done =>
        /\ \A i, j \in 1..Len(page.shown) : i < j => page.shown[i] > page.shown[j]
        /\ {page.shown[i] : i \in 1..Len(page.shown)}
             = {i \in 1..top : page.filter \in {All, log[i].session}}

=============================================================================
