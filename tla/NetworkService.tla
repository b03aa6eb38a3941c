---------------------------- MODULE NetworkService ----------------------------
(***************************************************************************)
(* api/network/service.py: the stream registry behind the REST API, with   *)
(* any number of HTTP handler threads calling it.                          *)
(*                                                                         *)
(* register and unregister mutate the dict self.streams under self._lock;  *)
(* get_stream, list_streams and topology read it without the lock.  A      *)
(* scan of the dict is a sequence of steps, because the interpreter may    *)
(* switch threads between two elements, so the dict is modelled twice over:*)
(* streams is its contents, and entries is the order its iterators walk    *)
(* (CPython's entry table, where a deleted key leaves a hole and an        *)
(* insertion into a full table first rebuilds it without the holes).       *)
(*                                                                         *)
(* Writers run POST and DELETE /network/streams and GET of one stream;     *)
(* Readers run the two scans.                                              *)
(***************************************************************************)
EXTENDS Admission, Sequences

CONSTANTS Writers, Readers,
          NoThread, NoCall, NoReply, NoStream, NoScan,
          Hole,       \* the entry a deleted key leaves behind
          TableSize   \* entries the dict's table takes before it is rebuilt (5 at first)

Threads == Writers \cup Readers

Names == { r.name : r \in Requests }

Calls == [ op : {"register"}, body : Requests ]
           \cup [ op : {"unregister", "get"}, name : Names ]

Verdicts == { "registered", "refused", "raised", "duplicate", "over_ceiling",
              "removed", "absent", "found", "not_found" }

Replies == [verdict : Verdicts, shown : SUBSET Streams]

\* What a scan knows: size and pos belong to the iterator, seen is what it
\* yielded.  stable and rebuilt are history: the streams registered when the
\* scan began and ever since, and whether the table was rebuilt under it.
Scans == [ size : Nat, pos : Nat, seen : Seq(Streams),
           stable : SUBSET Streams, rebuilt : BOOLEAN ]

\* The placeholders are told apart from what they stand in for.
ASSUME ThreadsAssumption ==
  /\ Writers \cap Readers = {}
  /\ NoThread \notin Threads
  /\ NoCall \notin Calls
  /\ NoReply \notin Replies

ASSUME ScansAssumption ==
  /\ NoScan \notin Scans
  /\ Hole \notin Streams

VARIABLES
  streams,   \* self.streams, as the set of its values
  entries,   \* its entry table: streams and holes, oldest first
  lock,      \* the thread inside "with self._lock", or NoThread
  pc,        \* where each thread is
  call,      \* the call a writer serves
  built,     \* its local s: what _build returned
  reply,     \* what it returns (or raises) when it returns
  scan       \* a reader's iterator over self.streams.values()

writerVars == <<lock, call, built, reply>>
vars == <<streams, entries, lock, pc, call, built, reply, scan>>

-----------------------------------------------------------------------------

Init ==
  /\ streams = {}
  /\ entries = << >>
  /\ lock = NoThread
  /\ pc = [t \in Threads |-> "idle"]
  /\ call = [t \in Writers |-> NoCall]
  /\ built = [t \in Writers |-> NoStream]
  /\ reply = [t \in Writers |-> NoReply]
  /\ scan = [t \in Readers |-> NoScan]

Goto(t, from, to) ==
  /\ pc[t] = from
  /\ pc' = [pc EXCEPT ![t] = to]

Holding(name) == { s \in streams : s.name = name }

SetReply(t, verdict, shown) ==
  reply' = [reply EXCEPT ![t] = [verdict |-> verdict, shown |-> shown]]

\* The first step of the handler of each call.
EntryPoint(c) ==
  CASE c.op = "register"   -> "build"
    [] c.op = "unregister" -> "acquire"
    [] c.op = "get"        -> "get"

Invoke(t) ==
  \E c \in Calls :
    /\ Goto(t, "idle", EntryPoint(c))
    /\ call' = [call EXCEPT ![t] = c]
    /\ UNCHANGED <<streams, entries, lock, built, reply, scan>>

\* register, before the lock: _build.  A body that lacks a field, or that
\* resolve rejects, is Refused; a zero period escapes as ZeroDivisionError.
Build(t) ==
  LET body == call[t].body
  IN  /\ \/ /\ Goto(t, "build", "acquire")
            /\ body \in DOMAIN Derived
            /\ built' = [built EXCEPT ![t] = Derived[body]]
            /\ UNCHANGED reply
         \/ /\ Goto(t, "build", "return")
            /\ body \notin DOMAIN Derived
            /\ SetReply(t, Fault[body], {})
            /\ UNCHANGED built
      /\ UNCHANGED <<streams, entries, lock, call, scan>>

\* Mutant: the lock is not waited for.
UnlockedAcquire(t) ==
  /\ lock' = t
  /\ Goto(t, "acquire", IF call[t].op = "register" THEN "lookup" ELSE "pop")
  /\ UNCHANGED <<streams, entries, call, built, reply, scan>>

\* with self._lock
Acquire(t) ==
  /\ lock = NoThread
  /\ lock' = t
  /\ Goto(t, "acquire", IF call[t].op = "register" THEN "lookup" ELSE "pop")
  /\ UNCHANGED <<streams, entries, call, built, reply, scan>>

\* Mutant: the name is not looked up.
UncheckedLookup(t) ==
  /\ Goto(t, "lookup", "judge")
  /\ UNCHANGED <<streams, entries, lock, call, built, reply, scan>>

\* Mutant: a duplicate waits, with the lock, until the name is free.
LookupWaiting(t) ==
  /\ \/ Goto(t, "lookup", "lookup") /\ Holding(built[t].name) # {}
     \/ Goto(t, "lookup", "judge") /\ Holding(built[t].name) = {}
  /\ UNCHANGED <<streams, entries, lock, call, built, reply, scan>>

\* if s.name in self.streams: raise Refused
Lookup(t) ==
  /\ \/ /\ Goto(t, "lookup", "release")
        /\ Holding(built[t].name) # {}
        /\ SetReply(t, "duplicate", {})
     \/ /\ Goto(t, "lookup", "judge")
        /\ Holding(built[t].name) = {}
        /\ UNCHANGED reply
  /\ UNCHANGED <<streams, entries, lock, call, built, scan>>

\* Mutant: the candidate is judged as if the link were empty.
FitsAlone(s) == Admit({s}, s.link)

\* The link's streams and the candidate, judged by admit.
Fits(s) == Admit(OnLink(streams, s.link) \cup {s}, s.link)

\* Mutant: a stream that does not fit waits, with the lock, until it does.
JudgeWaiting(t) ==
  /\ \/ Goto(t, "judge", "insert") /\ Fits(built[t])
     \/ Goto(t, "judge", "judge") /\ ~Fits(built[t])
  /\ UNCHANGED <<streams, entries, lock, call, built, reply, scan>>

Judge(t) ==
  /\ \/ /\ Goto(t, "judge", "insert")
        /\ Fits(built[t])
        /\ UNCHANGED reply
     \/ /\ Goto(t, "judge", "release")
        /\ ~Fits(built[t])
        /\ SetReply(t, "over_ceiling", {})
  /\ UNCHANGED <<streams, entries, lock, call, built, scan>>

\* The table with e in the place of every entry in S.
Overwritten(table, S, e) ==
  [i \in DOMAIN table |-> IF table[i] \in S THEN e ELSE table[i]]

NeedsRebuild == Len(entries) >= TableSize /\ \E i \in DOMAIN entries : entries[i] = Hole

\* The first n entries without the holes.
Packed[n \in 0 .. Len(entries)] ==
  IF n = 0 THEN << >>
  ELSE IF entries[n] = Hole THEN Packed[n - 1] ELSE Append(Packed[n - 1], entries[n])

\* A key not in the dict goes to the end of its table.
WithEntry(s) == Append(IF NeedsRebuild THEN Packed[Len(entries)] ELSE entries, s)

\* History kept for the scans in progress.
NoteInsert(s) ==
  scan' = [r \in Readers |->
             IF scan[r] = NoScan THEN NoScan
             ELSE [scan[r] EXCEPT !.rebuilt = @ \/ NeedsRebuild,
                                  !.stable = @ \ Holding(s.name)]]

NoteRemoval(S) ==
  scan' = [r \in Readers |->
             IF scan[r] = NoScan THEN NoScan ELSE [scan[r] EXCEPT !.stable = @ \ S]]

\* self.streams[s.name] = s
Insert(t) ==
  LET s == built[t]
  IN  /\ Goto(t, "insert", "release")
      /\ streams' = (streams \ Holding(s.name)) \cup {s}
      /\ entries' = IF Holding(s.name) = {} THEN WithEntry(s)
                    ELSE Overwritten(entries, Holding(s.name), s)
      /\ NoteInsert(s)
      /\ SetReply(t, "registered", {s})
      /\ UNCHANGED <<lock, call, built>>

\* unregister: self.streams.pop(name, None) is not None
Pop(t) ==
  LET gone == Holding(call[t].name)
  IN  /\ Goto(t, "pop", "release")
      /\ streams' = streams \ gone
      /\ entries' = Overwritten(entries, gone, Hole)
      /\ NoteRemoval(gone)
      /\ SetReply(t, IF gone # {} THEN "removed" ELSE "absent", {})
      /\ UNCHANGED <<lock, call, built>>

\* The with block ends, normally or by an exception.
Release(t) ==
  /\ Goto(t, "release", "return")
  /\ lock' = NoThread
  /\ UNCHANGED <<streams, entries, call, built, reply, scan>>

\* get_stream: one dict lookup, no lock.
Get(t) ==
  LET found == Holding(call[t].name)
  IN  /\ Goto(t, "get", "return")
      /\ SetReply(t, IF found # {} THEN "found" ELSE "not_found", found)
      /\ UNCHANGED <<streams, entries, lock, call, built, scan>>

Return(t) ==
  /\ Goto(t, "return", "idle")
  /\ call' = [call EXCEPT ![t] = NoCall]
  /\ built' = [built EXCEPT ![t] = NoStream]
  /\ reply' = [reply EXCEPT ![t] = NoReply]
  /\ UNCHANGED <<streams, entries, lock, scan>>

Serve(t) ==
  \/ Build(t) \/ Lookup(t) \/ Judge(t) \/ Insert(t)
  \/ Pop(t) \/ Release(t) \/ Get(t) \/ Return(t)

\* Mutant: the streams of a set are judged one by one.
AdmissionOneByOne(bodies, l) == \A b \in bodies : Admit({Derived[b]}, l)

\* admission: judge a set of bodies, none of which fails, without registering it.
Admission(bodies, l) == Admit({ Derived[b] : b \in bodies }, l)

-----------------------------------------------------------------------------
(* list_streams and topology: for s in self.streams.values(), unlocked.    *)

BeginScan(t) ==
  /\ Goto(t, "idle", "scan")
  /\ scan' = [scan EXCEPT ![t] = [ size |-> Cardinality(streams), pos |-> 0,
                                   seen |-> << >>, stable |-> streams, rebuilt |-> FALSE ]]
  /\ UNCHANGED <<streams, entries>> /\ UNCHANGED writerVars

\* The live table positions the iterator has yet to visit.
Ahead(t) == { i \in DOMAIN entries : i > scan[t].pos /\ entries[i] # Hole }

First(S) == CHOOSE i \in S : \A j \in S : i <= j

SizeChanged(t) == Cardinality(streams) # scan[t].size

\* One element more than the dict had when the iterator was made.
KeysChanged(t) == Ahead(t) # {} /\ Len(scan[t].seen) = scan[t].size

Yield(t) ==
  /\ Goto(t, "scan", "scan")
  /\ ~SizeChanged(t) /\ ~KeysChanged(t)
  /\ Ahead(t) # {}
  /\ scan' = [scan EXCEPT ![t].pos = First(Ahead(t)),
                          ![t].seen = Append(@, entries[First(Ahead(t))])]
  /\ UNCHANGED <<streams, entries>> /\ UNCHANGED writerVars

\* Mutant: a stream the filters drop ends the loop (break for continue).
ExhaustAtFilter(t) ==
  /\ Goto(t, "scan", "listed")
  /\ ~SizeChanged(t)
  /\ UNCHANGED <<streams, entries, scan>> /\ UNCHANGED writerVars

Exhaust(t) ==
  /\ Goto(t, "scan", "listed")
  /\ ~SizeChanged(t)
  /\ Ahead(t) = {}
  /\ UNCHANGED <<streams, entries, scan>> /\ UNCHANGED writerVars

\* RuntimeError: dictionary changed size, or keys changed, during iteration
Abort(t) ==
  /\ Goto(t, "scan", "aborted")
  /\ SizeChanged(t) \/ KeysChanged(t)
  /\ UNCHANGED <<streams, entries, scan>> /\ UNCHANGED writerVars

\* Mutant: a scan the dict changed under is started over until it succeeds.
EndScanRetrying(t) ==
  /\ \/ /\ Goto(t, "listed", "idle")
        /\ scan' = [scan EXCEPT ![t] = NoScan]
     \/ /\ Goto(t, "aborted", "scan")
        /\ scan' = [scan EXCEPT ![t] = [ size |-> Cardinality(streams), pos |-> 0,
                                         seen |-> << >>, stable |-> streams,
                                         rebuilt |-> FALSE ]]
  /\ UNCHANGED <<streams, entries>> /\ UNCHANGED writerVars

\* The call returns the list, or lets the exception through.
EndScan(t) ==
  /\ \/ Goto(t, "listed", "idle")
     \/ Goto(t, "aborted", "idle")
  /\ scan' = [scan EXCEPT ![t] = NoScan]
  /\ UNCHANGED <<streams, entries>> /\ UNCHANGED writerVars

\* What list_streams answers, before its filters (which only drop elements).
Listing(t) == { scan[t].seen[i] : i \in DOMAIN scan[t].seen }

\* Mutant: the streams of every link are added up.
ReportedAnywhere(t, l) ==
  Cardinality({ u \in (DOMAIN scan[t].seen) \X (1 .. MaxUnits) :
                  u[2] <= Units(scan[t].seen[u[1]]) })

\* topology: what a link's reserved_mbps adds up to, in units.
Reported(t, l) ==
  Cardinality({ u \in (DOMAIN scan[t].seen) \X (1 .. MaxUnits) :
                  /\ scan[t].seen[u[1]].link = l
                  /\ u[2] <= Units(scan[t].seen[u[1]]) })

Walk(t) == Yield(t) \/ Exhaust(t) \/ Abort(t) \/ EndScan(t)

-----------------------------------------------------------------------------

Next ==
  \/ \E t \in Writers : Invoke(t) \/ Acquire(t) \/ Serve(t)
  \/ \E t \in Readers : BeginScan(t) \/ Walk(t)

Spec == Init /\ [][Next]_vars

\* A thread inside a handler keeps running, and takes a lock that stays free.
\* No thread has to make another call, and no waiter is promised the lock.  (A
\* thread is at one place at a time: this is WF on Serve and on Acquire.)
FairSpec ==
  /\ Spec
  /\ \A t \in Writers : WF_vars(Serve(t) \/ Acquire(t))
  /\ \A t \in Readers : WF_vars(Walk(t))
-----------------------------------------------------------------------------
(* Properties.                                                             *)

WriterPCs == { "idle", "build", "acquire", "lookup", "judge", "insert",
               "pop", "get", "release", "return" }
ReaderPCs == { "idle", "scan", "listed", "aborted" }
Critical  == { "lookup", "judge", "insert", "pop", "release" }

\* The registry and the threads hold what the program can store in them; the
\* iteration order is checked by what a scan makes of it.
TypeOK ==
  /\ streams \subseteq Streams
  /\ lock \in Writers \cup {NoThread}
  /\ pc \in [Threads -> WriterPCs \cup ReaderPCs]
  /\ \A t \in Writers : pc[t] \in WriterPCs
  /\ \A t \in Readers : pc[t] \in ReaderPCs
  /\ call \in [Writers -> Calls \cup {NoCall}]
  /\ built \in [Writers -> Streams \cup {NoStream}]
  /\ reply \in [Writers -> Replies \cup {NoReply}]

\* No link ever carries more than the admission ceiling, replicas included,
\* however registrations, refusals and removals interleave: the reason
\* register re-evaluates the whole link under the lock.
NoOversubscription == \A l \in DOMAIN Links : Admit(OnLink(streams, l), l)

\* A verdict reached under the lock is still true when it is acted on: the
\* stream about to be inserted has a free name and fits its link.
JudgementHolds ==
  \A t \in Writers :
    pc[t] = "insert" => Holding(built[t].name) = {} /\ Fits(built[t])

\* The thread's s is what its request resolves to.
Carries(t) ==
  call[t].body \in DOMAIN Derived /\ built[t] = Derived[call[t].body]

\* Who is inside the with block holds the lock, and what each thread carries
\* from one step to the next is what its next step relies on.
LocalsOK ==
  \A t \in Writers :
    /\ pc[t] \in Critical => lock = t
    /\ pc[t] # "idle" => call[t] \in Calls
    /\ pc[t] = "build" => call[t].op = "register"
    /\ pc[t] = "acquire" => call[t].op \in {"register", "unregister"}
    /\ pc[t] = "acquire" /\ call[t].op = "register" => Carries(t)
    /\ pc[t] \in {"lookup", "judge", "insert"} => call[t].op = "register" /\ Carries(t)
    /\ pc[t] = "judge" => Holding(built[t].name) = {}
    /\ pc[t] = "pop" => call[t].op = "unregister"
    /\ pc[t] = "get" => call[t].op = "get"
    /\ pc[t] \in {"release", "return"} <=> reply[t] # NoReply
    /\ pc[t] = "idle" => call[t] = NoCall

\* The inductive invariant behind NoOversubscription.
RegistryInvariant == TypeOK /\ LocalsOK /\ JudgementHolds /\ NoOversubscription

\* A stream leaves the registry only when its own name is unregistered;
\* registering a name again never replaces what holds it.
LeavesOnlyByName ==
  [][\A s \in streams : s \notin streams' =>
       \E t \in Writers : pc[t] = "pop" /\ call[t].name = s.name]_vars

\* Every call takes effect at one instant and is answered accordingly, as in
\* the ledger: refusals leave no trace, and every answer was true once.
Ledger == INSTANCE ReservationLedger
            WITH Clients <- Writers, reserved <- streams,
                 request <- call, answer <- reply,
                 Derivation <- Derived, Faults <- Fault

LedgerSpec == Ledger!Spec

\* A scan that ends without an exception, and under which the table was not
\* rebuilt, returns exactly the streams registered when it ends, each once:
\* the unlocked list_streams is then as good as a locked one.
SnapshotUnlessRebuilt ==
  [][\A t \in Readers :
       pc[t] = "scan" /\ pc'[t] = "listed" /\ ~scan[t].rebuilt =>
         Listing(t) = streams /\ Len(scan[t].seen) = Cardinality(streams)]_vars

\* The sets of bodies, each with a link, on which admission answers favourably.
Promised == { p \in (SUBSET DOMAIN Derived) \X DOMAIN Links : Admission(p[1], p[2]) }

\* A favourable answer of admission is kept: a stream of the judged set is not
\* refused for the ceiling while there is nothing but streams of that set on its
\* link, in whatever order they come and whoever else is at work
\* (service.py:146-157 and 132-137).
AdmissionIsAPromise ==
  \A t \in Writers :
    pc[t] = "release" /\ reply[t] # NoReply /\ reply[t].verdict = "over_ceiling" =>
      \A p \in Promised :
        LET judged == { Derived[b] : b \in p[1] }
        IN  built[t] \in judged /\ built[t].link = p[2] =>
              ~(OnLink(streams, p[2]) \subseteq judged)

\* Listing the streams always succeeds: the API gives GET /network/streams no
\* answer but 200.
ListingNeverFails == \A t \in Readers : pc[t] # "aborted"

\* Topology understates what admission charges a link with by the second copies
\* of the replicated streams and nothing else, when nothing changes under the
\* scan: never more than is charged, never less than half, and the same where no
\* stream is replicated.
TopologyBracketsAdmission ==
  \A t \in Readers :
    pc[t] = "listed" /\ scan[t].stable = Listing(t) =>
      \A l \in DOMAIN Links :
        LET charged == Load(OnLink(Listing(t), l))
        IN  /\ Reported(t, l) <= charged /\ charged <= 2 * Reported(t, l)
            /\ (\A s \in OnLink(Listing(t), l) : Copies(s) = 1) => Reported(t, l) = charged

\* Whoever has the lock gives it back: every path through register and
\* unregister does, the refusals raised inside the with block included.
LockReleased == []<>(lock = NoThread)

\* Nobody waits for a free lock: as long as somebody waits, other calls take
\* the lock and give it back again and again.
NoLostWaiter ==
  LET waited == \E t \in Writers : pc[t] = "acquire"
  IN  []<>(waited => lock # NoThread) /\ []<>(waited => lock = NoThread)

\* A call that scans is answered however the dict changes under it.
ScanEnds == \A t \in Readers : pc[t] = "scan" ~> pc[t] = "idle"
=============================================================================
