----------------------------- MODULE LiveSpool -----------------------------
(***************************************************************************)
(* The live stream of one run: the collector of a worker process settles   *)
(* stints, each flush spools them to files of the run directory, handler   *)
(* threads of the server read the files without any lock shared with the   *)
(* worker, and a browser follows with a cursor.                            *)
(*                                                                         *)
(* The worker writes the fleet, then appends rows, then replaces the state *)
(* that counts them; a handler reads the status of the run, then the       *)
(* state, then rows, then the fleet.  The rows file is a sequence of       *)
(* bytes, two to a line, since an append may be seen, or cut, at any byte. *)
(***************************************************************************)
EXTENDS Integers, SequencesExt

CONSTANTS
  Job,
  Share,       \* the domains the stints of each job span; domains are numbers
  ROW_LIMIT,   \* LIVE_ROW_LIMIT: rows in one answer, and in one overlay
  MaxStints,   \* bound: stints that begin
  Flushes,     \* flushes up to the horizon, the last one at it
  StrayCursors \* the cursors other readers ask for

ASSUME LiveAssumption ==
  /\ Job \subseteq Nat /\ Share \in [Job -> (SUBSET Nat) \ {{}}]
  /\ \A j \in Job : IsFiniteSet(Share[j])
  /\ ROW_LIMIT \in Nat \ {0} /\ Flushes \in Nat \ {0}
  /\ {MaxStints} \cup StrayCursors \subseteq Nat

VARIABLES
  open,     \* _stints_open, as the rows the open stints will settle to
  started,  \* how many stints have begun; stands for the time
  log,      \* _stint_rows: settled rows in the order of settlement
  child,    \* the worker: the engine's cursor, its snapshot, the spool
  rows,     \* live.jsonl
  state,    \* live.json
  fleet,    \* live_fleet.json exists
  status,   \* the status in the meta file
  memo,     \* _live_offsets of this run: lines and bytes
  request,  \* the handler thread that works for the browser
  view      \* LiveFeed of the browser

collector == <<open, started, log>>
files == <<rows, state, fleet>>
server == <<status, memo>>
vars == <<open, started, log, child, rows, state, fleet, status, memo,
          request, view>>

EOL == [end |-> "line"]
\* Rows in the order of stint_rows; those of one stint settle in that order.
Before(r, s) ==
  \/ r.t0 < s.t0
  \/ r.t0 = s.t0 /\ r.domain < s.domain

---------------------------------------------------------------------------
(* The collector: stints open and settle.                                  *)

RowsOf(j) == {r \in open : r.job = j}

\* _open_stint: a row for each domain.
JobStarted(j) ==
  /\ child.pc = "running" /\ RowsOf(j) = {} /\ started < MaxStints
  /\ open' = open \cup {[job |-> j, t0 |-> started, domain |-> d] : d \in Share[j]}
  /\ started' = started + 1
  /\ UNCHANGED <<log, child, files, server, request, view>>

\* _settle_stint, when the job is requeued or is over.
SettleStint(j) ==
  /\ child.pc = "running" /\ RowsOf(j) # {}
  /\ \E s \in [1 .. Cardinality(RowsOf(j)) -> RowsOf(j)] :
       /\ \A i, k \in DOMAIN s : i < k => Before(s[i], s[k])
       /\ log' = log \o s
  /\ open' = open \ RowsOf(j)
  /\ UNCHANGED <<started, child, files, server, request, view>>

---------------------------------------------------------------------------
(* The worker: _emit_progress takes a snapshot, _LiveSpool spools it.      *)

StintsSince(cursor) == SubSeq(log, cursor + 1, Len(log))

\* A line is two bytes.
Lines(rs) == [i \in 1 .. 2 * Len(rs) |->
                IF i % 2 = 1 THEN rs[(i + 1) \div 2] ELSE EOL]

\* begun is history: every row that had begun by this flush.
Snapshot ==
  [cursor |-> Len(log), open |-> open, begun |-> ToSet(log) \cup open]

TakeSnapshot(cancelled) ==
  [child EXCEPT !.taken = Len(log),
                !.flush = @ + 1,
                !.snap = Snapshot,
                !.out = Lines(StintsSince(child.taken)),
                !.pc = IF cancelled THEN "finishing"
                       ELSE IF fleet THEN "rows" ELSE "fleet",
                !.outcome = IF cancelled THEN "aborted" ELSE @]

\* A flush finds cancel.flag or not.
Flush ==
  /\ child.pc = "running"
  /\ \E cancelled \in BOOLEAN : child' = TakeSnapshot(cancelled)
  /\ UNCHANGED <<collector, files, server, request, view>>

\* The geometry rides the first snapshot.
WriteFleet ==
  /\ child.pc = "fleet"
  /\ fleet' = TRUE
  /\ child' = [child EXCEPT !.pc = "rows"]
  /\ UNCHANGED <<collector, rows, state, server, request, view>>

\* A write reaches the file in pieces.
AppendRows ==
  /\ child.pc = "rows"
  /\ \E n \in 1 .. Len(child.out) :
       /\ rows' = rows \o SubSeq(child.out, 1, n)
       /\ child' = [child EXCEPT !.out = SubSeq(@, n + 1, Len(@))]
  /\ UNCHANGED <<collector, state, fleet, server, request, view>>

\* The overlay keeps the first rows.
Capped(S) == {r \in S : Cardinality({s \in S : Before(s, r)}) < ROW_LIMIT}

StateFile(snap, overlay) ==
  [cursor |-> snap.cursor, omitted |-> ~ overlay, begun |-> snap.begun,
   open |-> IF overlay THEN Capped(snap.open) ELSE {},
   truncated |-> overlay /\ Cardinality(snap.open) > ROW_LIMIT]

NoState == [cursor |-> 0, omitted |-> FALSE, begun |-> {}, open |-> {},
            truncated |-> FALSE]

Counted(watched) == [child EXCEPT !.last = child.snap, !.omitted = ~ watched]

\* The overlay is written only if a reader has asked within LIVE_WATCH_S;
\* flushes and requests may come at any pace.
WriteState(watched) ==
  /\ child.pc = "rows" /\ child.out = << >>
  /\ state' = StateFile(child.snap, watched)
  /\ child' = [Counted(watched) EXCEPT
                 !.pc = IF child.flush = Flushes THEN "finishing" ELSE "running",
                 !.outcome = IF child.flush = Flushes THEN "done" ELSE @]
  /\ UNCHANGED <<collector, rows, fleet, server, request, view>>

\* The simulation raises, or a write: the run has failed.
Raise ==
  /\ child.pc \in {"running", "fleet", "rows"}
  /\ child' = [child EXCEPT !.pc = "finishing", !.outcome = "failed"]
  /\ UNCHANGED <<collector, files, server, request, view>>

\* So does the write of the state; the spool has moved on by then.
StateWriteFails(watched) ==
  /\ child.pc = "rows" /\ child.out = << >>
  /\ child' = [Counted(watched) EXCEPT !.pc = "finishing", !.outcome = "failed"]
  /\ UNCHANGED <<collector, files, server, request, view>>

\* Mutant: the final state is left as it is.
NotRepublished == state

\* finish publishes the overlay that the last flush left out.
Republished == IF child.omitted THEN StateFile(child.last, TRUE) ELSE state

Closed(outcome) == [pc |-> "closed", outcome |-> outcome]

Finish ==
  /\ child.pc = "finishing"
  /\ state' = Republished
  /\ child' = Closed(child.outcome)
  /\ UNCHANGED <<collector, rows, fleet, server, request, view>>

\* The worker process is terminated, wherever it is.
Kill ==
  /\ child.pc # "closed"
  /\ child' = Closed("failed")
  /\ UNCHANGED <<collector, files, server, request, view>>

---------------------------------------------------------------------------
(* The server: the callback of the run, and live_payload in the steps of a *)
(* handler thread.                                                         *)

\* The callback of the future records the outcome.
Finalize ==
  /\ child.pc = "closed" /\ status = "running"
  /\ status' = IF child.outcome = "done" THEN "done" ELSE "failed"
  /\ UNCHANGED <<collector, child, files, memo, request, view>>

\* Reads of other runs push this one out of the memo.
Forget ==
  /\ memo # <<0, 0>>
  /\ memo' = <<0, 0>>
  /\ UNCHANGED <<collector, child, files, status, request, view>>

Free == [pc |-> "free"]

ReadState ==
  /\ request.pc = "accepted"
  /\ request' = [pc |-> "state", start |-> request.start,
                 status |-> request.status, state |-> state]
  /\ UNCHANGED <<collector, child, files, server, view>>

\* How many rows to read.
Wanted(r) == Min({r.state.cursor - r.start, ROW_LIMIT})

\* Mutant: the memo serves a cursor behind it.
AnyMemo(start) == memo

\* A cursor behind the memo is served from the first byte.
MemoFor(start) == IF memo[1] > start THEN <<0, 0>> ELSE memo

\* Up to n lines of file from byte offset on; one without its end is not read.
ReadLines(file, offset, n) ==
  LET Ended(i) == offset + 2 * i <= Len(file) /\ file[offset + 2 * i] = EOL
      got == Max({g \in 0 .. n : \A i \in 1 .. g : Ended(i)})
  IN  [lines |-> [i \in 1 .. got |-> file[offset + 2 * i - 1]],
       bytes |-> 2 * got]

\* _read_live_rows: skip to the cursor, then read what is wanted.
RowsFrom(from, start, count) ==
  LET skipped == ReadLines(rows, from[2], Max({start - from[1], 0}))
      offset == from[2] + skipped.bytes
      read == ReadLines(rows, offset, count)
  IN  IF Len(skipped.lines) < start - from[1]
      THEN [rows |-> << >>, memo |-> <<0, 0>>]
      ELSE [rows |-> read.lines,
            memo |-> <<from[1] + Len(skipped.lines \o read.lines),
                       offset + read.bytes>>]

RowsRead(r) ==
  IF Wanted(r) <= 0 THEN [rows |-> << >>, memo |-> <<0, 0>>]
  ELSE RowsFrom(MemoFor(r.start), r.start, Wanted(r))

\* The memo moves forward only.
Forward(new) == IF new[1] > memo[1] THEN new ELSE memo

ReadRows ==
  /\ request.pc = "state"
  /\ request' = LET read == RowsRead(request)
                IN  [pc |-> "rows", start |-> request.start,
                     status |-> request.status, state |-> request.state,
                     rows |-> read.rows, memo |-> read.memo]
  /\ UNCHANGED <<collector, child, files, server, view>>

\* What the handler answers; the geometry only to who starts at 0.
Payload(r) ==
  LET cursor == Min({r.start, r.state.cursor}) + Len(r.rows)
      more == cursor < r.state.cursor
  IN  [status |-> r.status, rows |-> r.rows, cursor |-> cursor, more |-> more,
       overlay |-> ~ more /\ ~ r.state.omitted, open |-> r.state.open,
       truncated |-> r.state.truncated, begun |-> r.state.begun,
       fleet |-> fleet /\ r.start = 0]

---------------------------------------------------------------------------
(* The browser: LiveFeed.                                                  *)

\* A request comes in: the status is read.
Poll ==
  /\ request.pc = "free" /\ ~ view.ended
  /\ request' = [pc |-> "accepted", start |-> view.cursor, status |-> status]
  /\ UNCHANGED <<collector, child, files, server, view>>

\* Other tabs, and threads whose answer was lost, leave their memo.
OtherReader(cursor) ==
  /\ memo' = Forward(RowsRead([start |-> cursor, state |-> state]).memo)
  /\ memo' # memo
  /\ UNCHANGED <<collector, child, files, status, request, view>>

\* Rows of a domain the browser does not know are dropped.
Received(p) ==
  LET known == view.fleet \/ p.fleet
  IN  [view EXCEPT
         !.fleet = known,
         !.settled = IF known THEN @ \o p.rows ELSE @,
         !.cursor = p.cursor,
         !.open = IF p.overlay /\ known THEN p.open ELSE IF p.overlay THEN {} ELSE @,
         !.fresh = p.overlay,
         !.truncated = p.truncated,
         !.begun = p.begun,
         !.ended = p.status # "running" /\ (p.more => p.cursor <= view.cursor)]

Answer ==
  /\ request.pc = "rows"
  /\ memo' = Forward(request.memo)
  /\ view' = Received(Payload(request))
  /\ request' = Free
  /\ UNCHANGED <<collector, child, files, status>>

\* The fetch fails, or the feed has been stopped and started again.
LoseAnswer ==
  /\ request.pc = "rows"
  /\ memo' = Forward(request.memo)
  /\ request' = Free
  /\ UNCHANGED <<collector, child, files, status, view>>

---------------------------------------------------------------------------
NoSnapshot == [cursor |-> 0, open |-> {}, begun |-> {}]

Init ==
  /\ open = {} /\ started = 0 /\ log = << >>
  /\ child = [pc |-> "running", taken |-> 0, flush |-> 0, snap |-> NoSnapshot,
              out |-> << >>, last |-> NoSnapshot, omitted |-> FALSE,
              outcome |-> "failed"]
  /\ rows = << >> /\ state = NoState /\ fleet = FALSE
  /\ status = "running" /\ memo = <<0, 0>>
  /\ request = Free
  /\ view = [cursor |-> 0, settled |-> << >>, open |-> {}, fleet |-> FALSE,
             ended |-> FALSE, fresh |-> FALSE, truncated |-> FALSE, begun |-> {}]

Worker ==
  \/ Flush \/ WriteFleet \/ AppendRows \/ Finish
  \/ \E watched \in BOOLEAN : WriteState(watched)

Fails ==
  \/ Raise \/ Kill
  \/ \E watched \in BOOLEAN : StateWriteFails(watched)

Browser == Poll \/ ReadState \/ ReadRows \/ Answer

Next ==
  \/ \E j \in Job : JobStarted(j) \/ SettleStint(j)
  \/ Worker \/ Fails \/ Finalize \/ Browser \/ LoseAnswer
  \/ Forget \/ \E cursor \in StrayCursors : OtherReader(cursor)

\* The worker runs to its end, its future calls back, the browser asks again
\* when its timer fires, and not every answer is lost.
Spec ==
  /\ Init /\ [][Next]_vars
  /\ WF_vars(Worker) /\ WF_vars(Finalize) /\ WF_vars(Browser) /\ SF_vars(Answer)

---------------------------------------------------------------------------
(* Properties.                                                             *)

\* The cursor contract, end to end: whatever threads serve other cursors,
\* the memo forgets, the worker appends meanwhile or answers get lost, the
\* browser holds every settled row up to its cursor once and in order; and
\* an overlay that comes with an answer is of the same flush: with the rows
\* held it names every row that had begun by then, and none of them twice.
SnapshotExact ==
  /\ view.settled = SubSeq(log, 1, view.cursor)
  /\ view.fresh =>
       /\ ToSet(view.settled) \cap view.open = {}
       /\ ~ view.truncated => ToSet(view.settled) \cup view.open = view.begun

\* A browser that follows a run sees its end: it stops, with every row that
\* was spooled, and after a run that is done also with every row that
\* settled and, up to the cap, the stints that were running at the horizon.
BrowserSeesTheEnd ==
  <>[](/\ view.ended
       /\ view.settled = SubSeq(log, 1, state.cursor)
       /\ status = "done" => /\ view.settled = log
                             /\ view.fresh /\ view.open = Capped(open))
=============================================================================
