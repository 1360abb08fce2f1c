-------------------------- MODULE LiveSpoolProofs --------------------------
(***************************************************************************)
(* The cursor contract of the live stream, proved for every set of jobs,    *)
(* every page size, any number of stints, flushes and other readers: a      *)
(* browser that only echoes the cursor it was given holds each settled row  *)
(* once and in order, and an overlay fits the rows it comes with.           *)
(***************************************************************************)
EXTENDS LiveSpool, SequenceTheorems, FiniteSetTheorems, TLAPS

-----------------------------------------------------------------------------
(* The types of the fields. *)

Row == [job : Job, t0 : Nat, domain : Nat]
Byte == Row \cup {EOL}
Status == {"running", "done", "failed"}
Snap == [cursor : Nat, open : SUBSET Row, begun : SUBSET Row]
StateRecord == [cursor : Nat, omitted : BOOLEAN, begun : SUBSET Row,
                open : SUBSET Row, truncated : BOOLEAN]
ChildRecord == [pc : {"running", "fleet", "rows", "finishing"}, taken : Nat,
                flush : Nat, snap : Snap, out : Seq(Byte), last : Snap,
                omitted : BOOLEAN, outcome : {"failed", "done", "aborted"}]
ViewRecord == [cursor : Nat, settled : Seq(Row), open : SUBSET Row,
               fleet : BOOLEAN, ended : BOOLEAN, fresh : BOOLEAN,
               truncated : BOOLEAN, begun : SUBSET Row]
Accepted == [pc : {"accepted"}, start : Nat, status : Status]
WithState == [pc : {"state"}, start : Nat, status : Status,
              state : StateRecord]
WithRows == [pc : {"rows"}, start : Nat, status : Status,
             state : StateRecord, rows : Seq(Row), memo : Nat \X Nat]

CollectorTypes ==
    /\ open \subseteq Row /\ IsFiniteSet(open) /\ started \in Nat
    /\ log \in Seq(Row)
FileTypes ==
    /\ rows \in Seq(Byte) /\ state \in StateRecord /\ fleet \in BOOLEAN
ServerTypes == status \in Status /\ memo \in Nat \X Nat
ChildTypes == child \in ChildRecord \/ child.pc = "closed"
RequestTypes == request \in {Free} \cup Accepted \cup WithState \cup WithRows
ViewTypes == view \in ViewRecord

-----------------------------------------------------------------------------
(* The parts of the invariant, of a log l, a rows file f and the existence  *)
(* b of the fleet file.                                                     *)

\* The rows up to a cursor.
Held(l, n) == {l[i] : i \in 1 .. n}

\* A snapshot names each row that had begun, settled or open.
Whole(s, l) ==
    /\ s.cursor <= Len(l) /\ IsFiniteSet(s.open)
    /\ s.open \cap Held(l, s.cursor) = {}
    /\ s.open \cup Held(l, s.cursor) = s.begun

\* So does a state file, up to the cap, unless its overlay was left out.
StateFits(s, l, b) ==
    /\ s.cursor <= Len(l)
    /\ s.begun # {} => b
    /\ ~ s.omitted =>
         /\ s.open \cap Held(l, s.cursor) = {}
         /\ ~ s.truncated => s.open \cup Held(l, s.cursor) = s.begun

\* A memo names the end of a line.
MemoFits(m, f) == m[2] = 2 * m[1] /\ m[2] <= Len(f)

\* The file has the lines of the log, the last one perhaps in part.
Spooled(f, l) ==
    /\ Len(f) <= 2 * Len(l)
    /\ \A i \in 1 .. Len(f) : f[i] = Lines(l)[i]

\* What is still to be written takes the file to the first n rows of the log.
Completes(out, f, n, l) ==
    /\ Len(f) + Len(out) = 2 * n
    /\ \A i \in Len(f) + 1 .. 2 * n : out[i - Len(f)] = Lines(l)[i]

\* rs are rows of the log from a cursor on.
RowsAt(rs, l, start) ==
    /\ start + Len(rs) <= Len(l)
    /\ \A i \in 1 .. Len(rs) : rs[i] = l[start + i]

-----------------------------------------------------------------------------
(* The invariant. *)

\* A row opens once, and leaves the open ones when it settles.
Stints ==
    /\ \A r \in open : r.t0 < started
    /\ \A i \in 1 .. Len(log) : log[i].t0 < started /\ log[i] \notin open

Files ==
    /\ Spooled(rows, log) /\ (Len(rows) > 0 => fleet)
    /\ StateFits(state, log, fleet)

\* The worker has spooled what it has taken, but for what it is writing; the
\* state it may still publish is not older than the published one.
ChildFits ==
    child.pc # "closed" =>
      /\ Whole(child.last, log) /\ (child.omitted => fleet)
      /\ state.cursor <= child.last.cursor /\ child.last.cursor <= child.taken
      /\ child.taken <= Len(log)
      /\ child.pc \in {"running", "fleet", "rows"} =>
           Completes(child.out, rows, child.taken, log)
      /\ child.pc = "running" => Len(child.out) = 0
      /\ child.pc = "rows" => fleet
      /\ child.pc \in {"fleet", "rows"} =>
           Whole(child.snap, log) /\ child.snap.cursor = child.taken

\* A request carries the browser's cursor, a state that is neither behind it nor
\* ahead of the published one, and rows that go on from there.
RequestFits ==
    /\ request.pc # "free" => request.start = view.cursor
    /\ request.pc \in {"state", "rows"} =>
         /\ StateFits(request.state, log, fleet)
         /\ request.start <= request.state.cursor
         /\ request.state.cursor <= state.cursor
    /\ request.pc = "rows" =>
         /\ MemoFits(request.memo, rows)
         /\ RowsAt(request.rows, log, request.start)
         /\ request.start + Len(request.rows) <= request.state.cursor
         /\ Len(request.rows) > 0 => fleet

ViewFits ==
    /\ view.cursor <= state.cursor /\ (view.cursor > 0 => view.fleet)
    /\ Len(view.settled) = view.cursor /\ RowsAt(view.settled, log, 0)
    /\ view.fresh =>
         /\ view.open \cap Held(log, view.cursor) = {}
         /\ ~ view.truncated => view.open \cup Held(log, view.cursor) = view.begun

SpoolInv ==
    /\ CollectorTypes /\ FileTypes /\ ServerTypes /\ ChildTypes /\ RequestTypes
    /\ ViewTypes
    /\ Stints /\ Files /\ MemoFits(memo, rows) /\ ChildFits /\ RequestFits
    /\ ViewFits

-----------------------------------------------------------------------------
(* Two numbers and their minimum and maximum. *)

LEMMA MinOfTwo ==
    ASSUME NEW a \in Int, NEW b \in Int
    PROVE  Min({a, b}) = IF a <= b THEN a ELSE b
<1> DEFINE m == IF a <= b THEN a ELSE b
<1>1. m \in {a, b} /\ \A y \in {a, b} : m <= y
  OBVIOUS
<1>2. \A x \in {a, b} : (\A y \in {a, b} : x <= y) => x = m
  OBVIOUS
<1> QED BY <1>1, <1>2 DEF Min

LEMMA MaxOfTwo ==
    ASSUME NEW a \in Int, NEW b \in Int
    PROVE  Max({a, b}) = IF a >= b THEN a ELSE b
<1> DEFINE m == IF a >= b THEN a ELSE b
<1>1. m \in {a, b} /\ \A y \in {a, b} : m >= y
  OBVIOUS
<1>2. \A x \in {a, b} : (\A y \in {a, b} : x >= y) => x = m
  OBVIOUS
<1> QED BY <1>1, <1>2 DEF Max

-----------------------------------------------------------------------------
(* A log that grows at its end, and files that do. *)

Extends(m, l) == Len(l) <= Len(m) /\ \A i \in 1 .. Len(l) : m[i] = l[i]

\* Concatenation extends.
LEMMA ConcatExtends ==
    ASSUME NEW S, NEW l \in Seq(S), NEW s \in Seq(S)
    PROVE  /\ l \o s \in Seq(S) /\ Extends(l \o s, l)
           /\ Len(l \o s) = Len(l) + Len(s)
           /\ \A i \in 1 .. Len(s) : (l \o s)[Len(l) + i] = s[i]
<1>1. /\ Len(l) \in Nat /\ Len(s) \in Nat
  BY LenProperties
<1>2. /\ l \o s \in Seq(S) /\ Len(l \o s) = Len(l) + Len(s)
      /\ \A i \in 1 .. Len(l) + Len(s) :
           (l \o s)[i] = IF i <= Len(l) THEN l[i] ELSE s[i - Len(l)]
  BY ConcatProperties
<1> HIDE DEF Extends
<1>3. Extends(l \o s, l)
  BY <1>1, <1>2 DEF Extends
<1>4. ASSUME NEW i \in 1 .. Len(s)
      PROVE  (l \o s)[Len(l) + i] = s[i]
  <2>1. Len(l) + i \in 1 .. Len(l) + Len(s) /\ ~ (Len(l) + i <= Len(l))
        /\ Len(l) + i - Len(l) = i
    BY <1>1
  <2> QED BY <2>1, <1>2
<1> QED BY <1>2, <1>3, <1>4

\* What is said of a prefix of the log stays true.
LEMMA LogGrows ==
    ASSUME NEW l \in Seq(Row), NEW m \in Seq(Row), Extends(m, l)
    PROVE  /\ \A n \in 0 .. Len(l) : Held(m, n) = Held(l, n)
           /\ \A s : s.cursor \in Nat /\ Whole(s, l) => Whole(s, m)
           /\ \A s, b : s.cursor \in Nat /\ StateFits(s, l, b) => StateFits(s, m, b)
           /\ \A f \in Seq(Byte) : Spooled(f, l) => Spooled(f, m)
           /\ \A out : \A f \in Seq(Byte) : \A n \in 0 .. Len(l) :
                Completes(out, f, n, l) => Completes(out, f, n, m)
           /\ \A rs \in Seq(Row) : \A n \in Nat : RowsAt(rs, l, n) => RowsAt(rs, m, n)
<1>1. Len(l) \in Nat /\ Len(m) \in Nat /\ Len(l) <= Len(m)
      /\ \A i \in 1 .. Len(l) : m[i] = l[i]
  BY LenProperties DEF Extends
<1>2. \A n \in 0 .. Len(l) : Held(m, n) = Held(l, n)
  BY <1>1 DEF Held
<1>3. \A s : s.cursor \in Nat /\ s.cursor <= Len(l) => Held(m, s.cursor) = Held(l, s.cursor)
  BY <1>1, <1>2
<1>4. \A s : s.cursor \in Nat /\ Whole(s, l) => Whole(s, m)
  BY <1>1, <1>3 DEF Whole
<1>5. \A s, b : s.cursor \in Nat /\ StateFits(s, l, b) => StateFits(s, m, b)
  BY <1>1, <1>3 DEF StateFits
<1>0. \A i \in 1 .. 2 * Len(l) : Lines(m)[i] = Lines(l)[i]
  <2>1. \A i \in 1 .. 2 * Len(l) : i \in 1 .. 2 * Len(m)
                                  /\ (i % 2 = 1 => (i + 1) \div 2 \in 1 .. Len(l))
    BY <1>1
  <2> QED BY <2>1, <1>1 DEF Lines
<1>6. ASSUME NEW f \in Seq(Byte), Spooled(f, l) PROVE Spooled(f, m)
  <2>1. Len(f) \in Nat BY LenProperties
  <2>2. Len(f) <= 2 * Len(m) BY <2>1, <1>1, <1>6 DEF Spooled
  <2>3. \A i \in 1 .. Len(f) : i \in 1 .. 2 * Len(l)
    BY <2>1, <1>1, <1>6 DEF Spooled
  <2> QED BY <2>2, <2>3, <1>0, <1>6 DEF Spooled
<1>7. ASSUME NEW out, NEW f \in Seq(Byte), NEW n \in 0 .. Len(l),
             Completes(out, f, n, l)
      PROVE  Completes(out, f, n, m)
  <2>1. Len(f) \in Nat BY LenProperties
  <2>2. \A i \in Len(f) + 1 .. 2 * n : i \in 1 .. 2 * Len(l) BY <2>1, <1>1
  <2> QED BY <2>2, <1>0, <1>7 DEF Completes
<1>8. ASSUME NEW rs \in Seq(Row), NEW n \in Nat, RowsAt(rs, l, n)
      PROVE  RowsAt(rs, m, n)
  <2>1. Len(rs) \in Nat BY LenProperties
  <2>2. \A i \in 1 .. Len(rs) : n + i \in 1 .. Len(l)
    BY <2>1, <1>1, <1>8 DEF RowsAt
  <2> QED BY <2>1, <2>2, <1>1, <1>8 DEF RowsAt
<1> QED BY <1>2, <1>4, <1>5, <1>6, <1>7, <1>8

-----------------------------------------------------------------------------
(* What the worker writes. *)

\* Two bytes a row: the row, and the end of its line.
LEMMA LinesOfRows ==
    ASSUME NEW rs \in Seq(Row)
    PROVE  /\ Lines(rs) \in Seq(Byte) /\ Len(Lines(rs)) = 2 * Len(rs)
           /\ \A i \in 1 .. Len(rs) : /\ Lines(rs)[2 * i - 1] = rs[i]
                                    /\ Lines(rs)[2 * i] = EOL
<1>1. Len(rs) \in Nat /\ \A i \in 1 .. Len(rs) : rs[i] \in Row
  BY LenProperties, ElementOfSeq
<1>2. ASSUME NEW i \in 1 .. 2 * Len(rs), i % 2 = 1
      PROVE  (i + 1) \div 2 \in 1 .. Len(rs)
  BY <1>1, <1>2
<1>3. ASSUME NEW i \in 1 .. 2 * Len(rs)
      PROVE  (IF i % 2 = 1 THEN rs[(i + 1) \div 2] ELSE EOL) \in Byte
  BY <1>1, <1>2 DEF Byte
<1>4. Lines(rs) \in [1 .. 2 * Len(rs) -> Byte]
  BY <1>3 DEF Lines
<1>5. Lines(rs) \in Seq(Byte) /\ Len(Lines(rs)) = 2 * Len(rs)
  <2>1. 2 * Len(rs) \in Nat BY <1>1
  <2>2. DOMAIN Lines(rs) = 1 .. 2 * Len(rs) BY DEF Lines
  <2>3. Lines(rs) \in Seq(Byte) BY <2>1, <1>4, SeqDef
  <2> QED BY <2>1, <2>2, <2>3, LenProperties
<1>6. ASSUME NEW i \in 1 .. Len(rs)
      PROVE  Lines(rs)[2 * i - 1] = rs[i] /\ Lines(rs)[2 * i] = EOL
  <2>1. 2 * i - 1 \in 1 .. 2 * Len(rs) /\ (2 * i - 1) % 2 = 1
        /\ ((2 * i - 1) + 1) \div 2 = i
    BY <1>1
  <2>2. 2 * i \in 1 .. 2 * Len(rs) /\ (2 * i) % 2 # 1
    BY <1>1
  <2> QED BY <2>1, <2>2 DEF Lines
<1> QED BY <1>5, <1>6

\* A flush hands over the lines that are missing.
LEMMA FlushCompletes ==
    ASSUME NEW f \in Seq(Byte), NEW n \in Nat, log \in Seq(Row),
           n <= Len(log), Len(f) = 2 * n
    PROVE  /\ Lines(StintsSince(n)) \in Seq(Byte)
           /\ Completes(Lines(StintsSince(n)), f, Len(log), log)
<1> DEFINE s == StintsSince(n)
<1>1. Len(log) \in Nat /\ \A i \in 1 .. Len(log) : log[i] \in Row
  BY LenProperties, ElementOfSeq
<1>2. s \in Seq(Row) /\ Len(s) = Len(log) - n
      /\ \A i \in 1 .. Len(log) - n : s[i] = log[n + i]
  <2>1. n + 1 \in Int /\ Len(log) \in Int BY <1>1
  <2>2. \A i \in n + 1 .. Len(log) : log[i] \in Row BY <1>1
  <2>3. /\ SubSeq(log, n + 1, Len(log)) \in Seq(Row)
        /\ Len(SubSeq(log, n + 1, Len(log))) =
             IF n + 1 <= Len(log) THEN Len(log) - (n + 1) + 1 ELSE 0
        /\ \A i \in 1 .. Len(log) - (n + 1) + 1 :
             SubSeq(log, n + 1, Len(log))[i] = log[(n + 1) + i - 1]
    BY <2>1, <2>2, SubSeqProperties
  <2>4. \A i \in 1 .. Len(log) - n : i \in 1 .. Len(log) - (n + 1) + 1
                                     /\ (n + 1) + i - 1 = n + i
    BY <1>1
  <2> QED BY <2>3, <2>4, <1>1 DEF StintsSince
<1> HIDE DEF s
<1>3. Lines(s) \in Seq(Byte) /\ Len(Lines(s)) = 2 * Len(s)
  BY <1>2, LinesOfRows
<1>4. Len(f) + Len(Lines(s)) = 2 * Len(log)
  BY <1>1, <1>2, <1>3
<1>5. ASSUME NEW i \in Len(f) + 1 .. 2 * Len(log)
      PROVE  Lines(s)[i - Len(f)] = Lines(log)[i]
  <2>1. i - Len(f) \in 1 .. 2 * Len(s) /\ i \in 1 .. 2 * Len(log)
        /\ (i - Len(f)) % 2 = i % 2
    BY <1>1, <1>2
  <2>2. ASSUME i % 2 = 1
        PROVE  /\ ((i - Len(f)) + 1) \div 2 \in 1 .. Len(log) - n
               /\ n + ((i - Len(f)) + 1) \div 2 = (i + 1) \div 2
    BY <2>2, <1>1
  <2> QED BY <2>1, <2>2, <1>2 DEF Lines
<1>6. Completes(Lines(s), f, Len(log), log)
  BY <1>4, <1>5 DEF Completes
<1> QED BY <1>3, <1>6 DEF s

\* A piece of what completes the file, at its end.
LEMMA AppendCompletes ==
    ASSUME NEW f \in Seq(Byte), NEW out \in Seq(Byte), NEW l \in Seq(Row),
           NEW t \in 0 .. Len(l), Completes(out, f, t, l), Spooled(f, l),
           NEW n \in 1 .. Len(out)
    PROVE  LET g == f \o SubSeq(out, 1, n)
               rest == SubSeq(out, n + 1, Len(out))
           IN  /\ g \in Seq(Byte) /\ Len(g) = Len(f) + n /\ Spooled(g, l)
               /\ rest \in Seq(Byte) /\ Completes(rest, g, t, l)
<1> DEFINE s == SubSeq(out, 1, n)
           g == f \o s
           rest == SubSeq(out, n + 1, Len(out))
<1>1. /\ Len(f) \in Nat /\ Len(out) \in Nat /\ Len(l) \in Nat
      /\ \A i \in 1 .. Len(out) : out[i] \in Byte
  BY LenProperties, ElementOfSeq
<1>2. s \in Seq(Byte) /\ Len(s) = n /\ \A i \in 1 .. n : s[i] = out[i]
  <2>1. 1 \in Int /\ n \in Int /\ \A i \in 1 .. n : out[i] \in Byte BY <1>1
  <2>2. /\ SubSeq(out, 1, n) \in Seq(Byte)
        /\ Len(SubSeq(out, 1, n)) = IF 1 <= n THEN n - 1 + 1 ELSE 0
        /\ \A i \in 1 .. n - 1 + 1 : SubSeq(out, 1, n)[i] = out[1 + i - 1]
    BY <2>1, SubSeqProperties
  <2>3. \A i \in 1 .. n : i \in 1 .. n - 1 + 1 /\ 1 + i - 1 = i
    BY <1>1
  <2> QED BY <2>2, <2>3, <1>1
<1>3. rest \in Seq(Byte) /\ Len(rest) = Len(out) - n
      /\ \A i \in 1 .. Len(out) - n : rest[i] = out[n + i]
  <2>1. n + 1 \in Int /\ Len(out) \in Int
        /\ \A i \in n + 1 .. Len(out) : out[i] \in Byte
    BY <1>1
  <2>2. /\ SubSeq(out, n + 1, Len(out)) \in Seq(Byte)
        /\ Len(SubSeq(out, n + 1, Len(out))) =
             IF n + 1 <= Len(out) THEN Len(out) - (n + 1) + 1 ELSE 0
        /\ \A i \in 1 .. Len(out) - (n + 1) + 1 :
             SubSeq(out, n + 1, Len(out))[i] = out[(n + 1) + i - 1]
    BY <2>1, SubSeqProperties
  <2>3. \A i \in 1 .. Len(out) - n : i \in 1 .. Len(out) - (n + 1) + 1
                                     /\ (n + 1) + i - 1 = n + i
    BY <1>1
  <2> QED BY <2>2, <2>3, <1>1
<1> HIDE DEF s, rest
<1>4. g \in Seq(Byte) /\ Len(g) = Len(f) + n
      /\ \A i \in 1 .. Len(f) + n : g[i] = IF i <= Len(f) THEN f[i] ELSE s[i - Len(f)]
  BY <1>2, ConcatProperties
<1> HIDE DEF g
<1>5. Spooled(g, l)
  <2>1. Len(g) <= 2 * Len(l) BY <1>1, <1>4 DEF Completes
  <2>2. ASSUME NEW i \in 1 .. Len(g) PROVE g[i] = Lines(l)[i]
    <3>1. i \in 1 .. Len(f) + n BY <1>4
    <3>2. CASE i <= Len(f) BY <3>1, <3>2, <1>1, <1>4 DEF Spooled
    <3>3. CASE i > Len(f)
      <4>1. i \in Len(f) + 1 .. 2 * t BY <3>1, <3>3, <1>1 DEF Completes
      <4>2. i - Len(f) \in 1 .. n /\ ~ (i <= Len(f)) BY <3>1, <3>3, <1>1
      <4>3. g[i] = s[i - Len(f)] BY <3>1, <4>2, <1>4
      <4> QED BY <4>1, <4>2, <4>3, <1>2 DEF Completes
    <3> QED BY <3>1, <3>2, <3>3, <1>1
  <2> QED BY <2>1, <2>2 DEF Spooled
<1>6. Completes(rest, g, t, l)
  <2>0. Len(f) + Len(out) = 2 * t BY DEF Completes
  <2>1. Len(g) + Len(rest) = 2 * t
    <3>1. Len(g) = Len(f) + n BY <1>4
    <3>2. Len(rest) = Len(out) - n BY <1>3
    <3>3. Len(f) \in Int /\ Len(out) \in Int /\ n \in Int 
          /\ t \in Int
      BY <1>1
    <3> QED BY <2>0, <3>1, <3>2, <3>3, SMTT(60)
  <2>2. ASSUME NEW i \in Len(g) + 1 .. 2 * t
        PROVE  rest[i - Len(g)] = Lines(l)[i]
    <3>1. i \in Len(f) + 1 .. 2 * t /\ i - Len(g) \in 1 .. Len(out) - n
          /\ n + (i - Len(g)) = i - Len(f)
      BY <2>0, <1>1, <1>4, <2>2
    <3> QED BY <3>1, <1>3 DEF Completes
  <2> QED BY <2>1, <2>2 DEF Completes
<1> QED BY <1>3, <1>4, <1>5, <1>6 DEF g, s, rest

-----------------------------------------------------------------------------
(* What a handler reads. *)

\* Lines are read from the end of line k on.
LEMMA LinesRead ==
    ASSUME NEW f \in Seq(Byte), NEW l \in Seq(Row), Spooled(f, l),
           NEW k \in Nat, 2 * k <= Len(f), NEW n \in Nat
    PROVE  LET read == ReadLines(f, 2 * k, n)
           IN  /\ read.lines \in Seq(Row) /\ Len(read.lines) \in 0 .. n
               /\ read.bytes = 2 * Len(read.lines)
               /\ 2 * (k + Len(read.lines)) <= Len(f)
               /\ RowsAt(read.lines, l, k)
<1> DEFINE Ended(i) == 2 * k + 2 * i <= Len(f) /\ f[2 * k + 2 * i] = EOL
           S == {g \in 0 .. n : \A i \in 1 .. g : Ended(i)}
           got == Max(S)
           lines == [i \in 1 .. got |-> f[2 * k + 2 * i - 1]]
<1>1. /\ Len(f) \in Nat /\ Len(l) \in Nat /\ \A i \in 1 .. Len(l) : l[i] \in Row
      /\ \A i \in 1 .. Len(l) : Lines(l)[2 * i - 1] = l[i]
  BY LenProperties, ElementOfSeq, LinesOfRows
<1>2. got \in S
  <2> DEFINE d == (Len(f) - 2 * k) \div 2
             m == IF n <= d THEN n ELSE d
  <2>1. d \in Nat /\ 2 * d <= Len(f) - 2 * k BY <1>1
  <2>2. \A g \in Nat : 2 * k + 2 * g <= Len(f) => g <= d BY <1>1
  <2> HIDE DEF d
  <2>3. m \in 0 .. n /\ m <= d BY <2>1
  <2>4. ASSUME NEW i \in 1 .. m PROVE Ended(i)
    <3>1. 2 * k + 2 * i \in 1 .. Len(f) /\ k + i \in 1 .. Len(l)
          /\ 2 * k + 2 * i = 2 * (k + i)
      BY <2>1, <2>3, <1>1 DEF Spooled
    <3>2. Lines(l)[2 * (k + i)] = EOL BY <3>1, LinesOfRows
    <3> QED BY <3>1, <3>2 DEF Spooled
  <2>5. ASSUME NEW g \in S PROVE g <= m
    <3>1. CASE g = 0 BY <3>1, <2>3
    <3>2. CASE g # 0
      <4>1. g \in 1 .. g BY <3>2
      <4>2. 2 * k + 2 * g <= Len(f) BY <4>1
      <4> QED BY <4>2, <2>2
    <3> QED BY <3>1, <3>2
  <2>6. m \in S BY <2>3, <2>4
  <2> HIDE DEF m, S
  <2> QED BY <2>5, <2>6 DEF Max
<1>3. got \in 0 .. n /\ \A i \in 1 .. got : Ended(i)
  BY <1>2
<1> HIDE DEF got, S
<1>4. 2 * (k + got) <= Len(f) /\ k + got <= Len(l)
  <2>1. CASE got = 0 BY <2>1, <1>1 DEF Spooled
  <2>2. CASE got # 0
    <3>1. got \in 1 .. got BY <2>2, <1>3
    <3>2. 2 * k + 2 * got <= Len(f) BY <3>1, <1>3
    <3> QED BY <3>2, <1>1, <1>3 DEF Spooled
  <2> QED BY <2>1, <2>2
<1>5. ASSUME NEW i \in 1 .. got
      PROVE  f[2 * k + 2 * i - 1] = l[k + i] /\ l[k + i] \in Row
  <2>1. k + i \in 1 .. Len(l) /\ 2 * (k + i) - 1 \in 1 .. Len(f)
        /\ 2 * (k + i) - 1 = 2 * k + 2 * i - 1
    BY <1>1, <1>3, <1>4
  <2>2. f[2 * (k + i) - 1] = Lines(l)[2 * (k + i) - 1]
    BY <2>1 DEF Spooled
  <2> QED BY <2>1, <2>2, <1>1
<1>6. lines \in [1 .. got -> Row] /\ DOMAIN lines = 1 .. got
      /\ \A i \in 1 .. got : lines[i] = l[k + i]
  BY <1>5
<1> HIDE DEF lines
<1>7. lines \in Seq(Row) /\ Len(lines) = got
  BY <1>3, <1>6, SeqDef, LenProperties
<1>8. RowsAt(lines, l, k)
  BY <1>4, <1>6, <1>7 DEF RowsAt
<1>9. /\ ReadLines(f, 2 * k, n).lines = lines
      /\ ReadLines(f, 2 * k, n).bytes = 2 * got
  BY DEF ReadLines, lines, got, S
<1> QED BY <1>3, <1>4, <1>7, <1>8, <1>9

\* A read from a memo that is not ahead of the cursor.
LEMMA RowsReadFrom ==
    ASSUME rows \in Seq(Byte), log \in Seq(Row), Spooled(rows, log),
           NEW from \in Nat \X Nat, MemoFits(from, rows),
           NEW start \in Nat, from[1] <= start, NEW count \in Nat
    PROVE  LET read == RowsFrom(from, start, count)
           IN  /\ read.rows \in Seq(Row)
               /\ read.memo \in Nat \X Nat /\ MemoFits(read.memo, rows)
               /\ Len(read.rows) <= count
               /\ Len(read.rows) > 0 =>
                    RowsAt(read.rows, log, start) /\ Len(rows) > 0
<1> DEFINE n == start - from[1]
           skipped == ReadLines(rows, from[2], Max({start - from[1], 0}))
           more == ReadLines(rows, from[2] + skipped.bytes, count)
           read == RowsFrom(from, start, count)
<1>1. /\ Len(rows) \in Nat /\ from[1] \in Nat /\ from[2] = 2 * from[1]
      /\ 2 * from[1] <= Len(rows) /\ n \in Nat
      /\ Max({start - from[1], 0}) = n
  BY LenProperties, MaxOfTwo DEF MemoFits
<1>2. /\ skipped.lines \in Seq(Row) /\ Len(skipped.lines) \in 0 .. n
      /\ skipped.bytes = 2 * Len(skipped.lines)
      /\ 2 * (from[1] + Len(skipped.lines)) <= Len(rows)
  <2>1. skipped = ReadLines(rows, 2 * from[1], n) BY <1>1
  <2> HIDE DEF skipped, n
  <2> QED BY <2>1, <1>1, LinesRead
<1>3. CASE Len(skipped.lines) < n
  <2>1. read = [rows |-> << >>, memo |-> <<0, 0>>]
    BY <1>3 DEF RowsFrom
  <2>2. << >> \in Seq(Row) /\ Len(<< >>) = 0
    BY EmptySeq
  <2> QED BY <2>1, <2>2, <1>1 DEF MemoFits
<1>4. CASE ~ (Len(skipped.lines) < n)
  <2>1. Len(skipped.lines) = n /\ from[2] + skipped.bytes = 2 * start
        /\ 2 * start <= Len(rows) /\ from[1] + n = start
    BY <1>1, <1>2, <1>4, SMTT(60)
  <2>2. /\ more.lines \in Seq(Row) /\ Len(more.lines) \in 0 .. count
        /\ more.bytes = 2 * Len(more.lines)
        /\ 2 * (start + Len(more.lines)) <= Len(rows)
        /\ RowsAt(more.lines, log, start)
    BY <2>1, LinesRead
  <2>3. read = [rows |-> more.lines,
                memo |-> <<from[1] + Len(skipped.lines \o more.lines),
                           from[2] + skipped.bytes + more.bytes>>]
    BY <1>4 DEF RowsFrom
  <2> HIDE DEF skipped, more, read, n
  <2>4. Len(skipped.lines \o more.lines) = n + Len(more.lines)
    <3>1. Len(skipped.lines \o more.lines) = Len(skipped.lines) + Len(more.lines)
      BY <2>2, <1>2, ConcatProperties
    <3> QED BY <3>1, <2>1
  <2>5. read.rows = more.lines
        /\ read.memo = <<start + Len(more.lines), 2 * (start + Len(more.lines))>>
    <3>1. /\ from[1] + (n + Len(more.lines)) = start + Len(more.lines)
          /\ from[2] + skipped.bytes + more.bytes = 2 * (start + Len(more.lines))
      <4> DEFINE a == Len(more.lines)
      <4>1. a \in Nat /\ more.bytes = 2 * a BY <2>2
      <4> HIDE DEF a
      <4>2. from[1] + (n + a) = start + a BY <4>1, <2>1, <1>1, SMTT(60)
      <4>3. from[2] + skipped.bytes + more.bytes = 2 * (start + a)
        BY <4>1, <2>1
      <4> QED BY <4>2, <4>3 DEF a
    <3> QED BY <3>1, <2>3, <2>4
  <2>6. Len(more.lines) \in Nat BY <2>2
  <2>7. read.memo \in Nat \X Nat /\ MemoFits(read.memo, rows)
    BY <2>2, <2>5, <2>6 DEF MemoFits
  <2>8. Len(read.rows) > 0 => Len(rows) > 0
    BY <2>2, <2>5, <2>6, <1>1
  <2>9. read.rows \in Seq(Row) /\ Len(read.rows) <= count /\ RowsAt(read.rows, log, start)
    BY <2>2, <2>5, <2>6
  <2> QED BY <2>7, <2>8, <2>9 DEF read
<1> QED BY <1>3, <1>4

\* A handler's read, whatever the memo and the cursor.
LEMMA RowsReadFit ==
    ASSUME rows \in Seq(Byte), log \in Seq(Row), Spooled(rows, log),
           memo \in Nat \X Nat, MemoFits(memo, rows),
           NEW r, r.start \in Nat, r.state.cursor \in Nat
    PROVE  LET read == RowsRead(r)
           IN  /\ read.rows \in Seq(Row)
               /\ read.memo \in Nat \X Nat /\ MemoFits(read.memo, rows)
               /\ Len(read.rows) > 0 =>
                    /\ RowsAt(read.rows, log, r.start) /\ Len(rows) > 0
                    /\ r.start + Len(read.rows) <= r.state.cursor
<1> DEFINE read == RowsRead(r)
<1>1. Len(rows) \in Nat /\ << >> \in Seq(Row) /\ Len(<< >>) = 0
  BY LenProperties, EmptySeq
<1>2. ROW_LIMIT \in Nat
  BY LiveAssumption DEF LiveAssumption
<1>3. Wanted(r) \in Int /\ Wanted(r) <= r.state.cursor - r.start
  <2> DEFINE a == r.state.cursor - r.start
  <2>1. a \in Int OBVIOUS
  <2>2. Wanted(r) = Min({a, ROW_LIMIT}) BY DEF Wanted
  <2> HIDE DEF a
  <2>3. Wanted(r) = IF a <= ROW_LIMIT THEN a ELSE ROW_LIMIT
    BY <2>1, <2>2, <1>2, MinOfTwo
  <2>4. Wanted(r) \in Int /\ Wanted(r) <= a BY <2>1, <2>3, <1>2
  <2> QED BY <2>4 DEF a
<1>4. CASE Wanted(r) <= 0
  <2>1. read = [rows |-> << >>, memo |-> <<0, 0>>]
    BY <1>4 DEF RowsRead
  <2> QED BY <2>1, <1>1 DEF MemoFits
<1>5. CASE ~ (Wanted(r) <= 0)
  <2> DEFINE from == MemoFor(r.start)
  <2>1. from \in Nat \X Nat /\ MemoFits(from, rows) /\ from[1] <= r.start
    <3>1. memo[1] \in Nat OBVIOUS
    <3>2. CASE memo[1] > r.start BY <3>2, <1>1 DEF MemoFor, MemoFits
    <3>3. CASE ~ (memo[1] > r.start) BY <3>1, <3>3 DEF MemoFor
    <3> QED BY <3>2, <3>3
  <2> HIDE DEF from
  <2>2. read = RowsFrom(from, r.start, Wanted(r)) /\ Wanted(r) \in Nat
    BY <1>3, <1>5 DEF RowsRead, from
  <2>3. /\ read.rows \in Seq(Row)
        /\ read.memo \in Nat \X Nat /\ MemoFits(read.memo, rows)
        /\ Len(read.rows) <= Wanted(r)
        /\ Len(read.rows) > 0 => RowsAt(read.rows, log, r.start) /\ Len(rows) > 0
    BY <2>1, <2>2, RowsReadFrom, SMTT(60)
  <2> HIDE DEF read
  <2>4. Len(read.rows) \in Nat
    BY <2>3, LenProperties
  <2>5. r.start + Len(read.rows) <= r.state.cursor
    BY <2>3, <2>4, <1>3, SMTT(60)
  <2> QED BY <2>3, <2>5 DEF read
<1> QED BY <1>4, <1>5

-----------------------------------------------------------------------------
(* The state file. *)

\* The cap keeps rows of the overlay, all of them if they are few.
LEMMA CappedOverlay ==
    ASSUME NEW S, S \subseteq Row, IsFiniteSet(S)
    PROVE  /\ Capped(S) \subseteq S
           /\ ~ (Cardinality(S) > ROW_LIMIT) => Capped(S) = S
<1>1. Capped(S) \subseteq S
  BY DEF Capped
<1>2. ASSUME ~ (Cardinality(S) > ROW_LIMIT), NEW r \in S
      PROVE  r \in Capped(S)
  <2> DEFINE T == {s \in S : Before(s, r)}
  <2>1. r \notin T
    <3>1. r.t0 \in Nat /\ r.domain \in Nat BY DEF Row
    <3> QED BY <3>1 DEF Before
  <2>2. T \subseteq S \ {r} /\ T \subseteq S
    BY <2>1
  <2>3. IsFiniteSet(T) /\ Cardinality(T) <= Cardinality(S)
        /\ (Cardinality(S) = Cardinality(T) => S = T)
    BY <2>2, FS_Subset
  <2>4. Cardinality(T) # Cardinality(S)
    BY <2>1, <2>3
  <2>5. Cardinality(T) \in Nat /\ Cardinality(S) \in Nat /\ ROW_LIMIT \in Nat
    BY <2>3, FS_CardinalityType, LiveAssumption DEF LiveAssumption
  <2> HIDE DEF T
  <2>6. Cardinality(T) < ROW_LIMIT
    BY <2>3, <2>4, <2>5, <1>2
  <2> QED BY <2>6 DEF T, Capped
<1> QED BY <1>1, <1>2

\* The state file of a whole snapshot fits.
LEMMA StateFileFits ==
    ASSUME NEW s \in Snap, NEW l, Whole(s, l), NEW overlay \in BOOLEAN, NEW b,
           s.begun # {} => b
    PROVE  /\ StateFile(s, overlay) \in StateRecord
           /\ StateFile(s, overlay).cursor = s.cursor
           /\ StateFits(StateFile(s, overlay), l, b)
<1> DEFINE f == StateFile(s, overlay)
<1>1. /\ s.cursor \in Nat /\ s.open \subseteq Row /\ s.begun \subseteq Row
      /\ IsFiniteSet(s.open)
  BY DEF Snap, Whole
<1>2. /\ Capped(s.open) \subseteq s.open
      /\ ~ (Cardinality(s.open) > ROW_LIMIT) => Capped(s.open) = s.open
  BY <1>1, CappedOverlay
<1>3. /\ f.cursor = s.cursor /\ f.omitted = ~ overlay /\ f.begun = s.begun
      /\ f.open = IF overlay THEN Capped(s.open) ELSE {}
      /\ f.truncated = (overlay /\ Cardinality(s.open) > ROW_LIMIT)
  BY DEF StateFile
<1>4. f \in StateRecord
  BY <1>1, <1>2 DEF StateFile, StateRecord
<1> HIDE DEF f
<1>5. ASSUME ~ f.omitted
      PROVE  /\ f.open \cap Held(l, f.cursor) = {}
             /\ ~ f.truncated => f.open \cup Held(l, f.cursor) = f.begun
  <2>1. overlay /\ f.open = Capped(s.open) BY <1>3, <1>5
  <2>2. f.open \cap Held(l, f.cursor) = {} BY <2>1, <1>2, <1>3 DEF Whole
  <2>3. ~ f.truncated => f.open = s.open BY <2>1, <1>2, <1>3
  <2> QED BY <2>2, <2>3, <1>3 DEF Whole
<1>6. StateFits(f, l, b)
  BY <1>3, <1>5 DEF StateFits, Whole
<1> QED BY <1>3, <1>4, <1>6 DEF f

-----------------------------------------------------------------------------
(* The initial state, and what a step of one side leaves to show. *)

LEMMA InitEstablishesInv == Init => SpoolInv
<1> SUFFICES ASSUME Init PROVE SpoolInv OBVIOUS
<1> USE DEF Init
<1>1. \A S : << >> \in Seq(S)
  BY EmptySeq
<1>2. Len(<< >>) = 0
  BY EmptySeq
<1>3. NoSnapshot \in Snap
  BY DEF NoSnapshot, Snap
<1>4. CollectorTypes
  BY <1>1, FS_EmptySet DEF CollectorTypes
<1>5. FileTypes
  BY <1>1 DEF FileTypes, NoState, StateRecord
<1>6. ServerTypes /\ RequestTypes
  BY DEF ServerTypes, Status, RequestTypes
<1>7. child \in ChildRecord
  BY <1>1, <1>3 DEF ChildRecord
<1>8. ViewTypes
  BY <1>1 DEF ViewTypes, ViewRecord
<1>9. Stints
  BY <1>2 DEF Stints
<1>10. Held(log, 0) = {}
  BY DEF Held
<1>11. Files
  BY <1>2, <1>10 DEF Files, Spooled, StateFits, NoState
<1>12. MemoFits(memo, rows)
  BY <1>2 DEF MemoFits
<1>13. Whole(NoSnapshot, log)
  BY <1>2, <1>10, FS_EmptySet DEF Whole, NoSnapshot
<1>14. ChildFits
  BY <1>2, <1>13 DEF ChildFits, Completes, NoSnapshot, NoState
<1>15. RequestFits
  BY DEF RequestFits, Free
<1>16. ViewFits
  BY <1>2 DEF ViewFits, NoState, RowsAt
<1> QED BY <1>4, <1>5, <1>6, <1>7, <1>8, <1>9, <1>11, <1>12, <1>14, <1>15, <1>16
        DEF SpoolInv, ChildTypes

\* A step of the worker that only adds to the files leaves the readers' facts.
LEMMA WorkerKeeps ==
    ASSUME SpoolInv, UNCHANGED <<collector, server, request, view>>,
           FileTypes', ChildTypes', Files', ChildFits',
           state.cursor <= state'.cursor, Len(rows) <= Len(rows'),
           fleet => fleet'
    PROVE  SpoolInv'
<1> USE DEF collector, server
<1>1. CollectorTypes' /\ ServerTypes' /\ RequestTypes' /\ ViewTypes' /\ Stints'
  BY DEF SpoolInv, CollectorTypes, ServerTypes, RequestTypes, ViewTypes, Stints
<1>2. /\ Len(rows) \in Nat /\ Len(rows') \in Nat /\ view.cursor \in Nat
      /\ state.cursor \in Nat /\ state'.cursor \in Nat
  BY LenProperties DEF SpoolInv, FileTypes, StateRecord, ViewTypes, ViewRecord
<1>3. \A m \in Nat \X Nat : MemoFits(m, rows) => MemoFits(m, rows')
  BY <1>2 DEF MemoFits
<1>4. MemoFits(memo, rows)'
  BY <1>3 DEF SpoolInv, ServerTypes
<1>5. ViewFits'
  <2>1. view.cursor <= state'.cursor BY <1>2 DEF SpoolInv, ViewFits
  <2> QED BY <2>1 DEF SpoolInv, ViewFits
<1>6. \A s : StateFits(s, log, fleet) => StateFits(s, log, fleet')
  BY DEF StateFits
<1>7. request.pc = "rows" => request.memo \in Nat \X Nat
  BY DEF SpoolInv, RequestTypes, Free, Accepted, WithState, WithRows
<1>8. request.pc \in {"state", "rows"} => request.state.cursor <= state'.cursor
  <2>1. request.pc \in {"state", "rows"} => request.state.cursor \in Nat
    BY DEF SpoolInv, RequestTypes, Free, Accepted, WithState, WithRows, StateRecord
  <2> QED BY <2>1, <1>2 DEF SpoolInv, RequestFits
<1>9. RequestFits'
  BY <1>3, <1>6, <1>7, <1>8 DEF SpoolInv, RequestFits
<1> QED BY <1>1, <1>4, <1>5, <1>9 DEF SpoolInv

\* A step of the server or the browser leaves the worker's.
LEMMA ReaderKeeps ==
    ASSUME SpoolInv, UNCHANGED <<collector, child, files>>,
           ServerTypes', RequestTypes', ViewTypes', MemoFits(memo, rows)',
           RequestFits', ViewFits'
    PROVE  SpoolInv'
<1> USE DEF collector, files
<1>1. CollectorTypes' /\ FileTypes' /\ ChildTypes' /\ Stints' /\ Files'
  BY DEF SpoolInv, CollectorTypes, FileTypes, ChildTypes, Stints, Files
<1>2. ChildFits'
  BY DEF SpoolInv, ChildFits
<1> QED BY <1>1, <1>2 DEF SpoolInv

-----------------------------------------------------------------------------
(* The steps of the collector. *)

LEMMA JobStartedKeepsInv ==
    ASSUME SpoolInv, NEW j \in Job, JobStarted(j)
    PROVE  SpoolInv'
<1> DEFINE row(d) == [job |-> j, t0 |-> started, domain |-> d]
           new == {row(d) : d \in Share[j]}
<1> USE DEF files, server
<1>1. /\ open' = open \cup new /\ started' = started + 1
      /\ UNCHANGED <<log, child, rows, state, fleet, status, memo, request, view>>
  BY DEF JobStarted
<1>2. /\ open \subseteq Row /\ IsFiniteSet(open) /\ started \in Nat
      /\ log \in Seq(Row)
  BY DEF SpoolInv, CollectorTypes
<1>3. IsFiniteSet(Share[j]) /\ Share[j] \subseteq Nat
  BY LiveAssumption DEF LiveAssumption
<1>4. new \subseteq Row /\ \A r \in new : r.t0 = started
  BY <1>2, <1>3 DEF Row
<1>5. IsFiniteSet(new)
  <2> DEFINE f == [d \in Share[j] |-> row(d)]
  <2>1. f \in Surjection(Share[j], new)
    BY DEF Surjection
  <2> QED BY <2>1, <1>3, FS_Surjection
<1> HIDE DEF new
<1>6. CollectorTypes'
  <2>1. IsFiniteSet(open \cup new)
    BY <1>2, <1>5, FS_Union
  <2>2. open' \subseteq Row /\ started' \in Nat
    BY <1>1, <1>2, <1>4
  <2> QED BY <2>1, <2>2, <1>1, <1>2 DEF CollectorTypes
<1>7. Stints'
  <2>1. ASSUME NEW r \in open' PROVE r.t0 < started'
    <3>1. CASE r \in open
      <4>1. r.t0 \in Nat /\ r.t0 < started
        BY <3>1, <1>2 DEF Row, SpoolInv, Stints
      <4> QED BY <4>1, <1>1, <1>2
    <3>2. CASE r \in new
      BY <3>2, <1>1, <1>2, <1>4
    <3> QED BY <2>1, <3>1, <3>2, <1>1
  <2>2. ASSUME NEW i \in 1 .. Len(log)
        PROVE  log[i].t0 < started' /\ log[i] \notin open'
    <3>1. log[i] \in Row /\ log[i].t0 < started /\ log[i] \notin open
      BY <1>2, ElementOfSeq DEF SpoolInv, Stints
    <3>2. log[i].t0 \in Nat
      BY <3>1 DEF Row
    <3>3. log[i] \notin new
      BY <3>1, <3>2, <1>2, <1>4
    <3> QED BY <3>1, <3>2, <3>3, <1>1, <1>2
  <2> QED BY <2>1, <2>2, <1>1 DEF Stints
<1>8. FileTypes' /\ ServerTypes' /\ ChildTypes' /\ RequestTypes' /\ ViewTypes'
  BY <1>1 DEF SpoolInv, FileTypes, ServerTypes, ChildTypes, RequestTypes, ViewTypes
<1>9. Files' /\ MemoFits(memo, rows)' /\ ChildFits' /\ RequestFits' /\ ViewFits'
  BY <1>1 DEF SpoolInv, Files, ChildFits, RequestFits, ViewFits
<1> QED BY <1>6, <1>7, <1>8, <1>9 DEF SpoolInv

LEMMA SettleStintKeepsInv ==
    ASSUME SpoolInv, NEW j \in Job, SettleStint(j)
    PROVE  SpoolInv'
<1> USE DEF files, server
<1>1. PICK s \in [1 .. Cardinality(RowsOf(j)) -> RowsOf(j)] : log' = log \o s
  BY DEF SettleStint
<1>2. /\ open' = open \ RowsOf(j)
      /\ UNCHANGED <<started, child, rows, state, fleet, status, memo, request, view>>
  BY DEF SettleStint
<1>3. /\ open \subseteq Row /\ IsFiniteSet(open) /\ started \in Nat
      /\ log \in Seq(Row) /\ RowsOf(j) \subseteq open
  BY DEF SpoolInv, CollectorTypes, RowsOf
<1>4. s \in Seq(Row) /\ Len(s) = Cardinality(RowsOf(j))
      /\ \A i \in 1 .. Len(s) : s[i] \in RowsOf(j)
  <2>1. Cardinality(RowsOf(j)) \in Nat
    BY <1>3, FS_Subset, FS_CardinalityType
  <2>2. s \in Seq(RowsOf(j)) /\ DOMAIN s = 1 .. Cardinality(RowsOf(j))
    BY <2>1, SeqDef
  <2>3. s \in Seq(Row)
    BY <2>2, <1>3, SeqMonotonic
  <2> QED BY <2>1, <2>2, <2>3, LenProperties, ElementOfSeq
<1>5. /\ log' \in Seq(Row) /\ Extends(log', log) /\ Len(log') = Len(log) + Len(s)
      /\ \A i \in 1 .. Len(s) : log'[Len(log) + i] = s[i]
  BY <1>1, <1>3, <1>4, ConcatExtends
<1>6. CollectorTypes'
  BY <1>2, <1>3, <1>5, FS_Subset DEF CollectorTypes
<1>7. Stints'
  <2>1. Len(log) \in Nat /\ Len(s) \in Nat
    BY <1>3, <1>4, LenProperties
  <2>2. ASSUME NEW i \in 1 .. Len(log')
        PROVE  log'[i].t0 < started /\ log'[i] \notin open'
    <3>1. CASE i <= Len(log)
      <4>1. i \in 1 .. Len(log) BY <2>1, <3>1, <1>5
      <4> QED BY <4>1, <1>2, <1>5 DEF Extends, SpoolInv, Stints
    <3>2. CASE i > Len(log)
      <4>1. i - Len(log) \in 1 .. Len(s) /\ Len(log) + (i - Len(log)) = i
        BY <2>1, <3>2, <1>5
      <4>2. log'[i] \in RowsOf(j) BY <4>1, <1>4, <1>5
      <4> QED BY <4>2, <1>2, <1>3 DEF SpoolInv, Stints
    <3> QED BY <2>1, <3>1, <3>2, <1>5
  <2> QED BY <2>2, <1>2 DEF SpoolInv, Stints
<1>8. FileTypes' /\ ServerTypes' /\ ChildTypes' /\ RequestTypes' /\ ViewTypes'
  BY <1>2 DEF SpoolInv, FileTypes, ServerTypes, ChildTypes, RequestTypes, ViewTypes
<1>9. /\ Len(log) \in Nat /\ Len(log') \in Nat /\ Len(log) <= Len(log')
      /\ \A n \in 0 .. Len(log) : Held(log', n) = Held(log, n)
      /\ \A x : x.cursor \in Nat /\ Whole(x, log) => Whole(x, log')
      /\ \A x, b : x.cursor \in Nat /\ StateFits(x, log, b) => StateFits(x, log', b)
      /\ \A f \in Seq(Byte) : Spooled(f, log) => Spooled(f, log')
      /\ \A out : \A f \in Seq(Byte) : \A n \in 0 .. Len(log) :
           Completes(out, f, n, log) => Completes(out, f, n, log')
      /\ \A rs \in Seq(Row) : \A n \in Nat : RowsAt(rs, log, n) => RowsAt(rs, log', n)
  BY <1>3, <1>5, LogGrows, LenProperties DEF Extends
<1>10. Files' /\ MemoFits(memo, rows)'
  <2>1. rows \in Seq(Byte) /\ state.cursor \in Nat
    BY DEF SpoolInv, FileTypes, StateRecord
  <2> QED BY <2>1, <1>2, <1>9 DEF SpoolInv, Files
<1>11. ChildFits'
  <2> SUFFICES ASSUME child.pc # "closed" PROVE ChildFits'
    BY <1>2 DEF ChildFits
  <2>1. child.last.cursor \in Nat /\ child.snap.cursor \in Nat /\ child.taken \in Nat
    BY DEF SpoolInv, ChildTypes, ChildRecord, Snap
  <2>2. child.taken \in 0 .. Len(log)
    BY <2>1, <1>9 DEF SpoolInv, ChildFits
  <2>3. Whole(child.last, log') /\ child.taken <= Len(log')
    BY <2>1, <2>2, <1>9 DEF SpoolInv, ChildFits
  <2>4. child.pc \in {"running", "fleet", "rows"} =>
          Completes(child.out, rows, child.taken, log')
    BY <2>2, <1>9 DEF SpoolInv, ChildFits, FileTypes
  <2>5. child.pc \in {"fleet", "rows"} => Whole(child.snap, log')
    BY <2>1, <1>9 DEF SpoolInv, ChildFits
  <2> QED BY <2>3, <2>4, <2>5, <1>2 DEF SpoolInv, ChildFits
<1>12. RequestFits'
  <2>1. request.pc \in {"state", "rows"} =>
          request.start \in Nat /\ request.state.cursor \in Nat
    BY DEF SpoolInv, RequestTypes, Free, Accepted, WithState, WithRows, StateRecord
  <2>2. request.pc = "rows" => request.rows \in Seq(Row)
    BY DEF SpoolInv, RequestTypes, Free, Accepted, WithState, WithRows
  <2>3. request.pc \in {"state", "rows"} => StateFits(request.state, log', fleet)
    BY <2>1, <1>9 DEF SpoolInv, RequestFits
  <2>4. request.pc = "rows" => RowsAt(request.rows, log', request.start)
    BY <2>1, <2>2, <1>9 DEF SpoolInv, RequestFits
  <2> QED BY <2>3, <2>4, <1>2 DEF SpoolInv, RequestFits
<1>13. ViewFits'
  <2>1. view.cursor \in Nat /\ view.settled \in Seq(Row) /\ state.cursor \in Nat
    BY DEF SpoolInv, ViewTypes, ViewRecord, FileTypes, StateRecord
  <2>2. view.cursor \in 0 .. Len(log)
    BY <2>1, <1>9 DEF SpoolInv, ViewFits, Files, StateFits
  <2>3. Held(log', view.cursor) = Held(log, view.cursor)
    BY <2>2, <1>9
  <2>4. RowsAt(view.settled, log', 0)
    BY <2>1, <1>9 DEF SpoolInv, ViewFits
  <2> QED BY <2>3, <2>4, <1>2 DEF SpoolInv, ViewFits
<1> QED BY <1>6, <1>7, <1>8, <1>10, <1>11, <1>12, <1>13 DEF SpoolInv

-----------------------------------------------------------------------------
(* The steps of the worker. *)

\* What a worker that is not closed has.
LEMMA ChildFields ==
    ASSUME SpoolInv, child.pc # "closed"
    PROVE  /\ child \in ChildRecord /\ child.taken \in Nat /\ child.flush \in Nat
           /\ child.snap \in Snap /\ child.last \in Snap /\ child.out \in Seq(Byte)
           /\ child.snap.cursor \in Nat /\ child.last.cursor \in Nat
           /\ rows \in Seq(Byte) /\ log \in Seq(Row) /\ state \in StateRecord
           /\ state.cursor \in Nat /\ Len(rows) \in Nat /\ Len(log) \in Nat
           /\ fleet \in BOOLEAN
<1>1. child \in ChildRecord
  BY DEF SpoolInv, ChildTypes
<1>2. /\ child.taken \in Nat /\ child.flush \in Nat
      /\ child.snap \in Snap /\ child.last \in Snap /\ child.out \in Seq(Byte)
  BY <1>1 DEF ChildRecord
<1>3. child.snap.cursor \in Nat /\ child.last.cursor \in Nat
  BY <1>2 DEF Snap
<1>4. /\ rows \in Seq(Byte) /\ log \in Seq(Row) /\ state \in StateRecord
      /\ fleet \in BOOLEAN
  BY DEF SpoolInv, CollectorTypes, FileTypes
<1>5. state.cursor \in Nat
  BY <1>4 DEF StateRecord
<1> QED BY <1>1, <1>2, <1>3, <1>4, <1>5, LenProperties

LEMMA FlushKeepsInv ==
    ASSUME SpoolInv, Flush
    PROVE  SpoolInv'
<1> USE DEF collector, files, server
<1>1. PICK cancelled \in BOOLEAN : child' = TakeSnapshot(cancelled)
  BY DEF Flush
<1>2. child.pc = "running" /\ UNCHANGED <<collector, files, server, request, view>>
  BY DEF Flush
<1>3. /\ child \in ChildRecord /\ child.taken \in Nat /\ child.flush \in Nat
      /\ child.last \in Snap
      /\ rows \in Seq(Byte) /\ log \in Seq(Row) /\ Len(rows) \in Nat /\ Len(log) \in Nat
      /\ fleet \in BOOLEAN
  BY <1>2, ChildFields
<1>4. /\ child.taken <= Len(log) /\ Len(rows) = 2 * child.taken
  BY <1>2, <1>3 DEF SpoolInv, ChildFits, Completes
<1> DEFINE out == Lines(StintsSince(child.taken))
<1>5. out \in Seq(Byte) /\ Completes(out, rows, Len(log), log)
  BY <1>3, <1>4, FlushCompletes
<1> HIDE DEF out
<1>6. Snapshot \in Snap /\ Whole(Snapshot, log) /\ Snapshot.cursor = Len(log)
  <2>1. ToSet(log) = Held(log, Len(log)) /\ ToSet(log) \subseteq Row
    BY <1>3, LenProperties, ElementOfSeq DEF ToSet, Held
  <2>2. open \subseteq Row /\ IsFiniteSet(open)
    BY DEF SpoolInv, CollectorTypes
  <2>3. open \cap ToSet(log) = {}
    BY <2>1 DEF SpoolInv, Stints, Held
  <2>4. /\ Snapshot.cursor = Len(log) /\ Snapshot.open = open
        /\ Snapshot.begun = ToSet(log) \cup open
    BY DEF Snapshot
  <2>5. Snapshot \in Snap
    BY <2>1, <2>2, <1>3 DEF Snapshot, Snap
  <2>6. Whole(Snapshot, log)
    BY <2>1, <2>2, <2>3, <2>4, <1>3 DEF Whole
  <2> QED BY <2>4, <2>5, <2>6
<1>7. /\ child'.taken = Len(log) /\ child'.flush = child.flush + 1
      /\ child'.snap = Snapshot /\ child'.out = out /\ child'.last = child.last
      /\ child'.omitted = child.omitted
      /\ child'.pc = IF cancelled THEN "finishing"
                     ELSE IF fleet THEN "rows" ELSE "fleet"
  BY <1>1, <1>3 DEF TakeSnapshot, ChildRecord, out
<1>8. child' \in ChildRecord
  <2> DEFINE pc == IF cancelled THEN "finishing" ELSE IF fleet THEN "rows" ELSE "fleet"
             outcome == IF cancelled THEN "aborted" ELSE child.outcome
  <2>1. child' = [child EXCEPT !.taken = Len(log), !.flush = child.flush + 1,
                               !.snap = Snapshot, !.out = out, !.pc = pc,
                               !.outcome = outcome]
    BY <1>1 DEF TakeSnapshot, out
  <2>2. /\ pc \in {"finishing", "rows", "fleet"}
        /\ outcome \in {"failed", "done", "aborted"}
    BY <1>3 DEF ChildRecord
  <2>3. child.flush + 1 \in Nat
    BY <1>3
  <2> HIDE DEF pc, outcome
  <2> QED BY <2>1, <2>2, <2>3, <1>3, <1>5, <1>6 DEF ChildRecord
<1>9. child'.pc = "rows" => fleet
  BY <1>7
<1>10. child'.pc # "running" /\ child'.pc # "closed"
  BY <1>7
<1>11. Whole(child.last, log) /\ (child.omitted => fleet)
       /\ state.cursor <= child.last.cursor /\ child.last.cursor <= child.taken
  BY <1>2 DEF SpoolInv, ChildFits
<1>12. child.last.cursor \in Nat
  BY <1>3 DEF Snap
<1>13. child.last.cursor <= Len(log) /\ Len(log) <= Len(log)
  BY <1>3, <1>4, <1>11, <1>12
<1>14. ChildFits'
  BY <1>2, <1>5, <1>6, <1>7, <1>9, <1>10, <1>11, <1>13 DEF ChildFits
<1>15. FileTypes' /\ Files'
  BY <1>2 DEF SpoolInv, FileTypes, Files
<1>16. state.cursor <= state'.cursor /\ Len(rows) <= Len(rows') /\ (fleet => fleet')
  BY <1>2, <1>3, ChildFields
<1> QED BY <1>2, <1>8, <1>14, <1>15, <1>16, WorkerKeeps DEF ChildTypes

LEMMA WriteFleetKeepsInv ==
    ASSUME SpoolInv, WriteFleet
    PROVE  SpoolInv'
<1> USE DEF collector, server
<1>1. /\ child.pc = "fleet" /\ fleet' = TRUE
      /\ child' = [child EXCEPT !.pc = "rows"]
      /\ UNCHANGED <<collector, rows, state, server, request, view>>
  BY DEF WriteFleet
<1>2. child \in ChildRecord /\ state.cursor \in Nat /\ Len(rows) \in Nat
  BY <1>1, ChildFields
<1>3. /\ child'.taken = child.taken /\ child'.snap = child.snap
      /\ child'.out = child.out /\ child'.last = child.last
      /\ child'.omitted = child.omitted /\ child'.pc = "rows"
  BY <1>1, <1>2 DEF ChildRecord
<1>4. ChildTypes'
  BY <1>1, <1>2 DEF ChildTypes, ChildRecord
<1>5. ChildFits'
  BY <1>1, <1>3 DEF SpoolInv, ChildFits
<1>6. FileTypes' /\ Files'
  BY <1>1 DEF SpoolInv, FileTypes, Files, StateFits
<1>7. state.cursor <= state'.cursor /\ Len(rows) <= Len(rows') /\ (fleet => fleet')
  BY <1>1, <1>2
<1> QED BY <1>1, <1>4, <1>5, <1>6, <1>7, WorkerKeeps

LEMMA AppendRowsKeepsInv ==
    ASSUME SpoolInv, AppendRows
    PROVE  SpoolInv'
<1> USE DEF collector, server
<1>1. PICK n \in 1 .. Len(child.out) :
        /\ rows' = rows \o SubSeq(child.out, 1, n)
        /\ child' = [child EXCEPT !.out = SubSeq(@, n + 1, Len(@))]
  BY DEF AppendRows
<1>2. /\ child.pc = "rows"
      /\ UNCHANGED <<collector, state, fleet, server, request, view>>
  BY DEF AppendRows
<1>3. /\ child \in ChildRecord /\ child.taken \in Nat /\ child.out \in Seq(Byte)
      /\ rows \in Seq(Byte) /\ log \in Seq(Row) /\ Len(rows) \in Nat
      /\ Len(log) \in Nat /\ state.cursor \in Nat /\ fleet
  BY <1>2, ChildFields DEF SpoolInv, ChildFits
<1>4. /\ child.taken \in 0 .. Len(log) /\ Spooled(rows, log)
      /\ Completes(child.out, rows, child.taken, log)
  BY <1>2, <1>3 DEF SpoolInv, ChildFits, Files
<1> DEFINE rest == SubSeq(child.out, n + 1, Len(child.out))
<1>5. /\ rows' \in Seq(Byte) /\ Len(rows') = Len(rows) + n /\ Spooled(rows', log)
      /\ rest \in Seq(Byte) /\ Completes(rest, rows', child.taken, log)
  BY <1>1, <1>3, <1>4, AppendCompletes
<1>6. child' = [child EXCEPT !.out = rest]
  BY <1>1
<1> HIDE DEF rest
<1>7. /\ child'.taken = child.taken /\ child'.snap = child.snap
      /\ child'.out = rest /\ child'.last = child.last
      /\ child'.omitted = child.omitted /\ child'.pc = "rows"
  BY <1>2, <1>3, <1>6 DEF ChildRecord
<1>8. ChildTypes'
  BY <1>3, <1>5, <1>6 DEF ChildTypes, ChildRecord
<1>9. ChildFits'
  BY <1>2, <1>5, <1>7 DEF SpoolInv, ChildFits
<1>10. FileTypes' /\ Files'
  BY <1>2, <1>3, <1>5 DEF SpoolInv, FileTypes, Files
<1>11. state.cursor <= state'.cursor /\ Len(rows) <= Len(rows') /\ (fleet => fleet')
  BY <1>2, <1>3, <1>5
<1> QED BY <1>2, <1>8, <1>9, <1>10, <1>11, WorkerKeeps

\* The child after the state was counted, in the end of a flush.
LEMMA CountedFits ==
    ASSUME SpoolInv, child.pc = "rows", child.out = << >>, NEW watched \in BOOLEAN,
           UNCHANGED <<log, rows, fleet>>,
           NEW pc \in {"running", "finishing"},
           NEW outcome \in {"failed", "done", "aborted"},
           child' = [Counted(watched) EXCEPT !.pc = pc, !.outcome = outcome],
           state'.cursor <= child.snap.cursor
    PROVE  ChildTypes' /\ ChildFits'
<1>1. /\ child \in ChildRecord /\ child.snap \in Snap /\ child.out \in Seq(Byte)
      /\ child.taken \in Nat /\ fleet
  BY ChildFields DEF SpoolInv, ChildFits
<1>2. /\ child'.taken = child.taken /\ child'.out = << >> /\ child'.last = child.snap
      /\ child'.pc = pc
  BY <1>1 DEF ChildRecord, Counted
<1>3. child' \in ChildRecord
  BY <1>1 DEF ChildRecord, Counted
<1>4. /\ Whole(child.snap, log) /\ child.snap.cursor = child.taken
      /\ child.taken <= Len(log) /\ Completes(child.out, rows, child.taken, log)
  BY DEF SpoolInv, ChildFits
<1>5. Len(<< >>) = 0 /\ child.taken <= child.taken
  BY <1>1, EmptySeq
<1>6. ChildFits'
  BY <1>1, <1>2, <1>4, <1>5 DEF ChildFits
<1> QED BY <1>3, <1>6 DEF ChildTypes

LEMMA WriteStateKeepsInv ==
    ASSUME SpoolInv, NEW watched \in BOOLEAN,
           WriteState(watched) \/ StateWriteFails(watched)
    PROVE  SpoolInv'
<1> USE DEF collector, files, server
<1>1. /\ child.pc = "rows" /\ child.out = << >>
      /\ UNCHANGED <<collector, rows, fleet, server, request, view>>
  BY DEF WriteState, StateWriteFails
<1>2. /\ child \in ChildRecord /\ child.snap \in Snap /\ child.snap.cursor \in Nat
      /\ child.last.cursor \in Nat /\ child.taken \in Nat
      /\ state.cursor \in Nat /\ Len(rows) \in Nat /\ fleet
      /\ child.outcome \in {"failed", "done", "aborted"}
  BY <1>1, ChildFields DEF SpoolInv, ChildFits, ChildRecord
<1>3. /\ Whole(child.snap, log) /\ state.cursor <= child.snap.cursor
  <2>1. /\ Whole(child.snap, log) /\ child.snap.cursor = child.taken
        /\ state.cursor <= child.last.cursor /\ child.last.cursor <= child.taken
    BY <1>1 DEF SpoolInv, ChildFits
  <2> QED BY <2>1, <1>2
<1>4. state' = StateFile(child.snap, watched) \/ state' = state
  BY DEF WriteState, StateWriteFails
<1>5. /\ StateFile(child.snap, watched) \in StateRecord
      /\ StateFile(child.snap, watched).cursor = child.snap.cursor
      /\ StateFits(StateFile(child.snap, watched), log, fleet)
  BY <1>2, <1>3, StateFileFits
<1>6. /\ state' \in StateRecord /\ StateFits(state', log, fleet)
      /\ state.cursor <= state'.cursor /\ state'.cursor <= child.snap.cursor
  <2>1. CASE state' = StateFile(child.snap, watched)
    <3>1. state' \in StateRecord /\ StateFits(state', log, fleet)
          /\ state'.cursor = child.snap.cursor
      BY <2>1, <1>5
    <3> QED BY <3>1, <1>2, <1>3
  <2>2. CASE state' = state
    <3>1. state \in StateRecord /\ StateFits(state, log, fleet)
      BY DEF SpoolInv, FileTypes, Files
    <3> QED BY <2>2, <3>1, <1>2, <1>3
  <2> QED BY <2>1, <2>2, <1>4
<1>7. \E pc \in {"running", "finishing"}, outcome \in {"failed", "done", "aborted"} :
        child' = [Counted(watched) EXCEPT !.pc = pc, !.outcome = outcome]
  <2>1. CASE WriteState(watched)
    <3>1. Counted(watched).outcome = child.outcome
      BY <1>2 DEF Counted, ChildRecord
    <3> QED BY <2>1, <3>1, <1>2 DEF WriteState
  <2>2. CASE StateWriteFails(watched)
    BY <2>2 DEF StateWriteFails
  <2> QED BY <2>1, <2>2
<1>8. ChildTypes' /\ ChildFits'
  BY <1>1, <1>6, <1>7, CountedFits
<1>9. FileTypes' /\ Files'
  BY <1>1, <1>2, <1>6 DEF SpoolInv, FileTypes, Files
<1>10. Len(rows) <= Len(rows') /\ (fleet => fleet')
  BY <1>1, <1>2
<1> QED BY <1>1, <1>6, <1>8, <1>9, <1>10, WorkerKeeps

\* The end of the worker: what it has published stays.
LEMMA RaiseKeepsInv ==
    ASSUME SpoolInv, Raise \/ Kill
    PROVE  SpoolInv'
<1> USE DEF collector, files, server
<1>1. /\ child.pc # "closed"
      /\ UNCHANGED <<collector, files, server, request, view>>
  BY DEF Raise, Kill
<1>2. child \in ChildRecord /\ state.cursor \in Nat /\ Len(rows) \in Nat
  BY <1>1, ChildFields
<1>3. ChildTypes' /\ ChildFits'
  <2>1. CASE Raise
    <3>1. /\ child'.taken = child.taken /\ child'.last = child.last
          /\ child'.omitted = child.omitted /\ child'.pc = "finishing"
      BY <2>1, <1>2 DEF Raise, ChildRecord
    <3>2. ChildTypes'
      BY <2>1, <1>2 DEF Raise, ChildTypes, ChildRecord
    <3>3. ChildFits'
      BY <3>1, <1>1 DEF SpoolInv, ChildFits
    <3> QED BY <3>2, <3>3
  <2>2. CASE Kill
    BY <2>2 DEF Kill, Closed, ChildTypes, ChildFits
  <2> QED BY <2>1, <2>2
<1>4. FileTypes' /\ Files'
  BY <1>1 DEF SpoolInv, FileTypes, Files
<1>5. state.cursor <= state'.cursor /\ Len(rows) <= Len(rows') /\ (fleet => fleet')
  BY <1>1, <1>2
<1> QED BY <1>1, <1>3, <1>4, <1>5, WorkerKeeps

LEMMA FinishKeepsInv ==
    ASSUME SpoolInv, Finish
    PROVE  SpoolInv'
<1> USE DEF collector, server
<1>1. /\ child.pc = "finishing" /\ state' = Republished
      /\ child' = Closed(child.outcome)
      /\ UNCHANGED <<collector, rows, fleet, server, request, view>>
  BY DEF Finish
<1>2. /\ child \in ChildRecord /\ child.last \in Snap /\ child.last.cursor \in Nat
      /\ state.cursor \in Nat /\ Len(rows) \in Nat /\ state \in StateRecord
  BY <1>1, ChildFields
<1>3. /\ Whole(child.last, log) /\ (child.omitted => fleet)
      /\ state.cursor <= child.last.cursor
  BY <1>1 DEF SpoolInv, ChildFits
<1>4. /\ state' \in StateRecord /\ StateFits(state', log, fleet)
      /\ state.cursor <= state'.cursor
  <2>1. CASE child.omitted
    <3>1. /\ StateFile(child.last, TRUE) \in StateRecord
          /\ StateFile(child.last, TRUE).cursor = child.last.cursor
          /\ StateFits(StateFile(child.last, TRUE), log, fleet)
      BY <2>1, <1>2, <1>3, StateFileFits
    <3> QED BY <2>1, <3>1, <1>1, <1>3 DEF Republished
  <2>2. CASE ~ child.omitted
    BY <2>2, <1>1, <1>2 DEF Republished, SpoolInv, Files
  <2> QED BY <2>1, <2>2
<1>5. ChildTypes' /\ ChildFits'
  BY <1>1 DEF Closed, ChildTypes, ChildFits
<1>6. FileTypes' /\ Files'
  BY <1>1, <1>4 DEF SpoolInv, FileTypes, Files
<1>7. Len(rows) <= Len(rows') /\ (fleet => fleet')
  BY <1>1, <1>2
<1> QED BY <1>1, <1>4, <1>5, <1>6, <1>7, WorkerKeeps

-----------------------------------------------------------------------------
(* The steps of the server. *)

\* The memo stays one if it moves to one.
LEMMA ForwardFits ==
    ASSUME MemoFits(memo, rows), memo \in Nat \X Nat,
           NEW m \in Nat \X Nat, MemoFits(m, rows)
    PROVE  MemoFits(Forward(m), rows) /\ Forward(m) \in Nat \X Nat
<1>1. CASE m[1] > memo[1] BY <1>1 DEF Forward
<1>2. CASE ~ (m[1] > memo[1]) BY <1>2 DEF Forward
<1> QED BY <1>1, <1>2

LEMMA ServerKeepsInv ==
    ASSUME SpoolInv, Finalize \/ Forget \/ \E cursor \in StrayCursors : OtherReader(cursor)
    PROVE  SpoolInv'
<1> USE DEF collector, files
<1>1. UNCHANGED <<collector, child, files, request, view>>
  BY DEF Finalize, Forget, OtherReader
<1>2. /\ rows \in Seq(Byte) /\ log \in Seq(Row) /\ Spooled(rows, log)
      /\ memo \in Nat \X Nat /\ MemoFits(memo, rows) /\ status \in Status
      /\ state.cursor \in Nat
  BY DEF SpoolInv, CollectorTypes, FileTypes, ServerTypes, Files, StateRecord
<1>3. memo' \in Nat \X Nat /\ MemoFits(memo', rows) /\ status' \in Status
  <2>1. CASE Finalize
    BY <2>1, <1>2 DEF Finalize, Status
  <2>2. CASE Forget
    <3>1. memo' = <<0, 0>> /\ status' = status BY <2>2 DEF Forget
    <3>2. Len(rows) \in Nat BY <1>2, LenProperties
    <3> QED BY <3>1, <3>2, <1>2 DEF MemoFits
  <2>3. ASSUME NEW cursor \in StrayCursors, OtherReader(cursor)
        PROVE  memo' \in Nat \X Nat /\ MemoFits(memo', rows) /\ status' \in Status
    <3> DEFINE r == [start |-> cursor, state |-> state]
               m == RowsRead(r).memo
    <3>1. r.start \in Nat /\ r.state.cursor \in Nat
      BY <1>2, LiveAssumption DEF LiveAssumption
    <3> HIDE DEF r
    <3>2. m \in Nat \X Nat /\ MemoFits(m, rows)
      BY <3>1, <1>2, RowsReadFit
    <3>3. memo' = Forward(m) /\ status' = status
      BY <2>3 DEF OtherReader, r
    <3> HIDE DEF m
    <3> QED BY <3>2, <3>3, <1>2, ForwardFits
  <2> QED BY <2>1, <2>2, <2>3
<1>4. ServerTypes' /\ MemoFits(memo, rows)'
  BY <1>1, <1>3 DEF ServerTypes
<1>5. RequestTypes' /\ ViewTypes' /\ RequestFits' /\ ViewFits'
  BY <1>1 DEF SpoolInv, RequestTypes, ViewTypes, RequestFits, ViewFits
<1> QED BY <1>1, <1>4, <1>5, ReaderKeeps

-----------------------------------------------------------------------------
(* The steps of a request. *)

LEMMA PollKeepsInv ==
    ASSUME SpoolInv, Poll
    PROVE  SpoolInv'
<1> USE DEF collector, files, server
<1>1. /\ UNCHANGED <<collector, child, files, server, view>>
      /\ request' = [pc |-> "accepted", start |-> view.cursor, status |-> status]
  BY DEF Poll
<1>2. RequestTypes'
  BY <1>1 DEF SpoolInv, RequestTypes, Accepted, ServerTypes, ViewTypes, ViewRecord
<1>3. RequestFits'
  BY <1>1 DEF RequestFits
<1>4. ServerTypes' /\ ViewTypes' /\ ViewFits' /\ MemoFits(memo, rows)'
  BY <1>1 DEF SpoolInv, ServerTypes, ViewTypes, ViewFits
<1> QED BY <1>1, <1>2, <1>3, <1>4, ReaderKeeps

LEMMA ReadStateKeepsInv ==
    ASSUME SpoolInv, ReadState
    PROVE  SpoolInv'
<1> USE DEF collector, files, server
<1>1. /\ request.pc = "accepted"
      /\ UNCHANGED <<collector, child, files, server, view>>
      /\ request' = [pc |-> "state", start |-> request.start,
                     status |-> request.status, state |-> state]
  BY DEF ReadState
<1>2. request.start \in Nat /\ request.status \in Status
  BY <1>1 DEF SpoolInv, RequestTypes, Free, Accepted, WithState, WithRows
<1>3. RequestTypes'
  BY <1>1, <1>2 DEF SpoolInv, RequestTypes, WithState, FileTypes
<1>4. RequestFits'
  <2>1. state.cursor \in Nat BY DEF SpoolInv, FileTypes, StateRecord
  <2> QED BY <2>1, <1>1 DEF SpoolInv, RequestFits, Files, ViewFits
<1>5. ServerTypes' /\ ViewTypes' /\ ViewFits' /\ MemoFits(memo, rows)'
  BY <1>1 DEF SpoolInv, ServerTypes, ViewTypes, ViewFits
<1> QED BY <1>1, <1>3, <1>4, <1>5, ReaderKeeps

LEMMA ReadRowsKeepsInv ==
    ASSUME SpoolInv, ReadRows
    PROVE  SpoolInv'
<1> USE DEF collector, files, server
<1> DEFINE read == RowsRead(request)
<1>1. /\ request.pc = "state"
      /\ UNCHANGED <<collector, child, files, server, view>>
      /\ request' = [pc |-> "rows", start |-> request.start,
                     status |-> request.status, state |-> request.state,
                     rows |-> read.rows, memo |-> read.memo]
  BY DEF ReadRows
<1>2. /\ request.start \in Nat /\ request.status \in Status
      /\ request.state \in StateRecord
  BY <1>1 DEF SpoolInv, RequestTypes, Free, Accepted, WithState, WithRows
<1>3. request.state.cursor \in Nat
  BY <1>2 DEF StateRecord
<1>4. /\ rows \in Seq(Byte) /\ log \in Seq(Row) /\ Spooled(rows, log)
      /\ memo \in Nat \X Nat /\ MemoFits(memo, rows) /\ Len(log) \in Nat
      /\ Len(rows) > 0 => fleet
  BY LenProperties DEF SpoolInv, CollectorTypes, FileTypes, ServerTypes, Files
<1>5. /\ read.rows \in Seq(Row)
      /\ read.memo \in Nat \X Nat /\ MemoFits(read.memo, rows)
      /\ Len(read.rows) > 0 =>
           /\ RowsAt(read.rows, log, request.start) /\ Len(rows) > 0
           /\ request.start + Len(read.rows) <= request.state.cursor
  BY <1>2, <1>3, <1>4, RowsReadFit
<1> HIDE DEF read
<1>6. /\ StateFits(request.state, log, fleet)
      /\ request.start <= request.state.cursor /\ request.start = view.cursor
      /\ request.state.cursor <= Len(log) /\ request.state.cursor <= state.cursor
  BY <1>1 DEF SpoolInv, RequestFits, StateFits
<1>7. /\ RowsAt(read.rows, log, request.start)
      /\ request.start + Len(read.rows) <= request.state.cursor
      /\ Len(read.rows) > 0 => fleet
  <2>1. Len(read.rows) \in Nat
    BY <1>5, LenProperties
  <2>2. CASE Len(read.rows) > 0
    BY <2>2, <1>4, <1>5
  <2>3. CASE Len(read.rows) = 0
    BY <2>3, <1>2, <1>3, <1>4, <1>6 DEF RowsAt
  <2> QED BY <2>1, <2>2, <2>3
<1>8. RequestTypes'
  BY <1>1, <1>2, <1>5 DEF RequestTypes, WithRows
<1>9. /\ request'.pc = "rows" /\ request'.start = request.start
      /\ request'.state = request.state /\ request'.rows = read.rows
      /\ request'.memo = read.memo
  BY <1>1
<1>10. RequestFits'
  BY <1>1, <1>5, <1>6, <1>7, <1>9 DEF RequestFits
<1>11. ServerTypes' /\ ViewTypes' /\ ViewFits' /\ MemoFits(memo, rows)'
  BY <1>1 DEF SpoolInv, ServerTypes, ViewTypes, ViewFits
<1> QED BY <1>1, <1>8, <1>10, <1>11, ReaderKeeps

\* What an answered request leaves: no request, and a memo.
LEMMA AnsweredFits ==
    ASSUME SpoolInv, request.pc = "rows", memo' = Forward(request.memo),
           request' = Free, UNCHANGED <<rows, status>>
    PROVE  ServerTypes' /\ RequestTypes' /\ MemoFits(memo, rows)' /\ RequestFits'
<1>1. request.memo \in Nat \X Nat /\ MemoFits(request.memo, rows)
  BY DEF SpoolInv, RequestTypes, RequestFits, Free, Accepted, WithState, WithRows
<1>2. memo \in Nat \X Nat /\ MemoFits(memo, rows) /\ status \in Status
  BY DEF SpoolInv, ServerTypes
<1>3. MemoFits(memo', rows) /\ memo' \in Nat \X Nat
  BY <1>1, <1>2, ForwardFits
<1>4. ServerTypes' /\ MemoFits(memo, rows)'
  BY <1>2, <1>3 DEF ServerTypes
<1>5. RequestTypes' /\ RequestFits'
  BY DEF RequestTypes, RequestFits, Free
<1> QED BY <1>4, <1>5

LEMMA LoseAnswerKeepsInv ==
    ASSUME SpoolInv, LoseAnswer
    PROVE  SpoolInv'
<1> USE DEF collector, files
<1>1. /\ request.pc = "rows" /\ memo' = Forward(request.memo) /\ request' = Free
      /\ UNCHANGED <<collector, child, files, status, view>>
  BY DEF LoseAnswer
<1>2. ServerTypes' /\ RequestTypes' /\ MemoFits(memo, rows)' /\ RequestFits'
  BY <1>1, AnsweredFits
<1>3. ViewTypes' /\ ViewFits'
  BY <1>1 DEF SpoolInv, ViewTypes, ViewFits
<1> QED BY <1>1, <1>2, <1>3, ReaderKeeps

LEMMA AnswerKeepsInv ==
    ASSUME SpoolInv, Answer
    PROVE  SpoolInv'
<1> USE DEF collector, files
<1> DEFINE p == Payload(request)
           known == view.fleet \/ p.fleet
           st == request.state
           got == request.rows
<1>1. /\ request.pc = "rows" /\ memo' = Forward(request.memo) /\ request' = Free
      /\ view' = Received(p)
      /\ UNCHANGED <<collector, child, files, status>>
  BY DEF Answer
<1>2. /\ request.start \in Nat /\ request.status \in Status
      /\ st \in StateRecord /\ got \in Seq(Row)
  BY <1>1 DEF SpoolInv, RequestTypes, Free, Accepted, WithState, WithRows
<1>3. /\ st.cursor \in Nat /\ st.open \subseteq Row /\ st.begun \subseteq Row
      /\ st.omitted \in BOOLEAN /\ st.truncated \in BOOLEAN
      /\ Len(got) \in Nat
  BY <1>2, LenProperties DEF StateRecord
<1>4. /\ view \in ViewRecord /\ view.cursor \in Nat /\ view.settled \in Seq(Row)
      /\ view.fleet \in BOOLEAN /\ fleet \in BOOLEAN /\ log \in Seq(Row)
      /\ Len(log) \in Nat /\ state.cursor \in Nat
  BY LenProperties DEF SpoolInv, ViewTypes, ViewRecord, FileTypes, CollectorTypes,
     StateRecord
<1>5. /\ request.start = view.cursor /\ StateFits(st, log, fleet)
      /\ request.start <= st.cursor /\ st.cursor <= state.cursor
      /\ RowsAt(got, log, request.start)
      /\ request.start + Len(got) <= st.cursor /\ (Len(got) > 0 => fleet)
  BY <1>1 DEF SpoolInv, RequestFits
<1>6. /\ view.cursor <= state.cursor /\ (view.cursor > 0 => view.fleet)
      /\ Len(view.settled) = view.cursor /\ RowsAt(view.settled, log, 0)
  BY DEF SpoolInv, ViewFits
<1>7. p.cursor = view.cursor + Len(got)
  <2>1. Min({request.start, st.cursor}) = request.start
    BY <1>2, <1>3, <1>5, MinOfTwo
  <2> QED BY <2>1, <1>5 DEF Payload
<1>8. /\ p.rows = got /\ p.open = st.open /\ p.truncated = st.truncated
      /\ p.begun = st.begun /\ p.status = request.status
      /\ p.more = (p.cursor < st.cursor)
      /\ p.overlay = (~ (p.cursor < st.cursor) /\ ~ st.omitted)
      /\ p.fleet = (fleet /\ request.start = 0)
  BY DEF Payload
<1> HIDE DEF p
<1>9. /\ view'.cursor = p.cursor /\ view'.begun = p.begun
      /\ view'.truncated = p.truncated /\ view'.fresh = p.overlay
      /\ view'.fleet = known
      /\ view'.settled = IF known THEN view.settled \o got ELSE view.settled
      /\ view'.open = IF p.overlay /\ known THEN p.open
                      ELSE IF p.overlay THEN {} ELSE view.open
  BY <1>1, <1>4, <1>8 DEF Received, ViewRecord
<1>10. known \in BOOLEAN /\ p.overlay \in BOOLEAN
  BY <1>4, <1>8
\* Rows come only to a browser that knows the fleet, or is told with them.
<1>11. /\ Len(got) > 0 => known
       /\ view.cursor > 0 => known
       /\ ~ known => view.cursor = 0 /\ ~ fleet /\ Len(got) = 0
  <2>1. view.cursor > 0 => known
    BY <1>6
  <2>2. view.cursor = 0 /\ fleet => known
    BY <1>5, <1>8
  <2> HIDE DEF known
  <2> QED BY <2>1, <2>2, <1>3, <1>4, <1>5
<1> HIDE DEF known
<1>12. /\ view'.settled \in Seq(Row) /\ Len(view'.settled) = view.cursor + Len(got)
       /\ RowsAt(view'.settled, log, 0)
  <2>1. CASE ~ known
    BY <2>1, <1>4, <1>6, <1>9, <1>11
  <2>2. CASE known
    <3> DEFINE all == view.settled \o got
    <3>1. view'.settled = all BY <2>2, <1>9
    <3>2. /\ all \in Seq(Row) /\ Len(all) = view.cursor + Len(got)
          /\ \A i \in 1 .. view.cursor + Len(got) :
               all[i] = IF i <= view.cursor THEN view.settled[i] ELSE got[i - view.cursor]
      <4>1. view.settled \in Seq(Row) /\ got \in Seq(Row)
            /\ Len(view.settled) = view.cursor
        BY <1>2, <1>4, <1>6
      <4> HIDE DEF got
      <4> QED BY <4>1, ConcatProperties
    <3> HIDE DEF all
    <3>3. ASSUME NEW i \in 1 .. Len(all) PROVE all[i] = log[0 + i]
      <4>1. CASE i <= view.cursor
        BY <4>1, <3>2, <1>3, <1>4, <1>6 DEF RowsAt
      <4>2. CASE ~ (i <= view.cursor)
        <5>1. i - view.cursor \in 1 .. Len(got) /\ view.cursor + (i - view.cursor) = i
              /\ 0 + i = i
          BY <4>2, <3>2, <1>3, <1>4
        <5>2. got[i - view.cursor] = log[i]
          BY <5>1, <1>5 DEF RowsAt
        <5> QED BY <4>2, <5>1, <5>2, <3>2
      <4> QED BY <4>1, <4>2
    <3>4. 0 + Len(all) <= Len(log)
      BY <3>2, <1>3, <1>4, <1>5 DEF RowsAt
    <3> QED BY <3>1, <3>2, <3>3, <3>4 DEF RowsAt
  <2> QED BY <2>1, <2>2
<1>13. view'.cursor = view.cursor + Len(got) /\ view'.cursor \in Nat
       /\ view'.cursor <= st.cursor /\ view'.cursor <= state.cursor
  BY <1>3, <1>4, <1>5, <1>7, <1>9
<1>14. view'.cursor > 0 => view'.fleet
  <2>1. view'.cursor > 0 => known
    BY <1>3, <1>4, <1>11, <1>13
  <2> QED BY <2>1, <1>9
<1>15. ASSUME view'.fresh
       PROVE  /\ view'.open \cap Held(log, view'.cursor) = {}
              /\ ~ view'.truncated =>
                   view'.open \cup Held(log, view'.cursor) = view'.begun
  <2>1. p.overlay /\ ~ (p.cursor < st.cursor) /\ ~ st.omitted
    BY <1>8, <1>9, <1>15
  <2>2. view'.cursor = st.cursor
    BY <2>1, <1>3, <1>9, <1>13
  <2>3. /\ st.open \cap Held(log, st.cursor) = {}
        /\ ~ st.truncated => st.open \cup Held(log, st.cursor) = st.begun
        /\ st.begun # {} => fleet
    BY <2>1, <1>5 DEF StateFits
  <2>4. view'.truncated = st.truncated /\ view'.begun = st.begun
    BY <1>8, <1>9
  <2>5. CASE known
    <3>1. view'.open = st.open
      BY <2>1, <2>5, <1>8, <1>9
    <3> QED BY <3>1, <2>2, <2>3, <2>4
  <2>6. CASE ~ known
    <3>1. view'.open = {} /\ view'.cursor = 0 /\ st.begun = {}
      BY <2>1, <2>3, <2>6, <1>4, <1>9, <1>11, <1>13
    <3>2. Held(log, 0) = {}
      BY DEF Held
    <3> QED BY <3>1, <3>2, <2>4
  <2> QED BY <2>5, <2>6
<1>16. ViewFits'
  BY <1>1, <1>12, <1>13, <1>14, <1>15 DEF ViewFits
<1>17. ViewTypes'
  <2> DEFINE ended == p.status # "running" /\ (p.more => p.cursor <= view.cursor)
             newOpen == IF p.overlay /\ known THEN p.open
                        ELSE IF p.overlay THEN {} ELSE view.open
             newSettled == IF known THEN view.settled \o got ELSE view.settled
  <2>1. view' = [view EXCEPT !.fleet = known, !.settled = newSettled,
                             !.cursor = p.cursor, !.open = newOpen,
                             !.fresh = p.overlay, !.truncated = p.truncated,
                             !.begun = p.begun, !.ended = ended]
    BY <1>1, <1>8 DEF Received, known
  <2>2. ended \in BOOLEAN
    OBVIOUS
  <2>3. newOpen \subseteq Row
    <3>1. view.open \subseteq Row BY <1>4 DEF ViewRecord
    <3> QED BY <3>1, <1>3, <1>8
  <2>4. newSettled \in Seq(Row)
    BY <1>9, <1>12
  <2>5. p.cursor \in Nat /\ p.begun \subseteq Row /\ p.truncated \in BOOLEAN
    BY <1>3, <1>8, <1>9, <1>13
  <2> HIDE DEF ended, newOpen, newSettled
  <2> QED BY <2>1, <2>2, <2>3, <2>4, <2>5, <1>4, <1>10 DEF ViewTypes, ViewRecord
<1>18. ServerTypes' /\ RequestTypes' /\ MemoFits(memo, rows)' /\ RequestFits'
  BY <1>1, AnsweredFits
<1> QED BY <1>1, <1>16, <1>17, <1>18, ReaderKeeps

-----------------------------------------------------------------------------
(* The invariant, and the cursor contract. *)

LEMMA NextKeepsInv == SpoolInv /\ [Next]_vars => SpoolInv'
<1> SUFFICES ASSUME SpoolInv, [Next]_vars PROVE SpoolInv' OBVIOUS
<1>1. CASE \E j \in Job : JobStarted(j) \/ SettleStint(j)
  BY <1>1, JobStartedKeepsInv, SettleStintKeepsInv
<1>2. CASE Worker
  BY <1>2, FlushKeepsInv, WriteFleetKeepsInv, AppendRowsKeepsInv, FinishKeepsInv,
     WriteStateKeepsInv DEF Worker
<1>3. CASE Fails
  BY <1>3, RaiseKeepsInv, WriteStateKeepsInv DEF Fails
<1>4. CASE Finalize \/ Forget \/ \E cursor \in StrayCursors : OtherReader(cursor)
  BY <1>4, ServerKeepsInv
<1>5. CASE Browser
  BY <1>5, PollKeepsInv, ReadStateKeepsInv, ReadRowsKeepsInv, AnswerKeepsInv
     DEF Browser
<1>6. CASE LoseAnswer
  BY <1>6, LoseAnswerKeepsInv
<1>7. CASE UNCHANGED vars
  BY <1>7 DEF vars, SpoolInv, CollectorTypes, FileTypes, ServerTypes, ChildTypes,
     RequestTypes, ViewTypes, Stints, Files, ChildFits, RequestFits, ViewFits
<1> QED BY <1>1, <1>2, <1>3, <1>4, <1>5, <1>6, <1>7 DEF Next

\* Whatever threads serve other cursors, the memo forgets, the worker appends
\* meanwhile, dies, or answers get lost: the browser holds the settled rows up
\* to its cursor, each once and in order, and an overlay that comes with an
\* answer names, with them, every row that had begun by its flush and none
\* twice (_LiveSpool, live_payload, LiveFeed).
THEOREM CursorContract == Spec => []SnapshotExact
<1>1. SpoolInv => SnapshotExact
  <2> SUFFICES ASSUME SpoolInv PROVE SnapshotExact OBVIOUS
  <2>1. /\ view.cursor \in Nat /\ view.settled \in Seq(Row) /\ log \in Seq(Row)
        /\ Len(log) \in Nat /\ state.cursor \in Nat
    BY LenProperties DEF SpoolInv, ViewTypes, ViewRecord, CollectorTypes, FileTypes,
       StateRecord
  <2>2. view.cursor <= Len(log)
    BY <2>1 DEF SpoolInv, ViewFits, Files, StateFits
  <2> DEFINE s == SubSeq(log, 1, view.cursor)
  <2>3. s \in Seq(Row) /\ Len(s) = view.cursor
        /\ \A i \in 1 .. view.cursor : s[i] = log[i]
    <3>1. 1 \in Int /\ view.cursor \in Int /\ \A i \in 1 .. view.cursor : log[i] \in Row
      BY <2>1, <2>2, ElementOfSeq
    <3>2. /\ SubSeq(log, 1, view.cursor) \in Seq(Row)
          /\ Len(SubSeq(log, 1, view.cursor)) =
               IF 1 <= view.cursor THEN view.cursor - 1 + 1 ELSE 0
          /\ \A i \in 1 .. view.cursor - 1 + 1 :
               SubSeq(log, 1, view.cursor)[i] = log[1 + i - 1]
      BY <3>1, SubSeqProperties
    <3>3. \A i \in 1 .. view.cursor : i \in 1 .. view.cursor - 1 + 1 /\ 1 + i - 1 = i
      BY <2>1
    <3> QED BY <3>2, <3>3, <2>1
  <2> HIDE DEF s
  <2>4. Len(view.settled) = view.cursor
        /\ \A i \in 1 .. view.cursor : view.settled[i] = log[i]
    <3>1. \A i \in 1 .. view.cursor : 0 + i = i OBVIOUS
    <3> QED BY <3>1 DEF SpoolInv, ViewFits, RowsAt
  <2>5. view.settled = s
    BY <2>1, <2>3, <2>4, SeqEqual
  <2>6. ToSet(view.settled) = Held(log, view.cursor)
    BY <2>1, <2>4, LenProperties DEF ToSet, Held
  <2>7. view.fresh =>
          /\ ToSet(view.settled) \cap view.open = {}
          /\ ~ view.truncated => ToSet(view.settled) \cup view.open = view.begun
    BY <2>6 DEF SpoolInv, ViewFits
  <2> QED BY <2>5, <2>7 DEF SnapshotExact, s
<1> QED BY <1>1, InitEstablishesInv, NextKeepsInv, PTL DEF Spec
=============================================================================
