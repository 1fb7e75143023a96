------------------------ MODULE CooperativeRunProofs ------------------------
(***************************************************************************)
(* Theorems about a cooperative session, for every number of tasks, every  *)
(* limit and quantum, and every mode it may be started in.                 *)
(*                                                                         *)
(* The first part is about the event lists: what a batch of events of one  *)
(* task does to the sequence numbers and to the nesting of every task's    *)
(* events.  The second states the inductive invariant and the effect of an *)
(* iteration of a slice; the third what the scheduler's operations leave   *)
(* as it is; the last are the theorems.                                    *)
(***************************************************************************)
EXTENDS CooperativeRun, SchedulerOpsProofs

LogType == [output : Nat, bytes : Nat, next : Nat, chunks : Seq(Event),
            trace : Seq(TraceEvent)]

\* The numbers given out are below next, increase in both lists, and the lists
\* share a number only for an output and its trace record.
Sequenced(e) ==
  /\ \A i \in 1..Len(e.trace) : e.trace[i].sequence < e.next
  /\ \A j \in 1..Len(e.chunks) : e.chunks[j].sequence < e.next
  /\ \A i, j \in 1..Len(e.trace) :
       i < j => e.trace[i].sequence < e.trace[j].sequence
  /\ \A i, j \in 1..Len(e.chunks) :
       i < j => e.chunks[i].sequence < e.chunks[j].sequence
  /\ \A i \in 1..Len(e.trace), j \in 1..Len(e.chunks) :
       e.trace[i].sequence = e.chunks[j].sequence =>
         e.trace[i].kind = "Output" /\ e.trace[i].task = e.chunks[j].task

\* The i-th event is the last one of its task before the j-th.
LastBefore(tr, i, j) == \A k \in (i + 1)..(j - 1) : tr[k].task # tr[i].task

Nested(tr) ==
  \A i, j \in 1..Len(tr) :
    i < j /\ tr[i].task = tr[j].task /\ LastBefore(tr, i, j) =>
      tr[j].depth = DepthAfter(tr[i]) + (IF tr[j].kind = "Enter" THEN 1 ELSE 0)

\* The last event of t, if there is one, left the trace stack at depth n.
LeftAt(tr, t, n) ==
  \A i \in 1..Len(tr) :
    tr[i].task = t /\ LastBefore(tr, i, Len(tr) + 1) => DepthAfter(tr[i]) = n

Told(tr, t, n) == Nested(tr) /\ LeftAt(tr, t, n)

\* f is the log e after events of t that took its trace stack from n to m.
Emitted(e, n, f, m, t) ==
  /\ f \in LogType
  /\ f.output = e.output /\ f.bytes = e.bytes /\ f.chunks = e.chunks
  /\ f.next >= e.next
  /\ Len(f.trace) >= Len(e.trace)
  /\ \A i \in 1..Len(e.trace) : f.trace[i] = e.trace[i]
  /\ \A i \in (Len(e.trace) + 1)..Len(f.trace) :
       /\ f.trace[i].task = t
       /\ f.trace[i].sequence >= e.next /\ f.trace[i].sequence < f.next
  /\ \A i, j \in (Len(e.trace) + 1)..Len(f.trace) :
       i < j => f.trace[i].sequence < f.trace[j].sequence
  /\ Told(e.trace, t, n) => Told(f.trace, t, m)
  /\ Collecting \/ f.trace = <<>>

\* An event log is only collected in a traced session.
Quiet(e) == e \in LogType /\ (Collecting \/ e.trace = <<>>)

LEMMA LogFields ==
  ASSUME NEW e \in LogType
  PROVE  /\ e.output \in Nat /\ e.bytes \in Nat /\ e.next \in Nat
         /\ e.chunks \in Seq(Event) /\ Len(e.chunks) \in Nat
         /\ e.trace \in Seq(TraceEvent) /\ Len(e.trace) \in Nat
         /\ \A i \in 1..Len(e.trace) :
              /\ e.trace[i] \in TraceEvent
              /\ e.trace[i].sequence \in Nat /\ e.trace[i].task \in TaskId
              /\ e.trace[i].depth \in Nat
         /\ \A i \in 1..Len(e.chunks) :
              e.chunks[i] \in Event /\ e.chunks[i].sequence \in Nat
<1>1. /\ e.output \in Nat /\ e.bytes \in Nat /\ e.next \in Nat
      /\ e.chunks \in Seq(Event) /\ e.trace \in Seq(TraceEvent)
  BY DEF LogType
<1>2. /\ \A i \in 1..Len(e.trace) : e.trace[i] \in TraceEvent
      /\ \A i \in 1..Len(e.chunks) : e.chunks[i] \in Event
  BY <1>1
<1>3. \A x \in TraceEvent : x.sequence \in Nat /\ x.task \in TaskId /\ x.depth \in Nat
  BY DEF TraceEvent
<1>4. \A x \in Event : x.sequence \in Nat BY DEF Event
<1> QED BY <1>1, <1>2, <1>3, <1>4

LEMMA EmittedNothing ==
  ASSUME NEW e, Quiet(e), NEW n, NEW t
  PROVE  Emitted(e, n, e, n, t)
BY LogFields DEF Quiet, Emitted

LEMMA EmittedTwice ==
  ASSUME NEW e \in LogType, NEW n, NEW f, NEW m, NEW g, NEW k, NEW t,
         Emitted(e, n, f, m, t), Emitted(f, m, g, k, t)
  PROVE  Emitted(e, n, g, k, t)
<1>1. f \in LogType /\ g \in LogType BY DEF Emitted
<1>2. /\ Len(e.trace) \in Nat /\ Len(f.trace) \in Nat /\ Len(g.trace) \in Nat
      /\ e.next \in Nat /\ f.next \in Nat /\ g.next \in Nat
      /\ \A i \in 1..Len(f.trace) : f.trace[i].sequence \in Nat
      /\ \A i \in 1..Len(g.trace) : g.trace[i].sequence \in Nat
  BY <1>1, LogFields
<1>3. /\ f.next >= e.next /\ g.next >= f.next
      /\ Len(f.trace) >= Len(e.trace) /\ Len(g.trace) >= Len(f.trace)
      /\ g.output = e.output /\ g.bytes = e.bytes /\ g.chunks = e.chunks
      /\ Told(e.trace, t, n) => Told(g.trace, t, k)
      /\ Collecting \/ g.trace = <<>>
      /\ \A i \in 1..Len(e.trace) : f.trace[i] = e.trace[i]
      /\ \A i \in 1..Len(f.trace) : g.trace[i] = f.trace[i]
      /\ \A i \in (Len(e.trace) + 1)..Len(f.trace) :
           /\ f.trace[i].task = t
           /\ f.trace[i].sequence >= e.next /\ f.trace[i].sequence < f.next
      /\ \A i \in (Len(f.trace) + 1)..Len(g.trace) :
           /\ g.trace[i].task = t
           /\ g.trace[i].sequence >= f.next /\ g.trace[i].sequence < g.next
      /\ \A i, j \in (Len(e.trace) + 1)..Len(f.trace) :
           i < j => f.trace[i].sequence < f.trace[j].sequence
      /\ \A i, j \in (Len(f.trace) + 1)..Len(g.trace) :
           i < j => g.trace[i].sequence < g.trace[j].sequence
  BY DEF Emitted
<1>4. ASSUME NEW i \in (Len(e.trace) + 1)..Len(g.trace)
      PROVE  /\ g.trace[i].task = t
             /\ g.trace[i].sequence >= e.next /\ g.trace[i].sequence < g.next
  <2>1. i \in 1..Len(g.trace) BY <1>2
  <2>2. CASE i <= Len(f.trace)
    <3>1. i \in (Len(e.trace) + 1)..Len(f.trace) /\ i \in 1..Len(f.trace)
      BY <1>2, <2>2
    <3>2. /\ g.trace[i] = f.trace[i] /\ f.trace[i].task = t
          /\ f.trace[i].sequence >= e.next /\ f.trace[i].sequence < f.next
      BY <1>3, <3>1
    <3>3. f.trace[i].sequence < g.next BY <1>2, <1>3, <3>1, <3>2
    <3> QED BY <3>2, <3>3
  <2>3. CASE ~(i <= Len(f.trace))
    <3>1. i \in (Len(f.trace) + 1)..Len(g.trace) BY <1>2, <2>3
    <3> QED BY SMTT(30), <1>2, <1>3, <2>1, <3>1
  <2> QED BY <2>2, <2>3
<1>5. ASSUME NEW i \in (Len(e.trace) + 1)..Len(g.trace),
             NEW j \in (Len(e.trace) + 1)..Len(g.trace), i < j
      PROVE  g.trace[i].sequence < g.trace[j].sequence
  <2>1. CASE j <= Len(f.trace)
    <3>1. /\ i \in (Len(e.trace) + 1)..Len(f.trace) /\ i \in 1..Len(f.trace)
          /\ j \in (Len(e.trace) + 1)..Len(f.trace) /\ j \in 1..Len(f.trace)
      BY <1>2, <1>5, <2>1
    <3> QED BY <1>3, <1>5, <3>1
  <2>2. CASE i > Len(f.trace)
    <3>1. /\ i \in (Len(f.trace) + 1)..Len(g.trace)
          /\ j \in (Len(f.trace) + 1)..Len(g.trace)
      BY <1>2, <1>5, <2>2
    <3> QED BY <1>3, <1>5, <3>1
  <2>3. CASE i <= Len(f.trace) /\ ~(j <= Len(f.trace))
    <3>1. /\ i \in (Len(e.trace) + 1)..Len(f.trace) /\ i \in 1..Len(f.trace)
          /\ j \in (Len(f.trace) + 1)..Len(g.trace) /\ j \in 1..Len(g.trace)
      BY <1>2, <2>3
    <3>2. g.trace[i].sequence < f.next /\ g.trace[j].sequence >= f.next
      BY <1>3, <3>1
    <3> QED BY SMTT(30), <1>2, <3>1, <3>2, <1>3
  <2> QED BY <1>2, <2>1, <2>2, <2>3
<1>6. \A i \in 1..Len(e.trace) : g.trace[i] = e.trace[i] BY <1>2, <1>3
<1>7. Len(g.trace) >= Len(e.trace) /\ g.next >= e.next BY <1>2, <1>3
<1> QED BY <1>1, <1>3, <1>4, <1>5, <1>6, <1>7 DEF Emitted

\* One more event of t whose depth fits its trace stack.
LEMMA AppendTold ==
  ASSUME NEW tr \in Seq(TraceEvent), NEW t, NEW n \in Nat, Told(tr, t, n),
         NEW x \in TraceEvent, x.task = t,
         x.depth = n + (IF x.kind = "Enter" THEN 1 ELSE 0)
  PROVE  Told(Append(tr, x), t, DepthAfter(x))
<1> DEFINE a == Append(tr, x)
<1>1. /\ Len(tr) \in Nat /\ Len(a) = Len(tr) + 1
      /\ \A i \in 1..Len(tr) : a[i] = tr[i]
      /\ a[Len(tr) + 1] = x
  OBVIOUS
<1> HIDE DEF a
<1>2. ASSUME NEW i \in 1..Len(a), NEW j \in 1..Len(a),
             i < j, a[i].task = a[j].task, LastBefore(a, i, j)
      PROVE  a[j].depth = DepthAfter(a[i]) + (IF a[j].kind = "Enter" THEN 1 ELSE 0)
  <2>1. i \in 1..Len(tr) /\ a[i] = tr[i] BY <1>1, <1>2
  <2>2. LastBefore(tr, i, j) BY <1>1, <1>2, <2>1 DEF LastBefore
  <2>3. CASE j <= Len(tr)
    <3>1. j \in 1..Len(tr) /\ a[j] = tr[j] BY <1>1, <2>3
    <3> QED BY <1>2, <2>1, <2>2, <3>1 DEF Told, Nested
  <2>4. CASE ~(j <= Len(tr))
    <3>1. j = Len(tr) + 1 /\ a[j] = x BY <1>1, <2>4
    <3>2. DepthAfter(tr[i]) = n BY <1>2, <2>1, <2>2, <3>1 DEF Told, LeftAt
    <3> QED BY <2>1, <3>1, <3>2
  <2> QED BY <2>3, <2>4
<1>3. ASSUME NEW i \in 1..Len(a), a[i].task = t, LastBefore(a, i, Len(a) + 1)
      PROVE  DepthAfter(a[i]) = DepthAfter(x)
  <2>1. CASE i = Len(tr) + 1 BY <1>1, <2>1
  <2>2. CASE i # Len(tr) + 1
    <3>1. Len(tr) + 1 \in (i + 1)..((Len(a) + 1) - 1) BY <1>1, <2>2
    <3> QED BY <1>1, <1>3, <3>1 DEF LastBefore
  <2> QED BY <2>1, <2>2
<1> QED BY <1>2, <1>3 DEF Told, Nested, LeftAt, a

\* Emit adds the event when the session collects events, and else does nothing.
LEMMA EmitEmits ==
  ASSUME NEW e, Quiet(e), NEW n \in Nat, NEW t \in TaskId, NEW depth \in Nat,
         NEW kind \in {"Enter", "Line", "Return", "Exit", "Error"},
         depth = n + (IF kind = "Enter" THEN 1 ELSE 0)
  PROVE  /\ Emitted(e, n, Emit(e, t, kind, depth),
                    IF kind = "Exit" THEN depth - 1 ELSE depth, t)
         /\ Quiet(Emit(e, t, kind, depth))
<1> DEFINE m == IF kind = "Exit" THEN depth - 1 ELSE depth
           x == [sequence |-> e.next, task |-> t, kind |-> kind, depth |-> depth]
<1>1. CASE ~Collecting
  <2>1. Emit(e, t, kind, depth) = e BY <1>1 DEF Emit
  <2>2. e.trace = <<>> BY <1>1 DEF Quiet
  <2>3. Told(e.trace, t, m)
    <3>1. 1..Len(e.trace) = {} BY <2>2
    <3> QED BY <3>1 DEF Told, Nested, LeftAt
  <2> HIDE DEF m
  <2>4. Emitted(e, n, e, m, t)
    <3>1. Emitted(e, m, e, m, t) BY EmittedNothing
    <3> QED BY <2>3, <3>1 DEF Emitted
  <2> QED BY <2>1, <2>4 DEF m
<1>2. CASE Collecting
  <2> DEFINE f == Emit(e, t, kind, depth)
             a == Append(e.trace, x)
  <2>1. e \in LogType BY DEF Quiet
  <2>2. /\ e.output \in Nat /\ e.bytes \in Nat /\ e.next \in Nat
        /\ e.chunks \in Seq(Event) /\ e.trace \in Seq(TraceEvent)
        /\ Len(e.trace) \in Nat
    BY <2>1, LogFields
  <2>3. x \in TraceEvent BY <2>2 DEF TraceEvent
  <2>4. f = [e EXCEPT !.next = e.next + 1, !.trace = a]
    BY <1>2 DEF Emit
  <2>5. /\ a \in Seq(TraceEvent)
        /\ Len(a) = Len(e.trace) + 1
        /\ \A i \in 1..Len(e.trace) : a[i] = e.trace[i]
        /\ a[Len(e.trace) + 1] = x
    BY <2>2, <2>3
  <2>6. Told(e.trace, t, n) => Told(a, t, m)
    <3>1. /\ x.task = t /\ x.kind = kind /\ x.depth = depth
          /\ DepthAfter(x) = m
      BY DEF DepthAfter
    <3>2. x.depth = n + (IF x.kind = "Enter" THEN 1 ELSE 0) BY <3>1
    <3> HIDE DEF x, m
    <3> QED BY <2>2, <2>3, <3>1, <3>2, AppendTold
  <2>7. x.task = t /\ x.sequence = e.next OBVIOUS
  <2> HIDE DEF f, a, x, m
  <2>8. /\ f \in LogType
        /\ f.output = e.output /\ f.bytes = e.bytes /\ f.chunks = e.chunks
        /\ f.next = e.next + 1 /\ f.trace = a
    <3> DEFINE k == e.next + 1
    <3>1. k \in Nat /\ f = [e EXCEPT !.next = k, !.trace = a] BY <2>2, <2>4
    <3> HIDE DEF k
    <3>2. f \in LogType BY <2>1, <2>5, <3>1 DEF LogType
    <3>3. /\ f.output = e.output /\ f.bytes = e.bytes /\ f.chunks = e.chunks
          /\ f.next = k /\ f.trace = a
      BY <2>1, <3>1 DEF LogType
    <3> QED BY <3>2, <3>3 DEF k
  <2>9. \A i \in (Len(e.trace) + 1)..Len(f.trace) : f.trace[i] = x
    BY <2>2, <2>5, <2>8
  <2>10. \A i, j \in (Len(e.trace) + 1)..Len(f.trace) : ~(i < j)
    BY <2>2, <2>5, <2>8
  <2>11. Emitted(e, n, f, m, t)
    BY <1>2, <2>2, <2>5, <2>6, <2>7, <2>8, <2>9, <2>10 DEF Emitted
  <2>12. Quiet(f) BY <1>2, <2>8 DEF Quiet
  <2> QED BY <2>11, <2>12 DEF f, m
<1> QED BY <1>1, <1>2

\* Emitted logs are quiet, too.
LEMMA EmittedQuiet ==
  ASSUME NEW e, NEW n, NEW f, NEW m, NEW t, Emitted(e, n, f, m, t)
  PROVE  Quiet(f)
BY DEF Emitted, Quiet

\* The equations of the recursive function task_trace_failure is built from.
LEMMA UnwoundDef ==
  ASSUME NEW c, c.task.stack \in Nat, NEW t
  PROVE  /\ Unwound(c, t)[0] = c.log
         /\ \A n \in 1..c.task.stack :
              Unwound(c, t)[n] =
                Emit(Emit(Unwound(c, t)[n - 1], t, "Error",
                          c.task.stack - n + 1),
                     t, "Exit", c.task.stack - n + 1)
<1> DEFINE L == c.task.stack
           Two(e, n) == Emit(Emit(e, t, "Error", L - n + 1), t, "Exit", L - n + 1)
           Rule(f, m) == [n \in 0..m |-> IF n = 0 THEN c.log
                                         ELSE Two(f[n - 1], n)]
           Good == {m \in Nat : \E f : f = Rule(f, m)}
<1> HIDE DEF Two
<1>1. 0 \in Good
  <2>1. [n \in 0..0 |-> c.log] = Rule([n \in 0..0 |-> c.log], 0) OBVIOUS
  <2> QED BY <2>1
<1>2. ASSUME NEW m \in Nat, m \in Good PROVE m + 1 \in Good
  <2>1. PICK f : f = Rule(f, m) BY <1>2
  <2> DEFINE g == [n \in 0..(m + 1) |-> IF n <= m THEN f[n]
                                        ELSE Two(f[n - 1], n)]
  <2>2. \A n \in 0..m : f[n] = IF n = 0 THEN c.log ELSE Two(f[n - 1], n)
    BY <2>1
  <2>3. \A n \in 0..m : g[n] = f[n] OBVIOUS
  <2>4. \A n \in 1..(m + 1) : g[n - 1] = f[n - 1] OBVIOUS
  <2>5. \A n \in 0..(m + 1) : g[n] = IF n = 0 THEN c.log ELSE Two(g[n - 1], n)
    <3> TAKE n \in 0..(m + 1)
    <3>1. CASE n <= m BY <3>1, <2>2, <2>3, <2>4
    <3>2. CASE n = m + 1 BY <3>2, <2>4
    <3> QED BY <3>1, <3>2
  <2> HIDE DEF g
  <2>6. g = Rule(g, m + 1) BY <2>5 DEF g
  <2>7. \E h : h = Rule(h, m + 1)
    <3> HIDE DEF Rule
    <3> WITNESS g
    <3> QED BY <2>6
  <2>8. m + 1 \in Nat OBVIOUS
  <2> HIDE DEF Rule
  <2> QED BY <2>7, <2>8
<1>3. L \in Good BY <1>1, <1>2, NatSetInduction
<1>4. PICK f : f = Rule(f, L) BY <1>3
<1> DEFINE u == Unwound(c, t)
<1>5. u = Rule(u, L) BY <1>4 DEF Unwound, Two
<1> HIDE DEF u
<1>6. /\ u[0] = c.log
      /\ \A n \in 1..L : u[n] = Two(u[n - 1], n)
  <2>1. ASSUME NEW g, NEW n \in 0..L
        PROVE  Rule(g, L)[n] = IF n = 0 THEN c.log ELSE Two(g[n - 1], n)
    OBVIOUS
  <2> HIDE DEF Rule
  <2>2. \A n \in 0..L : u[n] = Rule(u, L)[n] BY <1>5
  <2> QED BY <2>1, <2>2
<1> QED BY <1>6 DEF u, Two

\* The failure events leave every frame of the trace stack.
LEMMA UnwoundEmits ==
  ASSUME NEW c, c.task.stack \in Nat, Quiet(c.log), NEW t \in TaskId
  PROVE  Emitted(c.log, c.task.stack, Unwound(c, t)[c.task.stack], 0, t)
<1> DEFINE L == c.task.stack
           u == Unwound(c, t)
           Good == {n \in Nat : n <= L => Emitted(c.log, L, u[n], L - n, t)}
<1>1. /\ u[0] = c.log
      /\ \A n \in 1..L :
           u[n] = Emit(Emit(u[n - 1], t, "Error", L - n + 1), t, "Exit", L - n + 1)
  BY UnwoundDef
<1>2. c.log \in LogType BY DEF Quiet
<1> HIDE DEF u
<1>3. 0 \in Good
  <2>1. L - 0 = L OBVIOUS
  <2> QED BY <1>1, <2>1, EmittedNothing
<1>4. ASSUME NEW n \in Nat, n \in Good PROVE n + 1 \in Good
  <2> SUFFICES ASSUME n + 1 <= L
               PROVE  Emitted(c.log, L, u[n + 1], L - (n + 1), t)
    OBVIOUS
  <2> DEFINE d == L - n
             v == u[n]
             w == Emit(v, t, "Error", d)
             x == Emit(w, t, "Exit", d)
  <2>1. d \in Nat /\ L - (n + 1) + 1 = d /\ d - 1 = L - (n + 1) OBVIOUS
  <2>2. u[n + 1] = x
    <3>1. n + 1 \in 1..L /\ (n + 1) - 1 = n OBVIOUS
    <3> QED BY <1>1, <2>1, <3>1
  <2>3. Emitted(c.log, L, v, d, t) BY <1>4
  <2> HIDE DEF d, v
  <2>4. Quiet(v) /\ v \in LogType BY <2>3, EmittedQuiet DEF Quiet
  <2>5. Emitted(v, d, w, d, t) /\ Quiet(w)
    <3>1. d = d + (IF "Error" = "Enter" THEN 1 ELSE 0) BY <2>1
    <3> QED BY <2>1, <2>4, <3>1, EmitEmits
  <2>6. Emitted(w, d, x, d - 1, t)
    <3> HIDE DEF w
    <3>1. d = d + (IF "Exit" = "Enter" THEN 1 ELSE 0) BY <2>1
    <3> QED BY <2>1, <2>5, <3>1, EmitEmits
  <2> HIDE DEF w, x
  <2>7. Emitted(c.log, L, w, d, t) BY <1>2, <2>3, <2>5, EmittedTwice
  <2>8. Emitted(c.log, L, x, d - 1, t) BY <1>2, <2>6, <2>7, EmittedTwice
  <2> QED BY <2>1, <2>2, <2>8
<1>5. L \in Good BY <1>3, <1>4, NatSetInduction
<1>6. L - L = 0 OBVIOUS
<1> QED BY <1>5, <1>6 DEF u
-----------------------------------------------------------------------------
\* What a slice of t does to the log, its outputs included: f is e with more
\* events of t, and the trace stack of t went from n to m.
LogGrows(e, n, f, m, t) ==
  /\ Quiet(f)
  /\ f.next >= e.next
  /\ f.output >= e.output /\ f.bytes - e.bytes = f.output - e.output
  /\ Sequenced(e) => Sequenced(f)
  /\ Told(e.trace, t, n) => Told(f.trace, t, m)
  /\ \A u \in TaskId \ {t}, k \in Nat :
       LeftAt(e.trace, u, k) => LeftAt(f.trace, u, k)
  /\ \A i \in 1..Len(f.trace) :
       \/ f.trace[i].task = t
       \/ i \in 1..Len(e.trace) /\ f.trace[i] = e.trace[i]
  /\ \A i \in (Len(e.trace) + 1)..Len(f.trace) :
       f.trace[i].sequence >= e.next /\ f.trace[i].task = t
  /\ \A i \in (Len(e.chunks) + 1)..Len(f.chunks) :
       f.chunks[i].sequence >= e.next /\ f.chunks[i].task = t

\* Events that are not of u leave the depth of u as it is.
LEMMA OthersKeepDepth ==
  ASSUME NEW p \in Seq(TraceEvent), NEW q \in Seq(TraceEvent), NEW u, NEW k,
         Len(q) >= Len(p), \A i \in 1..Len(p) : q[i] = p[i],
         \A i \in (Len(p) + 1)..Len(q) : q[i].task # u,
         LeftAt(p, u, k)
  PROVE  LeftAt(q, u, k)
<1>1. Len(p) \in Nat /\ Len(q) \in Nat OBVIOUS
<1> SUFFICES ASSUME NEW i \in 1..Len(q), q[i].task = u,
                    LastBefore(q, i, Len(q) + 1)
             PROVE  DepthAfter(q[i]) = k
  BY DEF LeftAt
<1>2. i \in 1..Len(p) BY <1>1
<1>3. LastBefore(p, i, Len(p) + 1) BY <1>1, <1>2 DEF LastBefore
<1> QED BY <1>2, <1>3 DEF LeftAt

LEMMA EmittedGrows ==
  ASSUME NEW e \in LogType, NEW n, NEW f, NEW m, NEW t \in TaskId,
         Emitted(e, n, f, m, t)
  PROVE  LogGrows(e, n, f, m, t)
<1> DEFINE N == Len(e.trace)
<1>1. /\ f \in LogType /\ Quiet(f)
      /\ f.output = e.output /\ f.bytes = e.bytes /\ f.chunks = e.chunks
      /\ f.next >= e.next
      /\ Len(f.trace) >= N
      /\ \A i \in 1..N : f.trace[i] = e.trace[i]
      /\ \A i \in (N + 1)..Len(f.trace) :
           /\ f.trace[i].task = t
           /\ f.trace[i].sequence >= e.next /\ f.trace[i].sequence < f.next
      /\ \A i, j \in (N + 1)..Len(f.trace) :
           i < j => f.trace[i].sequence < f.trace[j].sequence
      /\ Told(e.trace, t, n) => Told(f.trace, t, m)
  BY EmittedQuiet DEF Emitted
<1>2. /\ N \in Nat /\ Len(f.trace) \in Nat /\ Len(e.chunks) \in Nat
      /\ e.next \in Nat /\ f.next \in Nat /\ e.output \in Nat /\ e.bytes \in Nat
      /\ e.trace \in Seq(TraceEvent) /\ f.trace \in Seq(TraceEvent)
      /\ \A i \in 1..N : e.trace[i].sequence \in Nat
      /\ \A i \in 1..Len(f.trace) : f.trace[i].sequence \in Nat
      /\ \A i \in 1..Len(e.chunks) : e.chunks[i].sequence \in Nat
  BY <1>1, LogFields
<1>3. ASSUME NEW i \in 1..Len(f.trace)
      PROVE  \/ i \in 1..N /\ f.trace[i] = e.trace[i]
             \/ i \in (N + 1)..Len(f.trace)
  BY <1>1, <1>2
<1>4. ASSUME Sequenced(e) PROVE Sequenced(f)
  <2>1. ASSUME NEW i \in 1..Len(f.trace) PROVE f.trace[i].sequence < f.next
    <3>1. CASE i \in 1..N
      <4>1. e.trace[i].sequence < e.next BY <1>4, <3>1 DEF Sequenced
      <4> QED BY <1>1, <1>2, <3>1, <4>1
    <3>2. CASE i \in (N + 1)..Len(f.trace) BY <1>1, <3>2
    <3> QED BY <1>3, <3>1, <3>2
  <2>2. ASSUME NEW j \in 1..Len(f.chunks) PROVE f.chunks[j].sequence < f.next
    <3>1. j \in 1..Len(e.chunks) /\ f.chunks[j] = e.chunks[j] BY <1>1
    <3>2. e.chunks[j].sequence < e.next BY <1>4, <3>1 DEF Sequenced
    <3> QED BY <1>1, <1>2, <3>1, <3>2
  <2>3. ASSUME NEW i \in 1..Len(f.trace), NEW j \in 1..Len(f.trace), i < j
        PROVE  f.trace[i].sequence < f.trace[j].sequence
    <3>1. CASE j \in 1..N
      <4>1. i \in 1..N BY <1>2, <2>3, <3>1
      <4>2. e.trace[i].sequence < e.trace[j].sequence
        BY <1>4, <2>3, <3>1, <4>1 DEF Sequenced
      <4> QED BY <1>1, <3>1, <4>1, <4>2
    <3>2. CASE i \in 1..N /\ j \in (N + 1)..Len(f.trace)
      <4>1. e.trace[i].sequence < e.next BY <1>4, <3>2 DEF Sequenced
      <4>2. f.trace[i] = e.trace[i] /\ f.trace[j].sequence >= e.next
        BY <1>1, <3>2
      <4> QED BY SMTT(30), <1>2, <4>1, <4>2
    <3>3. CASE i \in (N + 1)..Len(f.trace) /\ j \in (N + 1)..Len(f.trace)
      BY <1>1, <2>3, <3>3
    <3> QED BY <1>2, <1>3, <2>3, <3>1, <3>2, <3>3
  <2>4. ASSUME NEW i \in 1..Len(f.chunks), NEW j \in 1..Len(f.chunks), i < j
        PROVE  f.chunks[i].sequence < f.chunks[j].sequence
    BY <1>1, <1>4, <2>4 DEF Sequenced
  <2>5. ASSUME NEW i \in 1..Len(f.trace), NEW j \in 1..Len(f.chunks),
               f.trace[i].sequence = f.chunks[j].sequence
        PROVE  f.trace[i].kind = "Output" /\ f.trace[i].task = f.chunks[j].task
    <3>1. j \in 1..Len(e.chunks) /\ f.chunks[j] = e.chunks[j] BY <1>1
    <3>2. CASE i \in 1..N
      <4>1. f.trace[i] = e.trace[i] BY <1>1, <3>2
      <4> QED BY <1>4, <2>5, <3>1, <3>2, <4>1 DEF Sequenced
    <3>3. CASE i \in (N + 1)..Len(f.trace)
      <4>1. e.chunks[j].sequence < e.next BY <1>4, <3>1 DEF Sequenced
      <4>2. f.trace[i].sequence >= e.next BY <1>1, <3>3
      <4> QED BY <1>2, <2>5, <3>1, <4>1, <4>2
    <3> QED BY <1>3, <3>2, <3>3
  <2> QED BY <2>1, <2>2, <2>3, <2>4, <2>5 DEF Sequenced
<1>5. ASSUME NEW u \in TaskId \ {t}, NEW k \in Nat, LeftAt(e.trace, u, k)
      PROVE  LeftAt(f.trace, u, k)
  <2>1. \A i \in (N + 1)..Len(f.trace) : f.trace[i].task # u BY <1>1
  <2>2. Len(f.trace) >= N /\ \A i \in 1..N : f.trace[i] = e.trace[i] BY <1>1
  <2>3. e.trace \in Seq(TraceEvent) /\ f.trace \in Seq(TraceEvent) BY <1>2
  <2> QED BY <1>5, <2>1, <2>2, <2>3, OthersKeepDepth
<1>6. \A i \in 1..Len(f.trace) :
        \/ f.trace[i].task = t
        \/ i \in 1..Len(e.trace) /\ f.trace[i] = e.trace[i]
  BY <1>1, <1>3
<1>7. (Len(e.chunks) + 1)..Len(f.chunks) = {} BY <1>1, <1>2
<1>8. f.output >= e.output /\ f.bytes - e.bytes = f.output - e.output
  BY <1>1, <1>2
<1> QED BY <1>1, <1>4, <1>5, <1>6, <1>7, <1>8 DEF LogGrows

\* An output takes one number for its event and, in a traced session, for its
\* trace record.
LEMMA OutputGrows ==
  ASSUME NEW e, Quiet(e), NEW n \in Nat, NEW t \in TaskId, NEW size \in Nat
  PROVE  /\ LogGrows(e, n, AppendTaskOutput(e, t, size, n), n, t)
         /\ AppendTaskOutput(e, t, size, n).bytes = e.bytes + size
<1> DEFINE f == AppendTaskOutput(e, t, size, n)
           r == [sequence |-> e.next, task |-> t]
           x == [sequence |-> e.next, task |-> t, kind |-> "Output", depth |-> n]
           N == Len(e.trace)
           M == Len(e.chunks)
<1>1. e \in LogType /\ (Collecting \/ e.trace = <<>>) BY DEF Quiet
<1>2. /\ e.output \in Nat /\ e.bytes \in Nat /\ e.next \in Nat
      /\ e.chunks \in Seq(Event) /\ e.trace \in Seq(TraceEvent)
      /\ N \in Nat /\ M \in Nat
      /\ \A i \in 1..N : e.trace[i].sequence \in Nat
      /\ \A i \in 1..M : e.chunks[i].sequence \in Nat
  BY <1>1, LogFields
<1>3. r \in Event /\ x \in TraceEvent BY <1>2 DEF Event, TraceEvent
<1>4. /\ f.output = e.output + size /\ f.bytes = e.bytes + size
      /\ f.next = e.next + 1
      /\ f.chunks = Append(e.chunks, r)
      /\ f.trace = IF Collecting THEN Append(e.trace, x) ELSE e.trace
      /\ f = [output |-> f.output, bytes |-> f.bytes, next |-> f.next,
              chunks |-> f.chunks, trace |-> f.trace]
  BY DEF AppendTaskOutput
<1>5. /\ x.task = t /\ x.sequence = e.next /\ x.kind = "Output" /\ x.depth = n
      /\ DepthAfter(x) = n
      /\ r.task = t /\ r.sequence = e.next
  BY DEF DepthAfter
<1> HIDE DEF f, r, x
<1>6. /\ f.chunks \in Seq(Event) /\ Len(f.chunks) = M + 1
      /\ \A j \in 1..M : f.chunks[j] = e.chunks[j]
      /\ f.chunks[M + 1] = r
  BY <1>2, <1>3, <1>4
<1>7. /\ f.trace \in Seq(TraceEvent)
      /\ Len(f.trace) \in {N, N + 1}
      /\ \A i \in 1..N : f.trace[i] = e.trace[i]
      /\ Len(f.trace) = N + 1 => f.trace[N + 1] = x
  <2>1. CASE Collecting BY <1>2, <1>3, <1>4, <2>1
  <2>2. CASE ~Collecting BY <1>2, <1>4, <2>2
  <2> QED BY <2>1, <2>2
<1>8. f \in LogType
  <2>1. f.output \in Nat /\ f.bytes \in Nat /\ f.next \in Nat
    BY SMTT(30), <1>2, <1>4
  <2> QED BY <1>4, <1>6, <1>7, <2>1 DEF LogType
<1>9. Quiet(f) BY <1>1, <1>4, <1>8 DEF Quiet
<1>10. \A i \in 1..Len(f.trace) : \/ i \in 1..N /\ f.trace[i] = e.trace[i]
                                  \/ i = N + 1 /\ f.trace[i] = x
  BY <1>2, <1>7
<1>11. \A j \in 1..Len(f.chunks) : \/ j \in 1..M /\ f.chunks[j] = e.chunks[j]
                                   \/ j = M + 1 /\ f.chunks[j] = r
  BY <1>2, <1>6
<1>12. ASSUME Sequenced(e) PROVE Sequenced(f)
  <2>1. \A i \in 1..N : e.trace[i].sequence < e.next
    BY <1>12 DEF Sequenced
  <2>2. \A j \in 1..M : e.chunks[j].sequence < e.next
    BY <1>12 DEF Sequenced
  <2>3. \A i \in 1..Len(f.trace) : f.trace[i].sequence < f.next
    BY <1>2, <1>4, <1>5, <1>10, <2>1
  <2>4. \A j \in 1..Len(f.chunks) : f.chunks[j].sequence < f.next
    BY <1>2, <1>4, <1>5, <1>11, <2>2
  <2>5. ASSUME NEW i \in 1..Len(f.trace), NEW j \in 1..Len(f.trace), i < j
        PROVE  f.trace[i].sequence < f.trace[j].sequence
    <3>1. i \in 1..N /\ f.trace[i] = e.trace[i] BY <1>2, <1>7, <1>10, <2>5
    <3>2. CASE j \in 1..N /\ f.trace[j] = e.trace[j]
      BY <1>12, <2>5, <3>1, <3>2 DEF Sequenced
    <3>3. CASE f.trace[j] = x BY <1>5, <2>1, <3>1, <3>3
    <3> QED BY <1>10, <3>2, <3>3
  <2>6. ASSUME NEW i \in 1..Len(f.chunks), NEW j \in 1..Len(f.chunks), i < j
        PROVE  f.chunks[i].sequence < f.chunks[j].sequence
    <3>1. i \in 1..M /\ f.chunks[i] = e.chunks[i] BY <1>2, <1>6, <1>11, <2>6
    <3>2. CASE j \in 1..M /\ f.chunks[j] = e.chunks[j]
      BY <1>12, <2>6, <3>1, <3>2 DEF Sequenced
    <3>3. CASE f.chunks[j] = r BY <1>5, <2>2, <3>1, <3>3
    <3> QED BY <1>11, <3>2, <3>3
  <2>7. ASSUME NEW i \in 1..Len(f.trace), NEW j \in 1..Len(f.chunks),
               f.trace[i].sequence = f.chunks[j].sequence
        PROVE  f.trace[i].kind = "Output" /\ f.trace[i].task = f.chunks[j].task
    <3>1. CASE /\ i \in 1..N /\ f.trace[i] = e.trace[i]
               /\ j \in 1..M /\ f.chunks[j] = e.chunks[j]
      BY <1>12, <2>7, <3>1 DEF Sequenced
    <3>2. CASE i \in 1..N /\ f.trace[i] = e.trace[i] /\ f.chunks[j] = r
      <4>1. e.trace[i].sequence < e.next BY <2>1, <3>2
      <4> QED BY <1>2, <1>5, <2>7, <3>2, <4>1
    <3>3. CASE f.trace[i] = x /\ j \in 1..M /\ f.chunks[j] = e.chunks[j]
      <4>1. e.chunks[j].sequence < e.next BY <2>2, <3>3
      <4> QED BY <1>2, <1>5, <2>7, <3>3, <4>1
    <3>4. CASE f.trace[i] = x /\ f.chunks[j] = r BY <1>5, <3>4
    <3> QED BY <1>10, <1>11, <3>1, <3>2, <3>3, <3>4
  <2> QED BY <2>3, <2>4, <2>5, <2>6, <2>7 DEF Sequenced
<1>13. ASSUME Told(e.trace, t, n) PROVE Told(f.trace, t, n)
  <2>1. CASE Collecting
    <3>1. f.trace = Append(e.trace, x) BY <1>4, <2>1
    <3>2. x.depth = n + (IF x.kind = "Enter" THEN 1 ELSE 0) BY <1>5
    <3> QED BY <1>2, <1>3, <1>5, <1>13, <3>1, <3>2, AppendTold
  <2>2. CASE ~Collecting BY <1>4, <1>13, <2>2
  <2> QED BY <2>1, <2>2
<1>14. ASSUME NEW u \in TaskId \ {t}, NEW k \in Nat, LeftAt(e.trace, u, k)
       PROVE  LeftAt(f.trace, u, k)
  <2>1. \A i \in (N + 1)..Len(f.trace) : f.trace[i].task # u
    BY <1>2, <1>5, <1>7
  <2>2. Len(f.trace) >= N /\ \A i \in 1..N : f.trace[i] = e.trace[i]
    BY <1>2, <1>7
  <2>3. e.trace \in Seq(TraceEvent) /\ f.trace \in Seq(TraceEvent)
    BY <1>2, <1>7
  <2> QED BY <1>14, <2>1, <2>2, <2>3, OthersKeepDepth
<1>15. \A i \in 1..Len(f.trace) :
         \/ f.trace[i].task = t
         \/ i \in 1..Len(e.trace) /\ f.trace[i] = e.trace[i]
  BY <1>5, <1>10
<1>16. \A i \in (N + 1)..Len(f.trace) :
         f.trace[i].sequence >= e.next /\ f.trace[i].task = t
  BY <1>2, <1>5, <1>7
<1>17. \A j \in (M + 1)..Len(f.chunks) :
         f.chunks[j].sequence >= e.next /\ f.chunks[j].task = t
  BY <1>2, <1>5, <1>6
<1>18. /\ f.next >= e.next
       /\ f.output >= e.output /\ f.bytes - e.bytes = f.output - e.output
  BY <1>2, <1>4
<1>19. LogGrows(e, n, f, n, t)
  BY <1>9, <1>12, <1>13, <1>14, <1>15, <1>16, <1>17, <1>18 DEF LogGrows
<1> QED BY <1>4, <1>19 DEF f
-----------------------------------------------------------------------------
\* Slice contexts.

ContextType(c) == c \in [task : Payload, log : LogType] /\ Quiet(c.log)

\* d is c after trace events of t; the frames and the outcome are as they were.
Traces(c, d, t) ==
  /\ ContextType(d)
  /\ Emitted(c.log, c.task.stack, d.log, d.task.stack, t)
  /\ d.task.frames = c.task.frames
  /\ d.task.result = c.task.result
  /\ d.task.error = c.task.error

\* A task whose slice may go on: it has a frame, and a traced session entered
\* all of its frames or, before its first slice, none.
Resumable(p) ==
  /\ p.frames > 0
  /\ IF Traced THEN IF p.started THEN p.stack = p.frames
                    ELSE p.frames = 1 /\ p.stack = 0
     ELSE ~p.started

LEMMA TracesNothing ==
  ASSUME NEW c, ContextType(c), NEW t
  PROVE  Traces(c, c, t)
BY EmittedNothing DEF Traces, ContextType

LEMMA TracesTwice ==
  ASSUME NEW c, ContextType(c), NEW d, NEW e, NEW t,
         Traces(c, d, t), Traces(d, e, t)
  PROVE  Traces(c, e, t)
<1>1. c.log \in LogType BY DEF ContextType
<1> QED BY <1>1, EmittedTwice DEF Traces

LEMMA PayloadFields ==
  ASSUME NEW c, ContextType(c)
  PROVE  /\ c.task \in Payload /\ c.log \in LogType /\ Quiet(c.log)
         /\ c.task.frames \in Nat /\ c.task.stack \in Nat
         /\ c.task.started \in BOOLEAN /\ c.task.result \in BOOLEAN
         /\ c.task.error \in ErrorKind \cup {"None"}
         /\ c = [task |-> c.task, log |-> c.log]
BY DEF ContextType, Payload

\* One event, together with what it does to the trace stack of its task.
LEMMA OneEvent ==
  ASSUME NEW c, ContextType(c), NEW t \in TaskId,
         NEW kind \in {"Enter", "Line", "Return", "Exit", "Error"},
         NEW depth \in Nat,
         depth = c.task.stack + (IF kind = "Enter" THEN 1 ELSE 0),
         NEW p \in Payload, p.frames = c.task.frames,
         p.result = c.task.result, p.error = c.task.error,
         p.stack = IF kind = "Exit" THEN depth - 1 ELSE depth
  PROVE  Traces(c, [task |-> p, log |-> Emit(c.log, t, kind, depth)], t)
<1> DEFINE f == Emit(c.log, t, kind, depth)
<1>1. c.task.stack \in Nat /\ Quiet(c.log) BY PayloadFields
<1>2. Emitted(c.log, c.task.stack, f, p.stack, t) /\ Quiet(f)
  BY <1>1, EmitEmits
<1> HIDE DEF f
<1>3. f \in LogType BY <1>2 DEF Quiet
<1> QED BY <1>2, <1>3 DEF Traces, ContextType, f

LEMMA EnterTraces ==
  ASSUME NEW c, ContextType(c), NEW t \in TaskId
  PROVE  /\ Traces(c, TraceEnter(c, t), t)
         /\ Traced => /\ TraceEnter(c, t).task.started
                      /\ TraceEnter(c, t).task.stack = c.task.stack + 1
         /\ ~Traced => TraceEnter(c, t) = c
<1>1. CASE ~Traced
  <2>1. TraceEnter(c, t) = c BY <1>1 DEF TraceEnter
  <2> QED BY <1>1, <2>1, TracesNothing
<1>2. CASE Traced
  <2> DEFINE depth == c.task.stack + 1
             p == [c.task EXCEPT !.started = TRUE, !.stack = depth]
             d == [task |-> p, log |-> Emit(c.log, t, "Enter", depth)]
  <2>1. c.task \in Payload /\ c.task.stack \in Nat BY PayloadFields
  <2>2. /\ depth \in Nat
        /\ depth = c.task.stack + (IF "Enter" = "Enter" THEN 1 ELSE 0)
        /\ depth = IF "Enter" = "Exit" THEN depth - 1 ELSE depth
    BY <2>1
  <2>3. TraceEnter(c, t) = d BY <1>2 DEF TraceEnter
  <2> HIDE DEF depth
  <2>4. /\ p \in Payload /\ p.frames = c.task.frames
        /\ p.result = c.task.result /\ p.error = c.task.error
        /\ p.stack = depth /\ p.started
    BY <2>1, <2>2 DEF Payload
  <2> HIDE DEF p
  <2>5. Traces(c, d, t) BY <2>2, <2>4, OneEvent
  <2> QED BY <1>2, <2>3, <2>4, <2>5 DEF depth
<1> QED BY <1>1, <1>2

LEMMA StartTraces ==
  ASSUME NEW c, ContextType(c), NEW t \in TaskId, Resumable(c.task)
  PROVE  /\ Traces(c, TraceStart(c, t), t)
         /\ Resumable(TraceStart(c, t).task)
         /\ Traced => TraceStart(c, t).task.started
<1>1. CASE c.task.started
  <2>1. TraceStart(c, t) = c BY <1>1 DEF TraceStart
  <2> QED BY <1>1, <2>1, TracesNothing
<1>2. CASE ~c.task.started
  <2>1. TraceStart(c, t) = TraceEnter(c, t) BY <1>2 DEF TraceStart
  <2>2. CASE Traced
    <3>1. c.task.frames = 1 /\ c.task.stack = 0
      BY <1>2, <2>2 DEF Resumable
    <3>2. /\ TraceStart(c, t).task.started
          /\ TraceStart(c, t).task.stack = 1
          /\ Traces(c, TraceStart(c, t), t)
      BY <2>1, <2>2, <3>1, EnterTraces
    <3> QED BY <2>2, <3>1, <3>2 DEF Resumable, Traces
  <2>3. CASE ~Traced BY <2>1, <2>3, EnterTraces
  <2> QED BY <2>2, <2>3
<1> QED BY <1>1, <1>2

LEMMA InstructionTraces ==
  ASSUME NEW c, ContextType(c), NEW t \in TaskId, NEW moved \in BOOLEAN
  PROVE  /\ Traces(c, TraceInstruction(c, t, moved), t)
         /\ TraceInstruction(c, t, moved).task = c.task
<1>1. CASE moved
  <2> DEFINE depth == c.task.stack
             d == [task |-> c.task, log |-> Emit(c.log, t, "Line", depth)]
  <2>1. c.task \in Payload /\ depth \in Nat /\ c = [task |-> c.task, log |-> c.log]
    BY PayloadFields
  <2>2. TraceInstruction(c, t, moved) = d BY <1>1, <2>1 DEF TraceInstruction
  <2>3. /\ depth = c.task.stack + (IF "Line" = "Enter" THEN 1 ELSE 0)
        /\ c.task.stack = IF "Line" = "Exit" THEN depth - 1 ELSE depth
    BY <2>1
  <2> HIDE DEF depth
  <2>4. Traces(c, d, t) BY <2>1, <2>3, OneEvent
  <2> QED BY <2>2, <2>4
<1>2. CASE ~moved
  <2>1. TraceInstruction(c, t, moved) = c BY <1>2 DEF TraceInstruction
  <2> QED BY <2>1, TracesNothing
<1> QED BY <1>1, <1>2

LEMMA ReturnTraces ==
  ASSUME NEW c, ContextType(c), NEW t \in TaskId
  PROVE  Traces(c, [c EXCEPT !.log = Emit(@, t, "Return", c.task.stack)], t)
<1> DEFINE depth == c.task.stack
           d == [task |-> c.task, log |-> Emit(c.log, t, "Return", depth)]
<1>1. c.task \in Payload /\ depth \in Nat /\ c = [task |-> c.task, log |-> c.log]
  BY PayloadFields
<1>2. [c EXCEPT !.log = Emit(@, t, "Return", c.task.stack)] = d BY <1>1
<1>3. /\ depth = c.task.stack + (IF "Return" = "Enter" THEN 1 ELSE 0)
      /\ c.task.stack = IF "Return" = "Exit" THEN depth - 1 ELSE depth
  BY <1>1
<1> HIDE DEF depth
<1>4. Traces(c, d, t) BY <1>1, <1>3, OneEvent
<1> QED BY <1>2, <1>4

LEMMA LeaveTraces ==
  ASSUME NEW c, ContextType(c), NEW t \in TaskId, Traced => c.task.stack > 0
  PROVE  /\ Traces(c, TraceLeave(c, t), t)
         /\ TraceLeave(c, t).task.started = c.task.started
         /\ Traced => TraceLeave(c, t).task.stack = c.task.stack - 1
<1>1. CASE ~Traced
  <2>1. TraceLeave(c, t) = c BY <1>1 DEF TraceLeave
  <2> QED BY <1>1, <2>1, TracesNothing
<1>2. CASE Traced
  <2> DEFINE depth == c.task.stack
             n == depth - 1
             p == [c.task EXCEPT !.stack = n]
             d == [task |-> p, log |-> Emit(c.log, t, "Exit", depth)]
  <2>1. /\ c.task \in Payload /\ depth \in Nat /\ n \in Nat
        /\ depth = c.task.stack + (IF "Exit" = "Enter" THEN 1 ELSE 0)
        /\ n = IF "Exit" = "Exit" THEN depth - 1 ELSE depth
    BY <1>2, PayloadFields
  <2>2. TraceLeave(c, t) = d BY <1>2 DEF TraceLeave
  <2> HIDE DEF n
  <2>3. /\ p \in Payload /\ p.frames = c.task.frames
        /\ p.result = c.task.result /\ p.error = c.task.error
        /\ p.stack = n /\ p.started = c.task.started
    BY <2>1 DEF Payload
  <2> HIDE DEF p, depth
  <2>4. Traces(c, d, t) BY <2>1, <2>3, OneEvent
  <2> QED BY <1>2, <2>2, <2>3, <2>4 DEF n, depth
<1> QED BY <1>1, <1>2

LEMMA FailureTraces ==
  ASSUME NEW c, ContextType(c), NEW t \in TaskId
  PROVE  Traces(c, TraceFailure(c, t), t)
<1>1. CASE ~Traced
  <2>1. TraceFailure(c, t) = c BY <1>1 DEF TraceFailure
  <2> QED BY <2>1, TracesNothing
<1>2. CASE Traced
  <2> DEFINE p == [c.task EXCEPT !.stack = 0]
             f == Unwound(c, t)[c.task.stack]
             d == [task |-> p, log |-> f]
  <2>1. c.task \in Payload /\ c.task.stack \in Nat /\ Quiet(c.log)
    BY PayloadFields
  <2>2. TraceFailure(c, t) = d BY <1>2 DEF TraceFailure
  <2>3. /\ p \in Payload /\ p.frames = c.task.frames
        /\ p.result = c.task.result /\ p.error = c.task.error /\ p.stack = 0
    BY <2>1 DEF Payload
  <2>4. Emitted(c.log, c.task.stack, f, 0, t) BY <2>1, UnwoundEmits
  <2> HIDE DEF p, f
  <2>5. f \in LogType /\ Quiet(f)
    <3>1. Quiet(f) BY <2>4, EmittedQuiet
    <3> QED BY <3>1 DEF Quiet
  <2> QED BY <2>2, <2>3, <2>4, <2>5 DEF Traces, ContextType
<1> QED BY <1>1, <1>2
-----------------------------------------------------------------------------
\* An iteration of a slice.

CallType == [at : {"idle", "top", "checked", "returning", "ended"},
             task : TaskId \cup {NoTask}, left : 0..Quantum, step : TaskStep,
             reply : {"None", "Dispatched", "Waiting", "Complete"}]

\* The step a slice returns, and what its task then holds.
Handed(step, p, cancelled) ==
  /\ step # "Block"
  /\ step = "Yield" => Resumable(p)
  /\ step = "Complete" => p.result
  /\ step = "Fail" => p.error # "None"
  /\ step = "Cancel" => cancelled

\* What a slice needs of the session, and keeps.
InSlice ==
  /\ call \in CallType /\ call.at \in {"top", "checked"} /\ call.left > 0
  /\ Running \in TaskId
  /\ task \in [TaskId -> Payload]
  /\ Quiet(log)
  /\ Resumable(task[Running])
  /\ call.at = "checked" /\ Traced => task[Running].started
  /\ BudgetsHold
  /\ steps \in Nat /\ elements \in Nat /\ quit \in BOOLEAN /\ token \in BOOLEAN
  /\ ~sched.cancellationRequested[Running]

\* A context a slice may leave behind.
Left(c) ==
  /\ ContextType(c)
  /\ LogGrows(log, task[Running].stack, c.log, c.task.stack, Running)
  /\ c.task.frames <= MaxCallDepth + 1
  /\ c.log.bytes <= MaxOutputBytes
  /\ call.at = "top" => /\ c.log.bytes = log.bytes
                        /\ c.task.frames <= task[Running].frames

\* Where the call goes on, given the payload left behind.
GoesOn(p) ==
  /\ call' \in CallType /\ call'.task = call.task /\ call'.reply = call.reply
  /\ call'.at \in {"top", "checked", "returning"}
  /\ call'.at # "returning" => call'.left > 0 /\ Resumable(p)
  /\ call'.at = "checked" /\ Traced => p.started
  /\ call'.at = "returning" => Handed(call'.step, p, quit' \/ token)

SliceEffect ==
  /\ UNCHANGED <<mode, sched, debugState, token, driving>>
  /\ \E c : Left(c) /\ Keep(c) /\ GoesOn(c.task)
  /\ quit' \in BOOLEAN
  /\ steps' \in Nat /\ steps' <= MaxSteps
  /\ elements' \in Nat /\ elements' <= MaxElements
  /\ token => steps' = steps /\ elements' = elements

LEMMA ContextIsLeft ==
  ASSUME InSlice
  PROVE  /\ ContextType(Context)
         /\ Context.task = task[Running] /\ Context.log = log
         /\ Resumable(Context.task)
         /\ log \in LogType
BY DEF InSlice, Context, ContextType, Quiet

\* A context reached by trace events alone.
LEMMA TracesLeft ==
  ASSUME InSlice, NEW c, Traces(Context, c, Running),
         NEW p \in Payload, p.stack = c.task.stack,
         p.frames \in Nat, p.frames <= c.task.frames
  PROVE  Left([task |-> p, log |-> c.log])
<1> DEFINE d == [task |-> p, log |-> c.log]
<1>1. /\ Context.task = task[Running] /\ Context.log = log /\ log \in LogType
      /\ ContextType(Context)
  BY ContextIsLeft
<1>2. /\ ContextType(c) /\ c.task.frames = task[Running].frames
      /\ Emitted(log, task[Running].stack, c.log, p.stack, Running)
  BY <1>1 DEF Traces
<1>3. LogGrows(log, task[Running].stack, c.log, p.stack, Running)
  BY <1>1, <1>2, EmittedGrows DEF InSlice
<1>4. c.log.bytes = log.bytes BY <1>2 DEF Emitted
<1>5. ContextType(d) BY <1>2 DEF ContextType
<1>6. /\ task[Running].frames \in Nat /\ task[Running].frames <= MaxCallDepth + 1
      /\ log.bytes <= MaxOutputBytes
  <2>1. task[Running].frames \in Nat BY <1>1, PayloadFields
  <2>2. /\ task[Running].frames <= MaxCallDepth + 1
        /\ log.bytes <= MaxOutputBytes
    BY DEF InSlice, BudgetsHold
  <2> QED BY <2>1, <2>2
<1>7. p.frames <= MaxCallDepth + 1
  BY <1>2, <1>6, LimitsAssumption
<1>8. d.task = p /\ d.log = c.log OBVIOUS
<1> HIDE DEF d
<1>9. Left(d) BY <1>2, <1>3, <1>4, <1>5, <1>6, <1>7, <1>8 DEF Left
<1> QED BY <1>9 DEF d

\* The trace of the frames before the instruction.
LEMMA ObservedTraces ==
  ASSUME InSlice, NEW moved \in BOOLEAN
  PROVE  /\ Traces(Context, Observed(moved), Running)
         /\ Resumable(Observed(moved).task)
         /\ Traced => Observed(moved).task.started
<1> DEFINE s == TraceStart(Context, Running)
           o == TraceInstruction(s, Running, moved)
<1>1. ContextType(Context) /\ Resumable(Context.task) BY ContextIsLeft
<1>2. Running \in TaskId BY DEF InSlice
<1>3. /\ Traces(Context, s, Running) /\ Resumable(s.task)
      /\ Traced => s.task.started
  BY <1>1, <1>2, StartTraces
<1>4. ContextType(s) BY <1>3 DEF Traces
<1> HIDE DEF s
<1>5. Traces(s, o, Running) /\ o.task = s.task
  BY <1>2, <1>4, InstructionTraces
<1> HIDE DEF o
<1>6. Traces(Context, o, Running) BY <1>1, <1>3, <1>5, TracesTwice
<1> QED BY <1>3, <1>5, <1>6 DEF o, s, Observed

\* stop_scheduled_task.
LEMMA StopEffect ==
  ASSUME InSlice, NEW c, Traces(Context, c, Running),
         NEW error, NEW control \in {"Continue", "Quit"},
         control # "Quit" => error \in ErrorKind,
         error = "Cancelled" => token,
         Stop(c, error, control)
  PROVE  /\ \E d : Left(d) /\ Keep(d) /\ GoesOn(d.task)
         /\ quit' \in BOOLEAN
<1>1. ContextType(c) BY DEF Traces
<1>2. /\ c.task \in Payload /\ c.log \in LogType /\ c.task.frames \in Nat
      /\ c = [task |-> c.task, log |-> c.log]
  BY <1>1, PayloadFields
<1>3. call \in CallType /\ quit \in BOOLEAN /\ Running \in TaskId
  BY DEF InSlice
<1>4. \A step \in TaskStep :
        /\ ReturnStep(step) \in CallType
        /\ ReturnStep(step).at = "returning" /\ ReturnStep(step).step = step
        /\ ReturnStep(step).task = call.task
        /\ ReturnStep(step).reply = call.reply
  BY <1>3 DEF ReturnStep, CallType
<1>5. {"Yield", "Block", "Complete", "Fail", "Cancel"} = TaskStep
  BY DEF TaskStep
<1>6. CASE control = "Quit"
  <2> DEFINE p == [c.task EXCEPT !.error = "None"]
             d == [task |-> p, log |-> c.log]
  <2>1. /\ quit' = TRUE
        /\ call' = ReturnStep("Cancel")
        /\ Keep([c EXCEPT !.task.error = "None"])
    BY <1>6 DEF Stop
  <2>2. [c EXCEPT !.task.error = "None"] = d BY <1>2
  <2>3. /\ p \in Payload /\ p.stack = c.task.stack
        /\ p.frames \in Nat /\ p.frames <= c.task.frames
    BY <1>2 DEF Payload
  <2> HIDE DEF p
  <2>4. Left(d) BY <2>3, TracesLeft
  <2>5. GoesOn(p) BY <1>4, <1>5, <2>1 DEF GoesOn, Handed
  <2>6. Keep(d) /\ d.task = p BY <2>1, <2>2
  <2> HIDE DEF d
  <2> QED BY <2>1, <2>4, <2>5, <2>6
<1>7. CASE control # "Quit"
  <2> DEFINE f == TraceFailure(c, Running)
             p == [f.task EXCEPT !.error = error]
             d == [task |-> p, log |-> f.log]
             step == IF error = "Cancelled" THEN "Cancel" ELSE "Fail"
  <2>1. /\ quit' = quit
        /\ call' = ReturnStep(step)
        /\ Keep([f EXCEPT !.task.error = error])
    BY <1>7 DEF Stop
  <2>2. Traces(Context, f, Running)
    <3>1. Traces(c, f, Running) BY <1>1, <1>3, FailureTraces
    <3>2. ContextType(Context) BY ContextIsLeft
    <3> HIDE DEF f
    <3> QED BY <3>1, <3>2, TracesTwice
  <2> HIDE DEF f
  <2>3. ContextType(f) BY <2>2 DEF Traces
  <2>4. f.task \in Payload /\ f.task.frames \in Nat /\ f = [task |-> f.task, log |-> f.log]
    BY <2>3, PayloadFields
  <2>5. [f EXCEPT !.task.error = error] = d BY <2>4
  <2>6. /\ p \in Payload /\ p.stack = f.task.stack /\ p.error = error
        /\ p.frames \in Nat /\ p.frames <= f.task.frames
    BY <1>7, <2>4 DEF Payload
  <2> HIDE DEF p
  <2>7. Left(d) BY <2>2, <2>6, TracesLeft
  <2>8. error # "None" BY <1>7 DEF ErrorKind
  <2>9. GoesOn(p) BY <1>4, <1>5, <2>1, <2>6, <2>8 DEF GoesOn, Handed
  <2>10. Keep(d) /\ d.task = p BY <2>1, <2>5
  <2> HIDE DEF d
  <2> QED BY <1>3, <2>1, <2>7, <2>9, <2>10
<1> QED BY <1>6, <1>7

\* The loop of a slice: once more, or the quantum is used up.
LEMMA IterationGoesOn ==
  ASSUME InSlice, call' = NextIteration, NEW p, Resumable(p)
  PROVE  GoesOn(p)
<1>1. /\ call \in CallType /\ call.left \in 0..Quantum /\ call.left > 0
      /\ Quantum \in Nat
  BY LimitsAssumption DEF InSlice, CallType
<1>2. CASE call.left = 1
  <2>1. call' = [call EXCEPT !.at = "returning", !.step = "Yield"]
    BY <1>2 DEF NextIteration, ReturnStep
  <2>2. /\ call' \in CallType /\ call'.task = call.task
        /\ call'.reply = call.reply
        /\ call'.at = "returning" /\ call'.step = "Yield"
    BY <1>1, <2>1 DEF CallType, TaskStep
  <2> QED BY <2>2 DEF GoesOn, Handed
<1>3. CASE call.left # 1
  <2> DEFINE n == call.left - 1
  <2>1. n \in 0..Quantum /\ n > 0 BY <1>1, <1>3
  <2>2. call' = [call EXCEPT !.at = "top", !.left = n]
    BY <1>3 DEF NextIteration
  <2> HIDE DEF n
  <2>3. /\ call' \in CallType /\ call'.task = call.task
        /\ call'.reply = call.reply
        /\ call'.at = "top" /\ call'.left = n
    BY <1>1, <2>1, <2>2 DEF CallType
  <2> QED BY <2>1, <2>3 DEF GoesOn
<1> QED BY <1>2, <1>3

\* FrameStack::return_value, after the frame left the trace stack.
LEMMA PopFrameEffect ==
  ASSUME InSlice, NEW b, Traces(Context, b, Running), Resumable(b.task),
         Traced => b.task.started,
         PopFrame(TraceLeave(b, Running))
  PROVE  \E d : Left(d) /\ Keep(d) /\ GoesOn(d.task)
<1> DEFINE c == TraceLeave(b, Running)
<1>1. /\ ContextType(b) /\ ContextType(Context) /\ Running \in TaskId
      /\ call \in CallType
  BY ContextIsLeft DEF Traces, InSlice
<1>2. /\ b.task.frames \in Nat /\ b.task.frames > 0
      /\ Traced => b.task.stack = b.task.frames
      /\ ~Traced => ~b.task.started
  BY <1>1, PayloadFields DEF Resumable
<1>3. /\ Traces(b, c, Running)
      /\ c.task.started = b.task.started
      /\ Traced => c.task.stack = b.task.stack - 1
  BY <1>1, <1>2, LeaveTraces
<1> HIDE DEF c
<1>4. Traces(Context, c, Running) BY <1>1, <1>3, TracesTwice
<1>5. ContextType(c) /\ c.task.frames = b.task.frames BY <1>3 DEF Traces
<1>6. /\ c.task \in Payload /\ c.task.stack \in Nat
      /\ c = [task |-> c.task, log |-> c.log]
  BY <1>5, PayloadFields
<1>7. CASE c.task.frames = 1
  <2> DEFINE p == [c.task EXCEPT !.frames = 0, !.result = TRUE]
             d == [task |-> p, log |-> c.log]
  <2>1. /\ call' = ReturnStep("Complete")
        /\ Keep([c EXCEPT !.task = [@ EXCEPT !.frames = 0, !.result = TRUE]])
    BY <1>7 DEF PopFrame, c
  <2>2. [c EXCEPT !.task = [@ EXCEPT !.frames = 0, !.result = TRUE]] = d
    BY <1>6
  <2>3. /\ p \in Payload /\ p.stack = c.task.stack /\ p.result = TRUE
        /\ p.frames = 0
    BY <1>6 DEF Payload
  <2> HIDE DEF p
  <2>4. Left(d)
    <3>1. p.frames \in Nat /\ p.frames <= c.task.frames BY <1>7, <2>3
    <3> QED BY <1>4, <2>3, <3>1, TracesLeft
  <2>5. /\ call' \in CallType /\ call'.at = "returning"
        /\ call'.step = "Complete" /\ call'.task = call.task
        /\ call'.reply = call.reply
    BY <1>1, <2>1 DEF ReturnStep, CallType, TaskStep
  <2>6. GoesOn(p) BY <2>3, <2>5 DEF GoesOn, Handed
  <2>7. Keep(d) /\ d.task = p BY <2>1, <2>2
  <2> HIDE DEF d
  <2> QED BY <2>4, <2>6, <2>7
<1>8. CASE c.task.frames # 1
  <2> DEFINE n == c.task.frames - 1
             p == [c.task EXCEPT !.frames = n]
             d == [task |-> p, log |-> c.log]
  <2>1. /\ call' = NextIteration
        /\ Keep([c EXCEPT !.task.frames = @ - 1])
    BY <1>8 DEF PopFrame, c
  <2>2. [c EXCEPT !.task.frames = @ - 1] = d BY <1>6
  <2>3. n \in Nat /\ n > 0 /\ n <= c.task.frames BY <1>2, <1>5, <1>8
  <2>4. Traced => c.task.stack = n BY <1>2, <1>3, <1>5
  <2> HIDE DEF n
  <2>5. /\ p \in Payload /\ p.stack = c.task.stack /\ p.frames = n
        /\ p.started = c.task.started
    BY <1>6, <2>3 DEF Payload
  <2> HIDE DEF p
  <2>6. Left(d) BY <1>4, <2>3, <2>5, TracesLeft
  <2>7. Resumable(p) BY <1>2, <1>3, <2>3, <2>4, <2>5 DEF Resumable
  <2>8. GoesOn(p) BY <2>1, <2>7, IterationGoesOn
  <2>9. Keep(d) /\ d.task = p BY <2>1, <2>2
  <2> HIDE DEF d
  <2> QED BY <2>6, <2>8, <2>9
<1> QED BY <1>7, <1>8

\* The checkpoint of each instruction, and the three ways a slice ends at it.
LEMMA TopEffect ==
  ASSUME InSlice,
         \/ \E moved \in BOOLEAN : Checkpoint(moved)
         \/ \E moved \in BOOLEAN : PauseQuits(moved)
         \/ \E moved \in BOOLEAN, control \in Controls :
              CheckpointFails(moved, control)
         \/ FallsOffEnd
  PROVE  SliceEffect
<1>1. /\ steps \in Nat /\ steps <= MaxSteps
      /\ elements \in Nat /\ elements <= MaxElements
      /\ quit \in BOOLEAN /\ token \in BOOLEAN /\ call \in CallType
      /\ ~sched.cancellationRequested[Running]
  BY DEF InSlice, BudgetsHold
<1>2. ASSUME NEW moved \in BOOLEAN, Checkpoint(moved) PROVE SliceEffect
  <2> DEFINE c == Observed(moved)
  <2>1. /\ Traces(Context, c, Running) /\ Resumable(c.task)
        /\ Traced => c.task.started
    BY ObservedTraces
  <2>2. /\ call' = [call EXCEPT !.at = "checked"] /\ Keep(c)
        /\ steps' = steps + 1 /\ CheckpointError = "None"
        /\ UNCHANGED <<mode, sched, elements, debugState, quit, token, driving>>
    BY <1>2 DEF Checkpoint
  <2> HIDE DEF c
  <2>3. ~token /\ ~(steps >= MaxSteps) BY <2>2 DEF CheckpointError
  <2>4. ContextType(c) BY <2>1 DEF Traces
  <2>5. /\ c.task \in Payload /\ c.task.frames \in Nat
        /\ c = [task |-> c.task, log |-> c.log]
        /\ c.task.frames <= c.task.frames
    BY <2>4, PayloadFields
  <2>6. Left([task |-> c.task, log |-> c.log]) BY <2>1, <2>5, TracesLeft
  <2>7. Left(c) BY <2>5, <2>6
  <2>8. GoesOn(c.task)
    <3>1. /\ call' \in CallType /\ call'.at = "checked"
          /\ call'.left = call.left /\ call'.task = call.task
          /\ call'.reply = call.reply
      BY <1>1, <2>2 DEF CallType
    <3> QED BY <2>1, <3>1 DEF GoesOn, InSlice
  <2>9. steps' \in Nat /\ steps' <= MaxSteps
    BY <1>1, <2>2, <2>3, LimitsAssumption
  <2> QED BY <1>1, <2>2, <2>3, <2>7, <2>8, <2>9 DEF SliceEffect
<1>3. ASSUME NEW moved \in BOOLEAN, PauseQuits(moved) PROVE SliceEffect
  <2>1. Traces(Context, Observed(moved), Running) BY ObservedTraces
  <2>2. /\ Stop(Observed(moved), "None", "Quit")
        /\ UNCHANGED <<mode, sched, steps, elements, debugState, token, driving>>
    BY <1>3 DEF PauseQuits
  <2>3. /\ \E d : Left(d) /\ Keep(d) /\ GoesOn(d.task)
        /\ quit' \in BOOLEAN
    BY <2>1, <2>2, StopEffect
  <2> QED BY <1>1, <2>2, <2>3 DEF SliceEffect
<1>4. ASSUME NEW moved \in BOOLEAN, NEW control \in Controls,
             CheckpointFails(moved, control)
      PROVE  SliceEffect
  <2>1. Traces(Context, Observed(moved), Running) BY ObservedTraces
  <2>2. /\ Stop(Observed(moved), CheckpointError, control)
        /\ CheckpointError # "None"
        /\ UNCHANGED <<mode, sched, steps, elements, debugState, token, driving>>
    BY <1>4 DEF CheckpointFails
  <2>3. /\ CheckpointError \in ErrorKind
        /\ CheckpointError = "Cancelled" => token
    BY <1>1, <2>2 DEF CheckpointError, ErrorKind
  <2>4. control \in {"Continue", "Quit"} BY DEF Controls
  <2>5. /\ \E d : Left(d) /\ Keep(d) /\ GoesOn(d.task)
        /\ quit' \in BOOLEAN
    BY <2>1, <2>2, <2>3, <2>4, StopEffect
  <2> QED BY <1>1, <2>2, <2>5 DEF SliceEffect
<1>5. CASE FallsOffEnd
  <2> DEFINE b == TraceStart(Context, Running)
  <2>1. ContextType(Context) /\ Resumable(Context.task) /\ Running \in TaskId
    BY ContextIsLeft DEF InSlice
  <2>2. /\ Traces(Context, b, Running) /\ Resumable(b.task)
        /\ Traced => b.task.started
    BY <2>1, StartTraces
  <2>3. /\ PopFrame(TraceLeave(b, Running))
        /\ UNCHANGED <<mode, sched, steps, elements, debugState, quit, token,
                       driving>>
    BY <1>5 DEF FallsOffEnd
  <2> HIDE DEF b
  <2>4. \E d : Left(d) /\ Keep(d) /\ GoesOn(d.task)
    BY <2>2, <2>3, PopFrameEffect
  <2> QED BY <1>1, <2>3, <2>4 DEF SliceEffect
<1> QED BY <1>2, <1>3, <1>4, <1>5

\* An instruction that leaves the task as it is.
LEMMA UnchangedLeft ==
  ASSUME InSlice, UNCHANGED task, UNCHANGED log
  PROVE  /\ Left(Context) /\ Keep(Context) /\ Context.task = task[Running]
<1> DEFINE c == Context
<1>1. /\ ContextType(c) /\ c.task = task[Running] /\ c.log = log
  BY ContextIsLeft
<1>2. Keep(c) BY <1>1 DEF Keep, InSlice
<1> HIDE DEF c
<1>3. Traces(c, c, Running) BY <1>1, TracesNothing
<1>4. /\ c.task \in Payload /\ c.task.frames \in Nat
      /\ c = [task |-> c.task, log |-> c.log]
      /\ c.task.frames <= c.task.frames
  BY <1>1, PayloadFields
<1>5. Left([task |-> c.task, log |-> c.log])
  BY <1>3, <1>4, TracesLeft DEF c
<1> QED BY <1>1, <1>2, <1>4, <1>5 DEF c

\* The instruction itself.
LEMMA CheckedEffect ==
  ASSUME InSlice,
         \/ Continues
         \/ \E control \in Controls : Allocates(control)
         \/ \E size \in PrintSizes, control \in Controls : Prints(size, control)
         \/ \E control \in Controls : Calls(control)
         \/ Returns
         \/ \E control \in Controls : Raises(control)
  PROVE  SliceEffect
<1>1. /\ steps \in Nat /\ steps <= MaxSteps
      /\ elements \in Nat /\ elements <= MaxElements
      /\ quit \in BOOLEAN /\ token \in BOOLEAN
      /\ Running \in TaskId
  BY DEF InSlice, BudgetsHold
<1>2. /\ ContextType(Context) /\ Traces(Context, Context, Running)
      /\ Resumable(Context.task)
      /\ Context.task = task[Running] /\ Context.log = log
  BY ContextIsLeft, TracesNothing
<1>3. Controls \subseteq {"Continue", "Quit"} BY DEF Controls
\* Every error of an instruction ends in stop_scheduled_task.
<1>4. ASSUME NEW control \in Controls, NEW error \in ErrorKind,
             error = "Cancelled" => token, Stop(Context, error, control)
      PROVE  /\ \E d : Left(d) /\ Keep(d) /\ GoesOn(d.task)
             /\ quit' \in BOOLEAN
  BY <1>2, <1>3, <1>4, StopEffect
<1>5. CASE Continues
  <2>1. /\ call' = NextIteration
        /\ UNCHANGED <<task, log, quit, elements>>
        /\ UNCHANGED <<mode, sched, steps, debugState, token, driving>>
    BY <1>5 DEF Continues, SliceUnchanged
  <2>2. Left(Context) /\ Keep(Context) BY <2>1, UnchangedLeft
  <2>3. GoesOn(Context.task) BY <1>2, <2>1, IterationGoesOn
  <2> QED BY <1>1, <2>1, <2>2, <2>3 DEF SliceEffect
<1>6. ASSUME NEW control \in Controls, Allocates(control) PROVE SliceEffect
  <2>1. UNCHANGED <<mode, sched, steps, debugState, token, driving>>
    BY <1>6 DEF Allocates, SliceUnchanged
  <2>2. CASE AllocationError = "None"
    <3>1. /\ call' = NextIteration /\ elements' = elements + 1
          /\ UNCHANGED <<task, log, quit>>
      BY <1>6, <2>2 DEF Allocates
    <3>2. Left(Context) /\ Keep(Context) BY <3>1, UnchangedLeft
    <3>3. GoesOn(Context.task) BY <1>2, <3>1, IterationGoesOn
    <3>4. ~token /\ ~(elements + 1 > MaxElements)
      BY <2>2 DEF AllocationError
    <3>5. elements' \in Nat /\ elements' <= MaxElements
      BY <1>1, <3>1, <3>4, LimitsAssumption
    <3> QED BY <1>1, <2>1, <3>1, <3>2, <3>3, <3>4, <3>5 DEF SliceEffect
  <2>3. CASE AllocationError # "None"
    <3>1. Stop(Context, AllocationError, control) /\ UNCHANGED elements
      BY <1>6, <2>3 DEF Allocates
    <3>2. AllocationError \in ErrorKind /\ (AllocationError = "Cancelled" => token)
      BY <2>3 DEF AllocationError, ErrorKind
    <3>3. /\ \E d : Left(d) /\ Keep(d) /\ GoesOn(d.task)
          /\ quit' \in BOOLEAN
      BY <1>4, <3>1, <3>2
    <3> QED BY <1>1, <2>1, <3>1, <3>3 DEF SliceEffect
  <2> QED BY <2>2, <2>3
<1>7. ASSUME NEW size \in PrintSizes, NEW control \in Controls,
             Prints(size, control)
      PROVE  SliceEffect
  <2>1. /\ UNCHANGED <<mode, sched, steps, debugState, token, driving>>
        /\ UNCHANGED elements /\ call.at = "checked"
    BY <1>7 DEF Prints, SliceUnchanged, Executing
  <2>2. CASE log.bytes + size > MaxOutputBytes
    <3>1. Stop(Context, "OutputBytes", control) BY <1>7, <2>2 DEF Prints
    <3>2. /\ \E d : Left(d) /\ Keep(d) /\ GoesOn(d.task)
          /\ quit' \in BOOLEAN
      BY <1>4, <3>1 DEF ErrorKind
    <3> QED BY <1>1, <2>1, <3>2 DEF SliceEffect
  <2>3. CASE ~(log.bytes + size > MaxOutputBytes)
    <3> DEFINE e == AppendTaskOutput(log, Running, size, task[Running].stack)
               c == [task |-> task[Running], log |-> e]
    <3>1. log' = e /\ call' = NextIteration /\ UNCHANGED <<task, quit>>
      BY <1>7, <2>3 DEF Prints
    <3>2. size \in Nat BY LimitsAssumption
    <3>3. /\ task[Running] \in Payload /\ task[Running].stack \in Nat
          /\ Quiet(log) /\ log \in LogType
      BY <1>2, PayloadFields
    <3>4. /\ LogGrows(log, task[Running].stack, e, task[Running].stack, Running)
          /\ e.bytes = log.bytes + size
      BY <1>1, <3>2, <3>3, OutputGrows
    <3> HIDE DEF e
    <3>5. Quiet(e) BY <3>4 DEF LogGrows
    <3>6. ContextType(c) BY <3>3, <3>5 DEF ContextType, Quiet
    <3>7. e.bytes <= MaxOutputBytes
      <4>1. log.bytes \in Nat BY <3>3 DEF LogType
      <4> QED BY <2>3, <3>2, <3>4, <4>1, LimitsAssumption
    <3>8. c.task = task[Running] /\ c.log = e OBVIOUS
    <3>9. task[Running].frames <= MaxCallDepth + 1
      BY <1>1 DEF InSlice, BudgetsHold
    <3>10. Keep(c) BY <3>1 DEF Keep, InSlice
    <3> HIDE DEF c
    <3>11. Left(c) BY <2>1, <3>4, <3>6, <3>7, <3>8, <3>9 DEF Left
    <3>12. GoesOn(c.task) BY <1>2, <3>1, <3>8, IterationGoesOn
    <3> QED BY <1>1, <2>1, <3>1, <3>10, <3>11, <3>12 DEF SliceEffect
  <2> QED BY <2>2, <2>3
<1>8. ASSUME NEW control \in Controls, Calls(control) PROVE SliceEffect
  <2>1. /\ UNCHANGED <<mode, sched, steps, debugState, token, driving>>
        /\ UNCHANGED elements /\ call.at = "checked"
    BY <1>8 DEF Calls, SliceUnchanged, Executing
  <2>2. CASE DepthExceeded(task[Running].frames)
    <3>1. Stop(Context, "CallDepth", control) BY <1>8, <2>2 DEF Calls
    <3>2. /\ \E d : Left(d) /\ Keep(d) /\ GoesOn(d.task)
          /\ quit' \in BOOLEAN
      BY <1>4, <3>1 DEF ErrorKind
    <3> QED BY <1>1, <2>1, <3>2 DEF SliceEffect
  <2>3. CASE ~DepthExceeded(task[Running].frames)
    <3> DEFINE n == task[Running].frames + 1
               p == [task[Running] EXCEPT !.frames = n]
               c == [task |-> p, log |-> log]
               d == TraceEnter(c, Running)
    <3>1. /\ Keep(TraceEnter([Context EXCEPT !.task.frames = @ + 1], Running))
          /\ call' = NextIteration /\ UNCHANGED quit
      BY <1>8, <2>3 DEF Calls
    <3>2. [Context EXCEPT !.task.frames = @ + 1] = c BY DEF Context
    <3>3. /\ task[Running] \in Payload /\ task[Running].frames \in Nat
          /\ task[Running].stack \in Nat /\ log \in LogType /\ Quiet(log)
      BY <1>2, PayloadFields
    <3>4. n \in Nat /\ n > 0 /\ n <= MaxCallDepth + 1
      BY <2>3, <3>3, LimitsAssumption DEF DepthExceeded
    <3>5. Keep(d) BY <3>1, <3>2
    <3>6. n = task[Running].frames + 1 OBVIOUS
    <3> HIDE DEF n
    <3>7. /\ p \in Payload /\ p.frames = n
          /\ p.stack = task[Running].stack
          /\ p.started = task[Running].started
      BY <3>3, <3>4 DEF Payload
    <3> HIDE DEF p
    <3>8. ContextType(c) /\ c.task = p /\ c.log = log
      BY <3>3, <3>7 DEF ContextType
    <3> HIDE DEF c
    <3>9. /\ Traces(c, d, Running)
          /\ Traced => d.task.started /\ d.task.stack = p.stack + 1
          /\ ~Traced => d = c
      BY <1>1, <3>8, EnterTraces
    <3> HIDE DEF d
    <3>10. /\ ContextType(d) /\ d.task.frames = n
           /\ Emitted(log, task[Running].stack, d.log, d.task.stack, Running)
      BY <3>7, <3>8, <3>9 DEF Traces
    <3>11. LogGrows(log, task[Running].stack, d.log, d.task.stack, Running)
      BY <1>1, <3>3, <3>10, EmittedGrows
    <3>12. d.log.bytes <= MaxOutputBytes
      BY <3>10 DEF Emitted, InSlice, BudgetsHold
    <3>13. Left(d) BY <2>1, <3>4, <3>10, <3>11, <3>12 DEF Left
    <3>14. Resumable(d.task)
      <4>1. CASE Traced
        <5>1. task[Running].stack = task[Running].frames
          BY <1>2, <2>1, <4>1 DEF Resumable, InSlice
        <5> QED BY <3>3, <3>4, <3>6, <3>7, <3>9, <3>10, <4>1, <5>1 DEF Resumable
      <4>2. CASE ~Traced
        <5>1. ~task[Running].started BY <1>2, <4>2 DEF Resumable
        <5> QED BY <3>4, <3>7, <3>8, <3>9, <4>2, <5>1 DEF Resumable
      <4> QED BY <4>1, <4>2
    <3>15. GoesOn(d.task) BY <3>1, <3>14, IterationGoesOn
    <3> QED BY <1>1, <2>1, <3>1, <3>5, <3>13, <3>15 DEF SliceEffect
  <2> QED BY <2>2, <2>3
<1>9. CASE Returns
  <2> DEFINE b == [Context EXCEPT !.log = Emit(@, Running, "Return",
                                              task[Running].stack)]
  <2>1. /\ PopFrame(TraceLeave(b, Running))
        /\ UNCHANGED <<elements, quit>> /\ call.at = "checked"
        /\ UNCHANGED <<mode, sched, steps, debugState, token, driving>>
    BY <1>9 DEF Returns, SliceUnchanged, Executing
  <2>2. Traces(Context, b, Running)
    BY <1>1, <1>2, ReturnTraces
  <2>3. b.task = Context.task BY DEF Context
  <2> HIDE DEF b
  <2>4. Resumable(b.task) /\ (Traced => b.task.started)
    BY <1>2, <2>1, <2>3 DEF InSlice
  <2>5. \E d : Left(d) /\ Keep(d) /\ GoesOn(d.task)
    BY <2>1, <2>2, <2>4, PopFrameEffect
  <2> QED BY <1>1, <2>1, <2>5 DEF SliceEffect
<1>10. ASSUME NEW control \in Controls, Raises(control) PROVE SliceEffect
  <2>1. /\ Stop(Context, "Runtime", control)
        /\ UNCHANGED elements
        /\ UNCHANGED <<mode, sched, steps, debugState, token, driving>>
    BY <1>10 DEF Raises, SliceUnchanged
  <2>2. /\ \E d : Left(d) /\ Keep(d) /\ GoesOn(d.task)
        /\ quit' \in BOOLEAN
    BY <1>4, <2>1 DEF ErrorKind
  <2> QED BY <1>1, <2>1, <2>2 DEF SliceEffect
<1> QED BY <1>5, <1>6, <1>7, <1>8, <1>9, <1>10

\* Every iteration of a slice has the effect.
LEMMA SliceStepEffect ==
  ASSUME InSlice, SliceStep
  PROVE  SliceEffect
BY TopEffect, CheckedEffect DEF SliceStep
-----------------------------------------------------------------------------
\* The inductive invariant.

Live(t) == Known(sched, t) /\ ~IsTerminal(sched, t)

\* The step under way and the scheduler agree on the dispatched task.
CallFollows ==
  /\ call.at \in {"idle", "ended"} => Running = NoTask
  /\ call.at \in {"top", "checked", "returning"} => Running = call.task
  /\ call.at # "idle" => call.task \in TaskId /\ call.reply = "None"
  /\ call.at \in {"top", "checked"} => call.left > 0
  /\ call.at = "checked" /\ Traced => task[call.task].started
  /\ call.at \in {"returning", "ended"} =>
       Handed(call.step, task[call.task], quit \/ token)
  /\ call.at = "ended" => sched.state[call.task] = StateAfter(call.step)

\* What the scheduler says of a task fits its payload.
TasksFollow ==
  \A t \in TaskId :
    /\ ~Known(sched, t) => task[t].frames = 0 /\ ~task[t].started
    /\ Live(t) /\ ~(call.at = "returning" /\ t = call.task) =>
         Resumable(task[t])
    /\ IsTerminal(sched, t) /\ ~(call.at = "ended" /\ t = call.task) =>
         task[t].frames = 0
    /\ sched.state[t] = "Completed" => task[t].result
    /\ sched.state[t] = "Failed" => task[t].error # "None"

\* The events collected so far belong to tasks that were spawned, and the last
\* one of every task that can still emit left its trace stack where it is.
LogFollows ==
  /\ Sequenced(log)
  /\ Nested(log.trace)
  /\ Collecting \/ log.trace = <<>>
  /\ \A i \in 1..Len(log.trace) : Known(sched, log.trace[i].task)
  /\ \A t \in TaskId : ~IsTerminal(sched, t) =>
       LeftAt(log.trace, t, task[t].stack)

SessionInv == /\ TypeOK
              /\ WellFormed(sched)
              /\ BudgetsHold
              /\ CallFollows
              /\ TasksFollow
              /\ LogFollows
              /\ FailFast
              /\ RepliesHonest
              /\ SnapshotExact

LEMMA NobodyIsATask == \A t \in TaskId : t # NoTask
BY MaxTaskIdAssumption, NoTaskAssumption DEF TaskId

LEMMA InitEstablishes == Init => SessionInv
<1> SUFFICES ASSUME Init PROVE SessionInv OBVIOUS
<1> USE DEF Init
<1>1. WellFormed(sched) BY NewSchedulerWellFormed
<1>2. \A t \in TaskId : sched.state[t] = "Absent" BY DEF NewScheduler
<1>3. /\ call.at = "idle" /\ call.task = NoTask /\ call.reply = "None"
      /\ Running = NoTask
      /\ \A t \in TaskId : task[t].frames = 0 /\ ~task[t].started
      /\ log.trace = <<>> /\ log.chunks = <<>> /\ Len(log.trace) = 0
      /\ Len(log.chunks) = 0
      /\ log.output = 0 /\ log.bytes = 0 /\ log.next = 0
  <2>1. call.at = "idle" /\ call.task = NoTask /\ call.reply = "None"
    BY DEF IdleCall
  <2>2. Running = NoTask BY DEF Running, NewScheduler
  <2>3. \A t \in TaskId : task[t].frames = 0 /\ ~task[t].started
    BY DEF NoPayload
  <2>4. /\ log.trace = <<>> /\ log.chunks = <<>>
        /\ log.output = 0 /\ log.bytes = 0 /\ log.next = 0
    BY DEF NewLog
  <2> QED BY <2>1, <2>2, <2>3, <2>4
<1>4. TypeOK
  <2>1. sched \in Scheduler BY <1>1 DEF WellFormed
  <2>2. task \in [TaskId -> Payload]
    BY DEF NoPayload, Payload
  <2>3. call \in CallType
    BY LimitsAssumption DEF IdleCall, CallType, TaskStep
  <2>4. log \in LogType BY DEF NewLog, LogType
  <2>5. debugState \in [running : TaskId \cup {NoTask}, ready : Seq(TaskId),
                        tasks : [TaskId -> TaskState]]
    BY DEF NoDebugState, TaskState
  <2> QED BY <2>1, <2>2, <2>3, <2>4, <2>5 DEF TypeOK, CallType, LogType
<1>5. BudgetsHold BY <1>3, LimitsAssumption DEF BudgetsHold
<1>6. CallFollows BY <1>3 DEF CallFollows
<1>7. TasksFollow BY <1>2, <1>3 DEF TasksFollow, Live, Known, IsTerminal, Terminal
<1>8. LogFollows BY <1>3 DEF LogFollows, Sequenced, Nested, LeftAt
<1>9. FailFast BY <1>3 DEF FailFast
<1>10. RepliesHonest BY <1>3 DEF RepliesHonest
<1>11. SnapshotExact BY <1>3 DEF SnapshotExact
<1> QED BY <1>1, <1>4, <1>5, <1>6, <1>7, <1>8, <1>9, <1>10, <1>11 DEF SessionInv

\* The invariant gives a slice what it needs.
LEMMA SliceIsReady ==
  ASSUME SessionInv, call.at \in {"top", "checked"}
  PROVE  /\ InSlice /\ Running = call.task /\ Live(Running)
         /\ sched.state[Running] = "Running"
<1>1. /\ call \in CallType /\ task \in [TaskId -> Payload] /\ log \in LogType
      /\ steps \in Nat /\ elements \in Nat /\ quit \in BOOLEAN
      /\ token \in BOOLEAN
  BY DEF SessionInv, TypeOK, CallType, LogType
<1>2. Running = call.task /\ call.task \in TaskId /\ call.left > 0
      /\ (call.at = "checked" /\ Traced => task[call.task].started)
  BY DEF SessionInv, CallFollows
<1>3. sched.state[Running] = "Running" /\ ~sched.cancellationRequested[Running]
  BY <1>2 DEF SessionInv, WellFormed, Booked, Running
<1>4. Live(Running) BY <1>3 DEF Live, Known, IsTerminal, Terminal
<1>5. Resumable(task[Running])
  BY <1>2, <1>4 DEF SessionInv, TasksFollow
<1>6. Quiet(log) BY <1>1 DEF Quiet, SessionInv, LogFollows
<1>7. BudgetsHold BY DEF SessionInv
<1> QED BY <1>1, <1>2, <1>3, <1>4, <1>5, <1>6, <1>7 DEF InSlice

LEMMA SliceStepAt == SliceStep => call.at \in {"top", "checked"}
BY DEF SliceStep, Checkpoint, PauseQuits, CheckpointFails, FallsOffEnd,
       Continues, Allocates, Prints, Calls, Returns, Raises, Executing

LEMMA SliceKeepsInv ==
  ASSUME SessionInv, SliceStep
  PROVE  SessionInv'
<1>1. call.at \in {"top", "checked"} BY SliceStepAt
<1>2. /\ InSlice /\ Running = call.task /\ Running \in TaskId
      /\ Live(Running) /\ sched.state[Running] = "Running"
  BY <1>1, SliceIsReady DEF InSlice
<1>3. SliceEffect BY <1>2, SliceStepEffect
<1>4. /\ UNCHANGED <<mode, sched, debugState, token, driving>>
      /\ quit' \in BOOLEAN
      /\ steps' \in Nat /\ steps' <= MaxSteps
      /\ elements' \in Nat /\ elements' <= MaxElements
  BY <1>3 DEF SliceEffect
<1>5. PICK c : Left(c) /\ Keep(c) /\ GoesOn(c.task)
  BY <1>3 DEF SliceEffect
<1>6. /\ ContextType(c)
      /\ LogGrows(log, task[Running].stack, c.log, c.task.stack, Running)
      /\ c.task.frames <= MaxCallDepth + 1
      /\ c.log.bytes <= MaxOutputBytes
  BY <1>5 DEF Left
<1>7. /\ task' = [task EXCEPT ![Running] = c.task] /\ log' = c.log
      /\ task \in [TaskId -> Payload]
  BY <1>2, <1>5 DEF Keep, InSlice
<1>8. /\ task'[Running] = c.task
      /\ \A t \in TaskId : t # Running => task'[t] = task[t]
      /\ task' \in [TaskId -> Payload]
  BY <1>2, <1>6, <1>7, PayloadFields
<1>9. /\ call' \in CallType /\ call'.task = call.task /\ call'.reply = call.reply
      /\ call'.at \in {"top", "checked", "returning"}
      /\ call'.at # "returning" => call'.left > 0 /\ Resumable(c.task)
      /\ call'.at = "checked" /\ Traced => c.task.started
      /\ call'.at = "returning" =>
           Handed(call'.step, c.task, quit' \/ token)
  BY <1>5 DEF GoesOn
<1>10. /\ Running' = Running /\ Traced' = Traced /\ Collecting' = Collecting
       /\ \A p : Resumable(p)' <=> Resumable(p)
       /\ \A t : Live(t)' <=> Live(t)
       /\ \A step, p : Handed(step, p, quit \/ token)' <=>
                       Handed(step, p, quit' \/ token)
  BY <1>4 DEF Running, Traced, Collecting, Resumable, Live, Handed
<1>11. WellFormed(sched)' BY <1>4 DEF SessionInv
<1>12. TypeOK'
  <2>1. log' \in LogType BY <1>6, <1>7, PayloadFields
  <2>2. /\ mode \in Modes /\ sched \in Scheduler
        /\ debugState \in [running : TaskId \cup {NoTask}, ready : Seq(TaskId),
                           tasks : [TaskId -> TaskState]]
        /\ {quit, token, driving} \subseteq BOOLEAN
    BY DEF SessionInv, TypeOK
  <2> QED BY <1>4, <1>8, <1>9, <2>1, <2>2 DEF TypeOK, CallType, LogType
<1>13. BudgetsHold'
  <2>1. \A t \in TaskId : task'[t].frames <= MaxCallDepth + 1
    BY <1>6, <1>8 DEF SessionInv, BudgetsHold
  <2>2. log'.output <= log'.bytes
    <3>1. /\ log.output \in Nat /\ log.bytes \in Nat /\ log.output <= log.bytes
          /\ c.log.output \in Nat /\ c.log.bytes \in Nat
      BY <1>6, PayloadFields, LogFields
      DEF SessionInv, TypeOK, BudgetsHold, LogType
    <3>2. c.log.bytes - log.bytes = c.log.output - log.output
      BY <1>6 DEF LogGrows
    <3> QED BY <1>7, <3>1, <3>2
  <2> QED BY <1>4, <1>6, <1>7, <2>1, <2>2 DEF BudgetsHold
<1>14. CallFollows'
  <2>1. call.reply = "None" /\ call.at # "idle"
    BY <1>1 DEF SessionInv, CallFollows
  <2>2. /\ Running' = call'.task /\ call'.task \in TaskId
        /\ call'.reply = "None" /\ call'.at \notin {"idle", "ended"}
        /\ task'[call'.task] = c.task
    BY <1>2, <1>8, <1>9, <1>10, <2>1
  <2>3. call'.at = "returning" =>
          Handed(call.step, task[call.task], quit \/ token)'
    BY <1>9, <1>10, <2>2 DEF Handed
  <2>4. call'.at = "checked" /\ Traced' => task'[call'.task].started
    BY <1>9, <1>10, <2>2
  <2> QED BY <1>9, <2>2, <2>3, <2>4 DEF CallFollows
<1>15. TasksFollow'
  <2> SUFFICES ASSUME NEW t \in TaskId
               PROVE (/\ ~Known(sched, t) => task[t].frames = 0 /\ ~task[t].started
                      /\ Live(t) /\ ~(call.at = "returning" /\ t = call.task) =>
                           Resumable(task[t])
                      /\ IsTerminal(sched, t) /\ ~(call.at = "ended" /\ t = call.task) =>
                           task[t].frames = 0
                      /\ sched.state[t] = "Completed" => task[t].result
                      /\ sched.state[t] = "Failed" => task[t].error # "None")'
    BY DEF TasksFollow
  <2>1. CASE t = Running
    BY <1>2, <1>4, <1>8, <1>9, <1>10, <2>1
    DEF Live, Known, IsTerminal, Terminal
  <2>2. CASE t # Running
    <3>1. task'[t] = task[t] BY <1>8, <2>2
    <3>2. /\ ~Known(sched, t) => task[t].frames = 0 /\ ~task[t].started
          /\ Live(t) => Resumable(task[t])
          /\ IsTerminal(sched, t) => task[t].frames = 0
          /\ sched.state[t] = "Completed" => task[t].result
          /\ sched.state[t] = "Failed" => task[t].error # "None"
      BY <1>1, <1>2, <2>2 DEF SessionInv, TasksFollow
    <3> QED BY <1>4, <1>10, <3>1, <3>2
  <2> QED BY <2>1, <2>2
<1>16. LogFollows'
  <2>1. /\ Sequenced(log) /\ Nested(log.trace)
        /\ \A i \in 1..Len(log.trace) : Known(sched, log.trace[i].task)
        /\ \A t \in TaskId : ~IsTerminal(sched, t) =>
             LeftAt(log.trace, t, task[t].stack)
    BY DEF SessionInv, LogFollows
  <2>2. Told(log.trace, Running, task[Running].stack)
    BY <1>2, <2>1 DEF Told, Live
  <2>3. /\ Sequenced(c.log) /\ Told(c.log.trace, Running, c.task.stack)
        /\ Collecting \/ c.log.trace = <<>>
    BY <1>6, <2>1, <2>2 DEF LogGrows, Quiet
  <2>4. \A i \in 1..Len(c.log.trace) : Known(sched, c.log.trace[i].task)
    BY <1>2, <1>6, <2>1 DEF LogGrows, Live
  <2>5. ASSUME NEW t \in TaskId, ~IsTerminal(sched, t)
        PROVE  LeftAt(c.log.trace, t, task'[t].stack)
    <3>1. CASE t = Running BY <1>8, <2>3, <3>1 DEF Told
    <3>2. CASE t # Running
      <4>1. task'[t] = task[t] /\ task[t].stack \in Nat
        BY <1>7, <1>8, <3>2 DEF Payload
      <4>2. LeftAt(log.trace, t, task[t].stack) BY <2>1, <2>5
      <4>3. t \in TaskId \ {Running} BY <3>2
      <4> QED BY <1>6, <4>1, <4>2, <4>3 DEF LogGrows
    <3> QED BY <3>1, <3>2
  <2> QED BY <1>4, <1>7, <1>10, <2>3, <2>4, <2>5 DEF LogFollows, Told
<1>17. FailFast' BY <1>9 DEF FailFast
<1>18. RepliesHonest'
  <2>1. call'.reply = "None" BY <1>1, <1>9 DEF SessionInv, CallFollows
  <2> QED BY <2>1 DEF RepliesHonest
<1>19. SnapshotExact' BY <1>1, <1>4 DEF SessionInv, SnapshotExact
<1> QED BY <1>11, <1>12, <1>13, <1>14, <1>15, <1>16, <1>17, <1>18, <1>19
        DEF SessionInv
-----------------------------------------------------------------------------
\* Between slices.

\* The payloads q are those of p with the frames of the ended tasks gone.
Released(s, p, q) ==
  /\ q \in [TaskId -> Payload]
  /\ \A t \in TaskId :
       /\ ~IsTerminal(s, t) => q[t] = p[t]
       /\ IsTerminal(s, t) => q[t].frames = 0
       /\ q[t].result = p[t].result /\ q[t].error = p[t].error

LEMMA ReleaseTerminalReleases ==
  ASSUME NEW s, NEW p \in [TaskId -> Payload]
  PROVE  Released(s, p, ReleaseTerminal(s, p))
<1> DEFINE q == ReleaseTerminal(s, p)
<1>1. ASSUME NEW t \in TaskId
      PROVE  /\ q[t] \in Payload
             /\ ~IsTerminal(s, t) => q[t] = p[t]
             /\ IsTerminal(s, t) => q[t].frames = 0
             /\ q[t].result = p[t].result /\ q[t].error = p[t].error
  <2>1. p[t] \in Payload OBVIOUS
  <2>2. CASE IsTerminal(s, t)
    <3> DEFINE r == [p[t] EXCEPT !.frames = 0, !.started = FALSE, !.stack = 0]
    <3>1. q[t] = r BY <2>2 DEF ReleaseTerminal
    <3>2. /\ r \in Payload /\ r.frames = 0
          /\ r.result = p[t].result /\ r.error = p[t].error
      BY <2>1 DEF Payload
    <3> HIDE DEF q, r
    <3> QED BY <2>2, <3>1, <3>2
  <2>3. CASE ~IsTerminal(s, t)
    <3>1. q[t] = p[t] BY <2>3 DEF ReleaseTerminal
    <3> HIDE DEF q
    <3> QED BY <2>1, <2>3, <3>1
  <2> QED BY <2>2, <2>3
<1>2. q \in [TaskId -> Payload] BY <1>1 DEF ReleaseTerminal
<1> QED BY <1>1, <1>2 DEF Released

\* An operation that leaves the session idle, spawns nothing and gives nobody
\* an outcome but a cancellation.
LEMMA IdleKeepsInv ==
  ASSUME SessionInv, call.at \in {"idle", "ended"},
         WellFormed(sched'), OnlyCancels(sched, sched'),
         Released(sched', task, task'),
         UNCHANGED <<mode, steps, elements, log, debugState, quit, token>>,
         driving' \in BOOLEAN,
         NEW t \in TaskId \cup {NoTask},
         NEW reply \in {"None", "Dispatched", "Waiting", "Complete"},
         call' = IdleCall(t, reply),
         FailFast', RepliesHonest'
  PROVE  SessionInv'
<1>1. /\ sched \in Scheduler /\ sched' \in Scheduler
      /\ Booked(sched) /\ Booked(sched')
  BY DEF SessionInv, WellFormed
<1>2. /\ call'.at = "idle" /\ call'.task = t /\ call'.reply = reply
      /\ call' \in CallType
  BY LimitsAssumption DEF IdleCall, CallType, TaskStep
<1>3. /\ Running = NoTask /\ Running' = NoTask
  BY DEF SessionInv, CallFollows, OnlyCancels, Running
<1>4. /\ Traced' = Traced /\ Collecting' = Collecting
      /\ \A p : Resumable(p)' <=> Resumable(p)
  BY DEF Traced, Collecting, Resumable
<1>5. \A u \in TaskId : /\ Known(sched', u) <=> Known(sched, u)
                        /\ ~IsTerminal(sched', u) => ~IsTerminal(sched, u)
                        /\ Live(u)' => Live(u) /\ task'[u] = task[u]
  BY <1>1 DEF OnlyCancels, Booked, Released, Live, IsTerminal
<1>6. TypeOK'
  <2>1. task' \in [TaskId -> Payload] BY DEF Released
  <2> QED BY <1>1, <1>2, <2>1 DEF SessionInv, TypeOK, CallType, LogType
<1>7. BudgetsHold'
  <2>1. ASSUME NEW u \in TaskId PROVE task'[u].frames <= MaxCallDepth + 1
    BY LimitsAssumption DEF Released, SessionInv, BudgetsHold
  <2> QED BY <2>1 DEF SessionInv, BudgetsHold
<1>8. CallFollows' BY <1>2, <1>3 DEF CallFollows
<1>9. ASSUME NEW u \in TaskId
      PROVE  (/\ ~Known(sched, u) => task[u].frames = 0 /\ ~task[u].started
              /\ Live(u) /\ ~(call.at = "returning" /\ u = call.task) =>
                   Resumable(task[u])
              /\ IsTerminal(sched, u) /\ ~(call.at = "ended" /\ u = call.task) =>
                   task[u].frames = 0
              /\ sched.state[u] = "Completed" => task[u].result
              /\ sched.state[u] = "Failed" => task[u].error # "None")'
  <2>1. /\ ~Known(sched, u) => task[u].frames = 0 /\ ~task[u].started
        /\ Live(u) => Resumable(task[u])
        /\ sched.state[u] = "Completed" => task[u].result
        /\ sched.state[u] = "Failed" => task[u].error # "None"
    BY DEF SessionInv, TasksFollow
  <2>2. ~Known(sched', u) => task'[u].frames = 0 /\ ~task'[u].started
    BY <1>5, <2>1 DEF Known, IsTerminal, Terminal, Released
  <2>3. Live(u)' => Resumable(task[u])'
    BY <1>5, <2>1 DEF Resumable, Traced
  <2>4. IsTerminal(sched', u) => task'[u].frames = 0 BY DEF Released
  <2>5. sched'.state[u] = "Completed" => task'[u].result
    BY <2>1 DEF OnlyCancels, Released
  <2>6. sched'.state[u] = "Failed" => task'[u].error # "None"
    BY <2>1 DEF OnlyCancels, Released
  <2> QED BY <2>2, <2>3, <2>4, <2>5, <2>6
<1>10. TasksFollow' BY <1>9 DEF TasksFollow
<1>11. LogFollows'
  <2>1. \A i \in 1..Len(log.trace) : log.trace[i].task \in TaskId
    <3>1. log \in LogType BY DEF SessionInv, TypeOK, LogType
    <3> QED BY <3>1, LogFields
  <2>2. \A u \in TaskId : ~IsTerminal(sched', u) =>
          LeftAt(log.trace, u, task'[u].stack)
    BY <1>5 DEF SessionInv, LogFollows, Released
  <2> QED BY <1>4, <1>5, <2>1, <2>2 DEF SessionInv, LogFollows
<1>12. SnapshotExact' BY <1>2 DEF SnapshotExact
<1> QED BY <1>6, <1>7, <1>8, <1>10, <1>11, <1>12 DEF SessionInv

\* A host call that reports nothing.
LEMMA QuietReply ==
  ASSUME call' = IdleCall(NoTask, "None")
  PROVE  FailFast' /\ RepliesHonest'
<1>1. call'.task = NoTask /\ call'.reply = "None" BY DEF IdleCall
<1> QED BY <1>1 DEF FailFast, RepliesHonest

\* wake, cancel and join.
LEMMA HostOperationKeepsInv ==
  ASSUME SessionInv, NEW t \in TaskId, NEW w \in TaskId,
         WakeTask(t) \/ CancelTask(t) \/ JoinTasks(w, t)
  PROVE  SessionInv'
<1>1. /\ call.at = "idle"
      /\ call' = IdleCall(NoTask, "None")
      /\ UNCHANGED <<mode, steps, elements, log, debugState, quit, token,
                     driving>>
  BY DEF WakeTask, CancelTask, JoinTasks, HostReady, SessionUnchanged
<1>2. /\ WellFormed(sched) /\ sched.running = NoTask
      /\ task \in [TaskId -> Payload] /\ driving \in BOOLEAN
  BY <1>1 DEF SessionInv, CallFollows, Running, TypeOK
<1>3. WellFormed(sched') /\ OnlyCancels(sched, sched')
  BY <1>2, WakeWellFormed, CancelWellFormed, JoinWellFormed, HostOnlyCancels
  DEF WakeTask, CancelTask, JoinTasks
<1>4. Released(sched', task, task')
  <2>1. CASE WakeTask(t) \/ CancelTask(t)
    <3>1. task' = ReleaseTerminal(sched', task)
      BY <2>1 DEF WakeTask, CancelTask
    <3> QED BY <1>2, <3>1, ReleaseTerminalReleases
  <2>2. CASE JoinTasks(w, t)
    <3>1. sched' = Join(sched, w, t) /\ task' = task BY <2>2 DEF JoinTasks
    <3>2. sched \in Scheduler BY <1>2 DEF WellFormed
    <3>3. \/ sched'.state = sched.state
          \/ sched'.state = [sched.state EXCEPT ![w] = "Blocked"]
      BY <3>1, <3>2 DEF Join, Scheduler
    <3>4. \A u \in TaskId : IsTerminal(sched', u) => IsTerminal(sched, u)
      BY <3>2, <3>3 DEF IsTerminal, Terminal, Scheduler
    <3>5. \A u \in TaskId : IsTerminal(sched, u) => task[u].frames = 0
      BY <1>1 DEF SessionInv, TasksFollow
    <3> QED BY <1>2, <3>1, <3>4, <3>5 DEF Released
  <2> QED BY <2>1, <2>2
<1>5. FailFast' /\ RepliesHonest' BY <1>1, QuietReply
<1> QED BY <1>1, <1>2, <1>3, <1>4, <1>5, IdleKeepsInv

\* dispatch found no ready task.
LEMMA StepFindsNoTaskKeepsInv ==
  ASSUME SessionInv, StepFindsNoTask
  PROVE  SessionInv'
<1> DEFINE reply == IF IsComplete(sched') THEN "Complete" ELSE "Waiting"
<1>1. /\ call.at = "idle" /\ ReadyPositions(sched) = {}
      /\ sched' = BeginDispatch(sched)
      /\ task' = ReleaseTerminal(sched', task)
      /\ call' = IdleCall(NoTask, reply)
      /\ driving' = FALSE
      /\ UNCHANGED <<mode, steps, elements, log, debugState, quit, token>>
  BY DEF StepFindsNoTask
<1>2. /\ WellFormed(sched) /\ sched.running = NoTask /\ sched \in Scheduler
      /\ task \in [TaskId -> Payload]
  BY <1>1 DEF SessionInv, CallFollows, Running, TypeOK
<1>3. WellFormed(sched') BY <1>1, <1>2, BeginDispatchWellFormed
<1>4. sched' = [sched EXCEPT !.ready = <<>>] BY <1>1 DEF BeginDispatch
<1>5. /\ sched'.state = sched.state /\ sched'.running = NoTask
      /\ sched'.nextTaskId = sched.nextTaskId /\ sched'.ready = <<>>
  BY <1>2, <1>4 DEF Scheduler
<1>6. OnlyCancels(sched, sched') BY <1>2, <1>5 DEF OnlyCancels
<1>7. Released(sched', task, task') BY <1>1, <1>2, ReleaseTerminalReleases
<1>8. call'.task = NoTask /\ call'.reply = reply BY <1>1 DEF IdleCall
<1>9. FailFast' BY <1>8 DEF FailFast
<1>10. RepliesHonest'
  <2>1. \A t \in TaskId : sched'.state[t] # "Ready"
    BY <1>3, <1>5, EmptyQueue DEF WellFormed, ReadyQueued
  <2>2. \A t \in TaskId : sched'.state[t] # "Running"
    BY <1>3, <1>5, NobodyIsATask DEF WellFormed, Booked
  <2>3. \A t \in TaskId : sched'.state[t] \in TaskState
    BY <1>3 DEF WellFormed, Scheduler
  <2>4. ~IsComplete(sched') => \E t \in TaskId : sched'.state[t] = "Blocked"
    BY <2>1, <2>2, <2>3 DEF IsComplete, Known, IsTerminal, TaskState
  <2> QED BY <1>8, <2>1, <2>4 DEF RepliesHonest
<1> HIDE DEF reply
<1>11. reply \in {"None", "Dispatched", "Waiting", "Complete"} BY DEF reply
<1> QED BY <1>1, <1>3, <1>6, <1>7, <1>9, <1>10, <1>11, IdleKeepsInv

\* The end of step: fail-fast, then the release of what ended.
LEMMA StepEndsKeepsInv ==
  ASSUME SessionInv, StepEnds
  PROVE  SessionInv'
<1> DEFINE t == call.task
           reply == IF quit THEN "Complete" ELSE "Dispatched"
<1>1. /\ call.at = "ended"
      /\ sched' = IF quit \/ FailFastNeeded
                    THEN CancelPendingExcept(sched, t) ELSE sched
      /\ task' = ReleaseTerminal(sched', task)
      /\ call' = IdleCall(t, reply)
      /\ driving' \in BOOLEAN
      /\ UNCHANGED <<mode, steps, elements, log, debugState, quit, token>>
  BY DEF StepEnds
<1>2. /\ WellFormed(sched) /\ sched.running = NoTask
      /\ task \in [TaskId -> Payload]
      /\ t \in TaskId
      /\ sched.state[t] = StateAfter(call.step)
      /\ Handed(call.step, task[t], quit \/ token)
      /\ call.step \in TaskStep
  BY <1>1 DEF SessionInv, CallFollows, Running, TypeOK
<1>3. /\ WellFormed(sched') /\ OnlyCancels(sched, sched')
  <2>1. CASE quit \/ FailFastNeeded
    BY <1>1, <1>2, <2>1, CancelPendingExceptWellFormed, CancelPendingOnlyCancels
  <2>2. CASE ~(quit \/ FailFastNeeded) BY <1>1, <1>2, <2>2 DEF OnlyCancels
  <2> QED BY <2>1, <2>2
<1>4. Released(sched', task, task') BY <1>1, <1>2, ReleaseTerminalReleases
<1>5. call'.task = t /\ call'.reply = reply BY <1>1 DEF IdleCall
<1>6. FailFast'
  <2> SUFFICES ASSUME sched'.state[t] \in {"Failed", "Cancelled"}
               PROVE  IsComplete(sched')
    BY <1>5 DEF FailFast
  <2>1. CASE quit \/ FailFastNeeded
    <3>1. sched' = CancelPendingExcept(sched, t) BY <1>1, <2>1
    <3>2. \A u \in TaskId \ {t} : sched'.state[u] \in Terminal \cup {"Absent"}
      BY <1>2, <3>1, CancelPendingExceptWellFormed
    <3> QED BY <3>2 DEF IsComplete, Known, IsTerminal, Terminal
  <2>2. CASE ~(quit \/ FailFastNeeded)
    <3>1. sched' = sched BY <1>1, <2>2
    <3>2. sched.state[t] = "Cancelled" /\ ~token /\ ~quit
      BY <2>2, <3>1 DEF FailFastNeeded
    <3>3. call.step = "Cancel" BY <1>2, <3>2 DEF StateAfter, TaskStep
    <3> QED BY <1>2, <3>2, <3>3 DEF Handed
  <2> QED BY <2>1, <2>2
<1>7. RepliesHonest'
  <2>1. quit' = quit BY <1>1
  <2> QED BY <1>5, <2>1 DEF RepliesHonest
<1> HIDE DEF reply
<1>8. reply \in {"None", "Dispatched", "Waiting", "Complete"} BY DEF reply
<1>9. t \in TaskId \cup {NoTask} BY <1>2
<1> HIDE DEF t
<1> QED BY <1>1, <1>3, <1>4, <1>6, <1>7, <1>8, <1>9, IdleKeepsInv

\* The snapshot for a debugger is taken of what dispatch is about to do.
LEMMA SnapshotOfNextDispatch ==
  ASSUME NEW s, WellFormed(s), s.running = NoTask, ReadyPositions(s) # {}
  PROVE  LET r == BeginDispatch(s) IN
         DebugState(s) = [running |-> r.running, ready |-> r.ready,
                          tasks |-> r.state]
<1>1. s \in Scheduler /\ ReadyQueued(s) /\ s.ready \in Seq(TaskId)
  BY DEF WellFormed, Scheduler
<1>2. Retain(s.ready, {t \in TaskId : s.state[t] = "Ready"}) = s.ready
  BY <1>1, RetainEverything DEF ReadyQueued
<1>3. DebugState(s) = IF s.ready = <<>> THEN NoDebugState
                      ELSE [running |-> Head(s.ready), ready |-> Tail(s.ready),
                            tasks |-> [s.state EXCEPT ![Head(s.ready)] = "Running"]]
  BY <1>2 DEF DebugState
<1> QED BY <1>3, BeginDispatchEffect

LEMMA StepBeginsKeepsInv ==
  ASSUME SessionInv, StepBegins
  PROVE  SessionInv'
<1> DEFINE h == Head(sched.ready)
<1>1. /\ call.at = "idle" /\ ReadyPositions(sched) # {}
      /\ debugState' = IF mode = "debug" THEN DebugState(sched) ELSE NoDebugState
      /\ sched' = BeginDispatch(sched)
      /\ call' = [at |-> "top", task |-> sched'.running, left |-> Quantum,
                  step |-> "Yield", reply |-> "None"]
      /\ UNCHANGED <<mode, task, steps, elements, log, quit, token, driving>>
  BY DEF StepBegins
<1>2. /\ WellFormed(sched) /\ sched.running = NoTask /\ sched \in Scheduler
  BY <1>1 DEF SessionInv, CallFollows, Running, TypeOK
<1>3. WellFormed(sched') BY <1>1, <1>2, BeginDispatchWellFormed
<1>4. /\ h \in TaskId /\ sched.state[h] = "Ready"
      /\ sched'.running = h
      /\ sched'.state = [sched.state EXCEPT ![h] = "Running"]
  BY <1>1, <1>2, BeginDispatchEffect
<1>5. sched' \in Scheduler BY <1>3 DEF WellFormed
<1> HIDE DEF h
<1>6. /\ call'.at = "top" /\ call'.task = h /\ call'.left = Quantum
      /\ call'.reply = "None" /\ call' \in CallType
  BY <1>1, <1>4, LimitsAssumption DEF CallType, TaskStep
<1>7. /\ \A t \in TaskId : /\ Known(sched', t) <=> Known(sched, t)
                           /\ IsTerminal(sched', t) <=> IsTerminal(sched, t)
                           /\ sched'.state[t] \in {"Completed", "Failed"} =>
                                sched.state[t] = sched'.state[t]
      /\ Traced' = Traced /\ Collecting' = Collecting
  BY <1>1, <1>2, <1>4
  DEF Known, IsTerminal, Terminal, Traced, Collecting, Scheduler
<1>8. debugState' \in [running : TaskId \cup {NoTask}, ready : Seq(TaskId),
                       tasks : [TaskId -> TaskState]]
      /\ SnapshotExact'
  <2>1. CASE mode = "debug"
    <3>1. debugState' = [running |-> sched'.running, ready |-> sched'.ready,
                         tasks |-> sched'.state]
      BY <1>1, <1>2, <2>1, SnapshotOfNextDispatch
    <3> QED BY <1>5, <3>1 DEF SnapshotExact, Scheduler
  <2>2. CASE mode # "debug"
    <3>1. debugState' = NoDebugState BY <1>1, <2>2
    <3> QED BY <1>1, <2>2, <3>1 DEF NoDebugState, SnapshotExact, TaskState
  <2> QED BY <2>1, <2>2
<1>9. TypeOK'
  BY <1>1, <1>5, <1>6, <1>8 DEF SessionInv, TypeOK, CallType, LogType
<1>10. BudgetsHold' BY <1>1 DEF SessionInv, BudgetsHold
<1>11. CallFollows'
  BY <1>4, <1>6, LimitsAssumption DEF CallFollows, Running
<1>12. TasksFollow'
  <2> SUFFICES ASSUME NEW t \in TaskId
               PROVE (/\ ~Known(sched, t) => task[t].frames = 0 /\ ~task[t].started
                      /\ Live(t) /\ ~(call.at = "returning" /\ t = call.task) =>
                           Resumable(task[t])
                      /\ IsTerminal(sched, t) /\ ~(call.at = "ended" /\ t = call.task) =>
                           task[t].frames = 0
                      /\ sched.state[t] = "Completed" => task[t].result
                      /\ sched.state[t] = "Failed" => task[t].error # "None")'
    BY DEF TasksFollow
  <2>1. /\ ~Known(sched, t) => task[t].frames = 0 /\ ~task[t].started
        /\ Live(t) => Resumable(task[t])
        /\ IsTerminal(sched, t) => task[t].frames = 0
        /\ sched.state[t] = "Completed" => task[t].result
        /\ sched.state[t] = "Failed" => task[t].error # "None"
    BY <1>1 DEF SessionInv, TasksFollow
  <2>2. Live(t)' => Resumable(task[t])'
    BY <1>1, <1>7, <2>1 DEF Resumable, Traced, Live
  <2> QED BY <1>1, <1>7, <2>1, <2>2
<1>13. LogFollows'
  <2>1. \A i \in 1..Len(log.trace) : log.trace[i].task \in TaskId
    <3>1. log \in LogType BY DEF SessionInv, TypeOK, LogType
    <3> QED BY <3>1, LogFields
  <2> QED BY <1>1, <1>7, <2>1 DEF SessionInv, LogFollows
<1>14. FailFast' /\ RepliesHonest' BY <1>6 DEF FailFast, RepliesHonest
<1> QED BY <1>3, <1>8, <1>9, <1>10, <1>11, <1>12, <1>13, <1>14 DEF SessionInv

LEMMA DispatchReturnsKeepsInv ==
  ASSUME SessionInv, DispatchReturns
  PROVE  SessionInv'
<1> SUFFICES ASSUME NEW h, h = sched.running PROVE SessionInv' OBVIOUS
<1>1. /\ call.at = "returning"
      /\ sched' = EndDispatch(sched, call.step)
      /\ call' = [call EXCEPT !.at = "ended"]
      /\ debugState' = NoDebugState
      /\ UNCHANGED <<mode, task, steps, elements, log, quit, token, driving>>
  BY DEF DispatchReturns
<1>2. /\ WellFormed(sched) /\ sched \in Scheduler
      /\ h = call.task /\ h \in TaskId /\ h # NoTask
      /\ call.reply = "None" /\ call \in CallType /\ call.step \in TaskStep
      /\ Handed(call.step, task[h], quit \/ token)
  BY <1>1, NobodyIsATask
  DEF SessionInv, CallFollows, Running, TypeOK, CallType
<1>3. WellFormed(sched') BY <1>1, <1>2, EndDispatchWellFormed
<1>4. /\ sched'.running = NoTask /\ sched'.nextTaskId = sched.nextTaskId
      /\ sched'.state[h] = StateAfter(call.step)
      /\ \A t \in TaskId \ {h} :
           \/ sched'.state[t] = sched.state[t]
           \/ sched.state[t] = "Blocked" /\ sched'.state[t] = "Ready"
  <2> DEFINE d == EndDispatch(sched, call.step)
  <2>1. WellFormed(sched) /\ sched.running # NoTask /\ call.step \in TaskStep
    BY <1>2
  <2>2. /\ d.running = NoTask /\ d.nextTaskId = sched.nextTaskId
        /\ d.state[sched.running] = StateAfter(call.step)
        /\ \A t \in TaskId \ {sched.running} :
             \/ d.state[t] = sched.state[t]
             \/ sched.state[t] = "Blocked" /\ d.state[t] = "Ready"
    BY <2>1, EndDispatchEffect
  <2> HIDE DEF d
  <2>3. sched' = d BY <1>1 DEF d
  <2> QED BY <2>2, <2>3
<1>5. /\ sched' \in Scheduler /\ sched.state[h] = "Running"
  BY <1>2, <1>3 DEF WellFormed, Booked
<1>6. /\ call'.at = "ended" /\ call'.task = h /\ call'.step = call.step
      /\ call'.reply = "None" /\ call' \in CallType
  BY <1>1, <1>2 DEF CallType
<1>7. /\ \A t \in TaskId \ {h} :
           /\ Known(sched', t) <=> Known(sched, t)
           /\ IsTerminal(sched', t) <=> IsTerminal(sched, t)
           /\ sched'.state[t] \in {"Completed", "Failed"} =>
                sched.state[t] = sched'.state[t]
      /\ Known(sched, h) /\ ~IsTerminal(sched, h)
      /\ Traced' = Traced /\ Collecting' = Collecting
  BY <1>1, <1>4, <1>5 DEF Known, IsTerminal, Terminal, Traced, Collecting
<1>8. Known(sched', h)
  BY <1>2, <1>4 DEF Known, StateAfter, TaskStep
<1>9. NoDebugState \in [running : TaskId \cup {NoTask}, ready : Seq(TaskId),
                        tasks : [TaskId -> TaskState]]
  BY DEF NoDebugState, TaskState
<1>10. TypeOK'
  BY <1>1, <1>5, <1>6, <1>9 DEF SessionInv, TypeOK, CallType, LogType
<1>11. BudgetsHold' BY <1>1 DEF SessionInv, BudgetsHold
<1>12. Handed(call.step, task[call.task], quit \/ token)'
  BY <1>1, <1>2, <1>6, <1>7 DEF Handed, Resumable
<1>13. CallFollows'
  BY <1>2, <1>4, <1>6, <1>12 DEF CallFollows, Running
<1>14. TasksFollow'
  <2> SUFFICES ASSUME NEW t \in TaskId
               PROVE (/\ ~Known(sched, t) => task[t].frames = 0 /\ ~task[t].started
                      /\ Live(t) /\ ~(call.at = "returning" /\ t = call.task) =>
                           Resumable(task[t])
                      /\ IsTerminal(sched, t) /\ ~(call.at = "ended" /\ t = call.task) =>
                           task[t].frames = 0
                      /\ sched.state[t] = "Completed" => task[t].result
                      /\ sched.state[t] = "Failed" => task[t].error # "None")'
    BY DEF TasksFollow
  <2>1. CASE t = h
    <3>1. call.step # "Block" BY <1>2 DEF Handed
    <3>2. ~IsTerminal(sched', h) => call.step = "Yield"
      BY <1>2, <1>4, <3>1 DEF IsTerminal, Terminal, StateAfter, TaskStep
    <3>3. call.step = "Yield" => Resumable(task[h])
      BY <1>2 DEF Handed
    <3>4. Live(h)' => Resumable(task[h])'
      BY <1>1, <3>2, <3>3 DEF Live, Resumable, Traced
    <3>5. /\ sched'.state[h] = "Completed" => task[h].result
          /\ sched'.state[h] = "Failed" => task[h].error # "None"
      BY <1>2, <1>4 DEF StateAfter, TaskStep, Handed
    <3> QED BY <1>1, <1>6, <1>8, <2>1, <3>4, <3>5
  <2>2. CASE t # h
    <3>1. /\ ~Known(sched, t) => task[t].frames = 0 /\ ~task[t].started
          /\ Live(t) => Resumable(task[t])
          /\ IsTerminal(sched, t) => task[t].frames = 0
          /\ sched.state[t] = "Completed" => task[t].result
          /\ sched.state[t] = "Failed" => task[t].error # "None"
      BY <1>1, <1>2, <2>2 DEF SessionInv, TasksFollow
    <3>2. Live(t)' => Resumable(task[t])'
      BY <1>1, <1>7, <2>2, <3>1 DEF Resumable, Traced, Live
    <3> QED BY <1>1, <1>7, <2>2, <3>1, <3>2
  <2> QED BY <2>1, <2>2
<1>15. LogFollows'
  <2>1. \A i \in 1..Len(log.trace) : log.trace[i].task \in TaskId
    <3>1. log \in LogType BY DEF SessionInv, TypeOK, LogType
    <3> QED BY <3>1, LogFields
  <2>2. \A t \in TaskId : /\ Known(sched, t) => Known(sched', t)
                          /\ ~IsTerminal(sched', t) => ~IsTerminal(sched, t)
    BY <1>7, <1>8
  <2> QED BY <1>1, <1>7, <2>1, <2>2 DEF SessionInv, LogFollows
<1>16. FailFast' /\ RepliesHonest' /\ SnapshotExact'
  BY <1>6 DEF FailFast, RepliesHonest, SnapshotExact
<1> QED BY <1>3, <1>10, <1>11, <1>13, <1>14, <1>15, <1>16 DEF SessionInv

LEMMA SpawnTaskKeepsInv ==
  ASSUME SessionInv, SpawnTask
  PROVE  SessionInv'
<1> DEFINE n == sched.nextTaskId
<1>1. /\ call.at = "idle"
      /\ sched' = Spawn(sched)
      /\ task' = IF sched'.nextTaskId = n THEN task ELSE [task EXCEPT ![n] = NewTask]
      /\ call' = IdleCall(NoTask, "None")
      /\ UNCHANGED <<mode, steps, elements, log, debugState, quit, token,
                     driving>>
  BY DEF SpawnTask, HostReady, SessionUnchanged
<1>2. /\ WellFormed(sched) /\ sched \in Scheduler /\ Running = NoTask
      /\ task \in [TaskId -> Payload]
  BY <1>1 DEF SessionInv, CallFollows, TypeOK
<1>3. WellFormed(sched') /\ sched' \in Scheduler
  BY <1>1, <1>2, SpawnWellFormed DEF WellFormed
<1>4. /\ call'.at = "idle" /\ call'.task = NoTask /\ call'.reply = "None"
      /\ call' \in CallType
  BY <1>1, LimitsAssumption DEF IdleCall, CallType, TaskStep
<1>5. /\ Traced' = Traced /\ Collecting' = Collecting
  BY <1>1 DEF Traced, Collecting
<1>6. /\ NewTask \in Payload /\ NewTask.frames = 1 /\ NewTask.stack = 0
      /\ ~NewTask.started
  BY DEF NewTask, NoPayload, Payload
<1>7. /\ sched'.running = sched.running
      /\ \/ sched'.state = sched.state /\ task' = task
         \/ /\ n \in TaskId /\ sched.state[n] = "Absent"
            /\ sched'.state = [sched.state EXCEPT ![n] = "Ready"]
            /\ task' = [task EXCEPT ![n] = NewTask]
  <2>1. CASE n = MaxTaskId BY <1>1, <2>1 DEF Spawn
  <2>2. CASE n # MaxTaskId
    <3>1. n \in TaskId /\ sched.state[n] = "Absent" /\ n \in Nat
      BY <1>2, <2>2, MaxTaskIdAssumption
      DEF WellFormed, Scheduler, TaskId, Booked, Known
    <3>2. /\ sched'.nextTaskId = n + 1
          /\ sched'.running = sched.running
          /\ sched'.state = [sched.state EXCEPT ![n] = "Ready"]
      BY <1>1, <1>2, <2>2 DEF Spawn, Scheduler
    <3>3. sched'.nextTaskId # n BY <3>1, <3>2
    <3> QED BY <1>1, <3>1, <3>2, <3>3
  <2> QED BY <2>1, <2>2
<1> HIDE DEF n
\* What the spawn is to a task: it is the new one, or nothing changed for it.
<1>8. ASSUME NEW t \in TaskId
      PROVE  \/ sched'.state[t] = sched.state[t] /\ task'[t] = task[t]
             \/ /\ sched.state[t] = "Absent" /\ sched'.state[t] = "Ready"
                /\ task'[t] = NewTask
  BY <1>2, <1>7 DEF Scheduler
<1>9. TypeOK'
  <2>1. task' \in [TaskId -> Payload] BY <1>2, <1>6, <1>7
  <2> QED BY <1>1, <1>3, <1>4, <2>1 DEF SessionInv, TypeOK, CallType, LogType
<1>10. BudgetsHold'
  <2>1. ASSUME NEW t \in TaskId PROVE task'[t].frames <= MaxCallDepth + 1
    <3>1. task[t].frames <= MaxCallDepth + 1 BY DEF SessionInv, BudgetsHold
    <3>2. 1 <= MaxCallDepth + 1 BY LimitsAssumption
    <3> QED BY <1>6, <1>8, <3>1, <3>2
  <2> QED BY <1>1, <2>1 DEF SessionInv, BudgetsHold
<1>11. CallFollows' BY <1>2, <1>4, <1>7 DEF CallFollows, Running
<1>12. TasksFollow'
  <2> SUFFICES ASSUME NEW t \in TaskId
               PROVE (/\ ~Known(sched, t) => task[t].frames = 0 /\ ~task[t].started
                      /\ Live(t) /\ ~(call.at = "returning" /\ t = call.task) =>
                           Resumable(task[t])
                      /\ IsTerminal(sched, t) /\ ~(call.at = "ended" /\ t = call.task) =>
                           task[t].frames = 0
                      /\ sched.state[t] = "Completed" => task[t].result
                      /\ sched.state[t] = "Failed" => task[t].error # "None")'
    BY DEF TasksFollow
  <2>1. /\ ~Known(sched, t) => task[t].frames = 0 /\ ~task[t].started
        /\ Live(t) => Resumable(task[t])
        /\ IsTerminal(sched, t) => task[t].frames = 0
        /\ sched.state[t] = "Completed" => task[t].result
        /\ sched.state[t] = "Failed" => task[t].error # "None"
    BY <1>1 DEF SessionInv, TasksFollow
  <2>2. CASE sched'.state[t] = sched.state[t] /\ task'[t] = task[t]
    <3>1. Live(t)' => Resumable(task[t])'
      BY <1>5, <2>1, <2>2 DEF Resumable, Live, Known, IsTerminal
    <3> QED BY <2>1, <2>2, <3>1 DEF Known, IsTerminal
  <2>3. CASE sched'.state[t] = "Ready" /\ task'[t] = NewTask
    <3>1. Resumable(task[t])' BY <1>6, <2>3 DEF Resumable
    <3> QED BY <2>3, <3>1 DEF Known, IsTerminal, Terminal
  <2> QED BY <1>8, <2>2, <2>3
<1>13. LogFollows'
  <2>1. \A i \in 1..Len(log.trace) : log.trace[i].task \in TaskId
    <3>1. log \in LogType BY DEF SessionInv, TypeOK, LogType
    <3> QED BY <3>1, LogFields
  <2>2. \A i \in 1..Len(log.trace) : Known(sched, log.trace[i].task)
    BY DEF SessionInv, LogFollows
  <2>3. \A i \in 1..Len(log.trace) : Known(sched', log.trace[i].task)
    BY <1>8, <2>1, <2>2 DEF Known
  <2>4. ASSUME NEW t \in TaskId, ~IsTerminal(sched', t)
        PROVE  LeftAt(log.trace, t, task'[t].stack)
    <3>1. CASE sched'.state[t] = sched.state[t] /\ task'[t] = task[t]
      BY <2>4, <3>1 DEF SessionInv, LogFollows, IsTerminal
    <3>2. CASE sched.state[t] = "Absent"
      BY <2>2, <3>2 DEF LeftAt, Known
    <3> QED BY <1>8, <3>1, <3>2
  <2> QED BY <1>1, <1>5, <2>3, <2>4 DEF SessionInv, LogFollows
<1>14. FailFast' /\ RepliesHonest' BY <1>1, QuietReply
<1>15. SnapshotExact' BY <1>4 DEF SnapshotExact
<1> QED BY <1>3, <1>9, <1>10, <1>11, <1>12, <1>13, <1>14, <1>15 DEF SessionInv

\* Draining: the events taken are gone, their numbers and bytes are not
\* given back.
LEMMA DrainKeepsInv ==
  ASSUME SessionInv, TakeOutput \/ TakeOutputEvents \/ TakeTraceEvents
  PROVE  SessionInv'
<1>1. /\ call.at = "idle"
      /\ call' = IdleCall(NoTask, "None")
      /\ UNCHANGED <<mode, sched, task, steps, elements, debugState, quit,
                     token, driving>>
      /\ \/ log' = [log EXCEPT !["output"] = 0]
         \/ log' = [log EXCEPT !["chunks"] = <<>>]
         \/ log' = [log EXCEPT !["trace"] = <<>>]
  BY DEF TakeOutput, TakeOutputEvents, TakeTraceEvents, Drain, HostReady,
         SessionUnchanged
<1>2. log \in LogType BY DEF SessionInv, TypeOK, LogType
<1>3. /\ log' \in LogType /\ log'.next = log.next /\ log'.bytes = log.bytes
      /\ log'.output = log.output \/ log'.output = 0
      /\ log'.chunks = log.chunks \/ log'.chunks = <<>>
      /\ log'.trace = log.trace \/ log'.trace = <<>>
  <2>1. <<>> \in Seq(Event) /\ <<>> \in Seq(TraceEvent) OBVIOUS
  <2>2. CASE log' = [log EXCEPT !["output"] = 0]
    <3>1. /\ log'.next = log.next /\ log'.bytes = log.bytes
          /\ log'.output = 0
          /\ log'.chunks = log.chunks /\ log'.trace = log.trace
      BY <1>2, <2>2 DEF LogType
    <3>2. [log EXCEPT !["output"] = 0] \in LogType
      BY <1>2, <2>1 DEF LogType
    <3>3. log' \in LogType BY <2>2, <3>2
    <3> QED BY <3>1, <3>3
  <2>3. CASE log' = [log EXCEPT !["chunks"] = <<>>]
    <3>1. /\ log'.next = log.next /\ log'.bytes = log.bytes
          /\ log'.output = log.output
          /\ log'.chunks = <<>> /\ log'.trace = log.trace
      BY <1>2, <2>3 DEF LogType
    <3>2. [log EXCEPT !["chunks"] = <<>>] \in LogType
      BY <1>2, <2>1 DEF LogType
    <3>3. log' \in LogType BY <2>3, <3>2
    <3> QED BY <3>1, <3>3
  <2>4. CASE log' = [log EXCEPT !["trace"] = <<>>]
    <3>1. /\ log'.next = log.next /\ log'.bytes = log.bytes
          /\ log'.output = log.output
          /\ log'.chunks = log.chunks /\ log'.trace = <<>>
      BY <1>2, <2>4 DEF LogType
    <3>2. [log EXCEPT !["trace"] = <<>>] \in LogType
      BY <1>2, <2>1 DEF LogType
    <3>3. log' \in LogType BY <2>4, <3>2
    <3> QED BY <3>1, <3>3
  <2> QED BY <1>1, <2>2, <2>3, <2>4
<1>4. /\ call'.at = "idle" /\ call'.task = NoTask /\ call'.reply = "None"
      /\ call' \in CallType
  BY <1>1, LimitsAssumption DEF IdleCall, CallType, TaskStep
<1>5. Running = NoTask BY <1>1 DEF SessionInv, CallFollows
<1>6. WellFormed(sched)' BY <1>1 DEF SessionInv
<1>7. TypeOK' BY <1>1, <1>3, <1>4 DEF SessionInv, TypeOK, CallType, LogType
<1>8. BudgetsHold'
  <2>1. log.bytes \in Nat /\ log.output \in Nat BY <1>2, LogFields
  <2> QED BY <1>1, <1>3, <2>1 DEF SessionInv, BudgetsHold
<1>9. CallFollows' BY <1>1, <1>4, <1>5 DEF CallFollows, Running
<1>10. TasksFollow'
  BY <1>1, <1>4 DEF SessionInv, TasksFollow, Live, Resumable, Traced
<1>11. LogFollows'
  <2>1. Sequenced(log') BY <1>3 DEF SessionInv, LogFollows, Sequenced
  <2>2. /\ Nested(log'.trace)
        /\ \A t \in TaskId : ~IsTerminal(sched, t) =>
             LeftAt(log'.trace, t, task[t].stack)
        /\ \A i \in 1..Len(log'.trace) : Known(sched, log'.trace[i].task)
        /\ Collecting \/ log'.trace = <<>>
    <3>1. CASE log'.trace = log.trace BY <3>1 DEF SessionInv, LogFollows
    <3>2. CASE log'.trace = <<>> BY <3>2 DEF Nested, LeftAt
    <3> QED BY <1>3, <3>1, <3>2
  <2> QED BY <1>1, <2>1, <2>2 DEF LogFollows, Collecting
<1>12. FailFast' /\ RepliesHonest' BY <1>1, QuietReply
<1>13. SnapshotExact' BY <1>4 DEF SnapshotExact
<1> QED BY <1>6, <1>7, <1>8, <1>9, <1>10, <1>11, <1>12, <1>13 DEF SessionInv

\* Setting the token, starting to drive, or doing nothing.
LEMMA FlagsKeepInv ==
  ASSUME SessionInv,
         UNCHANGED <<mode, sched, task, call, steps, elements, log, debugState,
                     quit>>,
         token' \in BOOLEAN, token => token', driving' \in BOOLEAN
  PROVE  SessionInv'
<1>1. WellFormed(sched)' BY DEF SessionInv
<1>2. TypeOK' BY DEF SessionInv, TypeOK
<1>3. BudgetsHold' BY DEF SessionInv, BudgetsHold
<1>4. CallFollows'
  BY DEF SessionInv, CallFollows, Running, Traced, Handed, Resumable
<1>5. TasksFollow'
  BY DEF SessionInv, TasksFollow, Live, Resumable, Traced
<1>6. LogFollows' BY DEF SessionInv, LogFollows, Collecting
<1>7. FailFast' /\ RepliesHonest' /\ SnapshotExact'
  BY DEF SessionInv, FailFast, RepliesHonest, SnapshotExact
<1> QED BY <1>1, <1>2, <1>3, <1>4, <1>5, <1>6, <1>7 DEF SessionInv

\* Every step of the session keeps the invariant.
LEMMA NextKeepsInv == SessionInv /\ [Next]_vars => SessionInv'
<1> SUFFICES ASSUME SessionInv, [Next]_vars PROVE SessionInv' OBVIOUS
<1>1. CASE StepBegins BY <1>1, StepBeginsKeepsInv
<1>2. CASE StepFindsNoTask BY <1>2, StepFindsNoTaskKeepsInv
<1>3. CASE SliceStep BY <1>3, SliceKeepsInv
<1>4. CASE DispatchReturns BY <1>4, DispatchReturnsKeepsInv
<1>5. CASE StepEnds BY <1>5, StepEndsKeepsInv
<1>6. CASE SpawnTask BY <1>6, SpawnTaskKeepsInv
<1>7. CASE \E t \in TaskId : WakeTask(t) BY <1>7, HostOperationKeepsInv
<1>8. CASE \E t \in TaskId : CancelTask(t) BY <1>8, HostOperationKeepsInv
<1>9. CASE \E w, t \in TaskId : JoinTasks(w, t) BY <1>9, HostOperationKeepsInv
<1>10. CASE TakeOutput \/ TakeOutputEvents \/ TakeTraceEvents
  BY <1>10, DrainKeepsInv
<1>11. {quit, token, driving} \subseteq BOOLEAN BY DEF SessionInv, TypeOK
<1>12. CASE RunUntilWaiting
  BY <1>11, <1>12, FlagsKeepInv DEF RunUntilWaiting
<1>13. CASE TokenCancelled
  BY <1>11, <1>13, FlagsKeepInv DEF TokenCancelled
<1>14. CASE UNCHANGED vars BY <1>11, <1>14, FlagsKeepInv DEF vars
<1> QED BY <1>1, <1>2, <1>3, <1>4, <1>5, <1>6, <1>7, <1>8, <1>9, <1>10, <1>12,
           <1>13, <1>14 DEF Next, HostCall

\* Every reachable state of a session satisfies the inductive invariant.
THEOREM SessionInvariant == Spec => []SessionInv
<1>1. Init => SessionInv BY InitEstablishes
<1>2. SessionInv /\ [Next]_vars => SessionInv' BY NextKeepsInv
<1> QED BY <1>1, <1>2, PTL DEF Spec
-----------------------------------------------------------------------------
\* The theorems.

\* The session's fields keep their types, and its budgets for instructions,
\* elements, output bytes and call depth hold, whatever the slices do and
\* however often the host drains the output.
THEOREM BudgetsAlwaysHold == Spec => []Budgeted
<1>1. SessionInv => Budgeted BY DEF SessionInv, Budgeted
<1> QED BY <1>1, SessionInvariant, PTL

\* A step that ran a task into failure, or into a cancellation by the token or
\* the debugger, ends everyone, and exactly the live tasks own frames.
THEOREM FailureEndsEveryone == Spec => []FailFastReleases
<1>1. SessionInv => FailFastReleases
  <2> SUFFICES ASSUME SessionInv PROVE FailFastReleases OBVIOUS
  <2>1. ASSUME call.at = "idle", NEW t \in TaskId
        PROVE  task[t].frames > 0 <=> Known(sched, t) /\ ~IsTerminal(sched, t)
    <3>1. /\ ~Known(sched, t) => task[t].frames = 0
          /\ Live(t) => task[t].frames > 0
          /\ IsTerminal(sched, t) => task[t].frames = 0
      BY <2>1 DEF SessionInv, TasksFollow, Resumable
    <3> QED BY <3>1 DEF Live
  <2> QED BY <2>1 DEF FailFastReleases, FramesReleased, SessionInv
<1> QED BY <1>1, SessionInvariant, PTL

\* Waiting and Complete are answered only when they are so, and a debugger
\* pause shows the scheduler as it is.
THEOREM RepliesAreHonest == Spec => []RepliesExact
<1>1. SessionInv => RepliesExact BY DEF SessionInv, RepliesExact
<1> QED BY <1>1, SessionInvariant, PTL

\* Output and trace draw on one sequence, and a number is in both lists only
\* for an output and its own trace record.
THEOREM OneSequence == Spec => []SequenceShared
<1>1. SessionInv => SequenceShared
  BY DEF SessionInv, LogFollows, Sequenced, SequenceShared
<1> QED BY <1>1, SessionInvariant, PTL

\* The events of every task are well nested, whatever other tasks emitted in
\* between, and its trace stack is its frame stack.
THEOREM TracesAreExact == Spec => []TraceExact
<1>1. SessionInv => TraceNested
  BY DEF SessionInv, LogFollows, Nested, LastBefore, TraceNested
<1>2. SessionInv => TraceMirrorsFrames
  <2> SUFFICES ASSUME SessionInv, NEW t \in TaskId, task[t].started,
                      ~IsTerminal(sched, t), call.at # "returning"
               PROVE  task[t].stack = task[t].frames
    BY DEF TraceMirrorsFrames
  <2>1. Resumable(task[t]) BY DEF SessionInv, TasksFollow, Live
  <2> QED BY <2>1 DEF Resumable
<1> QED BY <1>1, <1>2, SessionInvariant, PTL DEF TraceExact

\* What a step of the session does to its scheduler.
LEMMA StepOnScheduler ==
  ASSUME SessionInv, [Next]_vars
  PROVE  \/ sched' = sched
         \/ /\ sched.running = NoTask
            /\ \/ sched' = Spawn(sched)
               \/ sched' = BeginDispatch(sched)
               \/ \E t \in TaskId : \/ sched' = Wake(sched, t)
                                    \/ sched' = Cancel(sched, t)
               \/ \E w, t \in TaskId : sched' = Join(sched, w, t)
               \/ \E t \in TaskId : /\ Known(sched, t)
                                    /\ sched' = CancelPendingExcept(sched, t)
         \/ /\ sched.running # NoTask
            /\ \E step \in TaskStep : sched' = EndDispatch(sched, step)
<1>1. call.at \in {"idle", "ended"} => sched.running = NoTask
  BY DEF SessionInv, CallFollows, Running
<1>2. CASE StepBegins \/ StepFindsNoTask
  BY <1>1, <1>2 DEF StepBegins, StepFindsNoTask
<1>3. CASE SliceStep
  <2>1. call.at \in {"top", "checked"} BY <1>3, SliceStepAt
  <2>2. SliceEffect BY <1>3, <2>1, SliceIsReady, SliceStepEffect
  <2> QED BY <2>2 DEF SliceEffect
<1>4. CASE DispatchReturns
  <2>1. sched.running \in TaskId /\ call.step \in TaskStep
    BY <1>4 DEF DispatchReturns, SessionInv, CallFollows, Running, TypeOK
  <2> QED BY <1>4, <2>1, NobodyIsATask DEF DispatchReturns
<1>5. CASE StepEnds
  <2>1. /\ call.task \in TaskId /\ sched.state[call.task] = StateAfter(call.step)
        /\ call.step \in TaskStep
    BY <1>5 DEF StepEnds, SessionInv, CallFollows, TypeOK
  <2>2. Known(sched, call.task)
    BY <2>1 DEF Known, StateAfter, TaskStep
  <2> QED BY <1>1, <1>5, <2>1, <2>2 DEF StepEnds
<1>6. CASE SpawnTask
  BY <1>1, <1>6 DEF SpawnTask, HostReady
<1>7. CASE \E t \in TaskId : WakeTask(t) \/ CancelTask(t)
  BY <1>1, <1>7 DEF WakeTask, CancelTask, HostReady
<1>8. CASE \E w, t \in TaskId : JoinTasks(w, t)
  BY <1>1, <1>8 DEF JoinTasks, HostReady
<1>9. CASE \/ TakeOutput \/ TakeOutputEvents \/ TakeTraceEvents
           \/ RunUntilWaiting \/ TokenCancelled \/ UNCHANGED vars
  BY <1>9 DEF TakeOutput, TakeOutputEvents, TakeTraceEvents, Drain,
              RunUntilWaiting, TokenCancelled, vars
<1> QED BY <1>2, <1>3, <1>4, <1>5, <1>6, <1>7, <1>8, <1>9 DEF Next, HostCall

\* task_outcome never meets a terminal task without its value or error, and an
\* outcome once reported stays.
THEOREM OutcomesStay == Spec => OutcomesKept
<1> DEFINE Kept == \A t \in TaskId : /\ TaskOutcome(t)' # "MissingOutcome"
                                     /\ TaskOutcome(t) # "None" =>
                                          TaskOutcome(t)' = TaskOutcome(t)
<1>1. ASSUME SessionInv, [Next]_vars PROVE Kept
  <2>1. SessionInv' BY <1>1, NextKeepsInv
  <2>2. Keeps(sched, sched')
    <3>1. WellFormed(sched) BY <1>1 DEF SessionInv
    <3>2. Keeps(sched, sched) BY DEF Keeps
    <3> QED BY <1>1, <3>1, <3>2, StepOnScheduler, OperationsKeep
  <2> TAKE t \in TaskId
  <2>3. TaskOutcome(t) = IF IsTerminal(sched, t) THEN sched.state[t] ELSE "None"
    BY <1>1 DEF SessionInv, TasksFollow, TaskOutcome, IsTerminal, Terminal
  <2>4. TaskOutcome(t)' =
          IF IsTerminal(sched', t) THEN sched'.state[t] ELSE "None"
    BY <2>1 DEF SessionInv, TasksFollow, TaskOutcome, IsTerminal, Terminal
  <2> QED BY <2>2, <2>3, <2>4 DEF Keeps, IsTerminal, Terminal
<1> QED BY <1>1, SessionInvariant, PTL DEF Spec, OutcomesKept

\* Once the token is set no step is charged and nothing is allocated; except
\* by an instruction already past its checkpoint nothing is printed and no
\* frame is entered.
THEOREM TokenStopsWork == Spec => CancelObserved
<1> DEFINE Stops ==
      token => /\ steps' = steps /\ elements' = elements
               /\ call.at # "checked" => /\ log'.bytes = log.bytes
                                         /\ \A t \in TaskId :
                                              task'[t].frames > task[t].frames
                                                => call.at = "idle"
<1>1. ASSUME SessionInv, [Next]_vars PROVE Stops
  <2> SUFFICES ASSUME token PROVE Stops OBVIOUS
  <2>1. task \in [TaskId -> Payload] /\ \A t \in TaskId : task[t].frames \in Nat
    BY <1>1, PayloadFields DEF SessionInv, TypeOK, Payload
  <2>2. CASE SliceStep
    <3>1. call.at \in {"top", "checked"} BY <2>2, SliceStepAt
    <3>2. InSlice /\ Running \in TaskId
      BY <1>1, <3>1, SliceIsReady DEF InSlice
    <3>3. SliceEffect BY <2>2, <3>2, SliceStepEffect
    <3>4. PICK c : Left(c) /\ Keep(c) BY <3>3 DEF SliceEffect
    <3>5. steps' = steps /\ elements' = elements BY <3>3 DEF SliceEffect
    <3>6. ASSUME call.at = "top"
          PROVE  /\ log'.bytes = log.bytes
                 /\ \A t \in TaskId : ~(task'[t].frames > task[t].frames)
      <4>1. c.log.bytes = log.bytes /\ c.task.frames <= task[Running].frames
        BY <3>4, <3>6 DEF Left
      <4>2. /\ log' = c.log /\ task'[Running] = c.task
            /\ \A t \in TaskId \ {Running} : task'[t] = task[t]
        BY <2>1, <3>2, <3>4 DEF Keep
      <4>3. c.task.frames \in Nat
        BY <3>4, PayloadFields DEF Left, ContextType, Payload
      <4> QED BY <2>1, <4>1, <4>2, <4>3
    <3> QED BY <3>1, <3>5, <3>6
  <2>3. CASE StepFindsNoTask \/ StepEnds \/ \E t \in TaskId : WakeTask(t) \/ CancelTask(t)
    <3>1. /\ task' = ReleaseTerminal(sched', task)
          /\ UNCHANGED <<steps, elements, log>>
      BY <2>3 DEF StepFindsNoTask, StepEnds, WakeTask, CancelTask,
                  SessionUnchanged
    <3>2. Released(sched', task, task')
      BY <2>1, <3>1, ReleaseTerminalReleases
    <3>3. \A t \in TaskId : ~(task'[t].frames > task[t].frames)
      BY <2>1, <3>2 DEF Released
    <3> QED BY <3>1, <3>3
  <2>4. CASE SpawnTask BY <2>4 DEF SpawnTask, HostReady, SessionUnchanged
  <2>5. CASE \/ StepBegins \/ DispatchReturns
             \/ \E w, t \in TaskId : JoinTasks(w, t)
             \/ RunUntilWaiting \/ TokenCancelled \/ UNCHANGED vars
    <3>1. UNCHANGED <<steps, elements, log, task>>
      BY <2>5 DEF StepBegins, DispatchReturns, JoinTasks, SessionUnchanged,
                  RunUntilWaiting, TokenCancelled, vars
    <3> QED BY <2>1, <3>1
  <2>6. CASE TakeOutput \/ TakeOutputEvents \/ TakeTraceEvents
    <3>1. /\ UNCHANGED <<steps, elements, task>> /\ call.at = "idle"
          /\ \/ log' = [log EXCEPT !["output"] = 0]
             \/ log' = [log EXCEPT !["chunks"] = <<>>]
             \/ log' = [log EXCEPT !["trace"] = <<>>]
      BY <2>6 DEF TakeOutput, TakeOutputEvents, TakeTraceEvents, Drain,
                  HostReady, SessionUnchanged
    <3>2. log'.bytes = log.bytes
      BY <1>1, <3>1 DEF SessionInv, TypeOK
    <3> QED BY <2>1, <3>1, <3>2
  <2> QED BY <1>1, <2>2, <2>3, <2>4, <2>5, <2>6 DEF Next, HostCall
<1> QED BY <1>1, SessionInvariant, PTL DEF Spec, CancelObserved

\* Draining gives nothing back: a new event has a number never used before and
\* is of the dispatched task, and the bytes charged are the bytes written.
THEOREM CountingSurvivesDrains == Spec => DrainKeepsCounting
<1> DEFINE Counts ==
      /\ \A i \in (Len(log.trace) + 1)..Len(log'.trace) :
           log'.trace[i].sequence >= log.next /\ log'.trace[i].task = Running
      /\ \A i \in (Len(log.chunks) + 1)..Len(log'.chunks) :
           log'.chunks[i].sequence >= log.next /\ log'.chunks[i].task = Running
      /\ log'.next >= log.next
      /\ log'.bytes - log.bytes =
           IF log'.output > log.output THEN log'.output - log.output ELSE 0
<1>1. ASSUME SessionInv, [Next]_vars PROVE Counts
  <2>1. log \in LogType BY <1>1 DEF SessionInv, TypeOK, LogType
  <2>2. /\ log.next \in Nat /\ log.bytes \in Nat /\ log.output \in Nat
        /\ Len(log.trace) \in Nat /\ Len(log.chunks) \in Nat
    BY <2>1, LogFields DEF LogType
  <2>3. CASE SliceStep
    <3>1. call.at \in {"top", "checked"} BY <2>3, SliceStepAt
    <3>2. InSlice BY <1>1, <3>1, SliceIsReady
    <3>3. SliceEffect BY <2>3, <3>2, SliceStepEffect
    <3>4. PICK c : Left(c) /\ Keep(c) BY <3>3 DEF SliceEffect
    <3>5. log' = c.log BY <3>4 DEF Keep
    <3>6. LogGrows(log, task[Running].stack, c.log, c.task.stack, Running)
      BY <3>4 DEF Left
    <3>7. /\ c.log \in LogType /\ c.log.output >= log.output
          /\ c.log.bytes - log.bytes = c.log.output - log.output
          /\ c.log.next >= log.next
      BY <3>6 DEF LogGrows, Quiet
    <3>8. c.log.output \in Nat /\ c.log.bytes \in Nat BY <3>7, LogFields
    <3>9. c.log.bytes - log.bytes =
            IF c.log.output > log.output THEN c.log.output - log.output ELSE 0
      BY <2>2, <3>7, <3>8
    <3> QED BY <3>5, <3>6, <3>7, <3>9 DEF LogGrows
  <2>4. ASSUME /\ log'.next = log.next /\ log'.bytes = log.bytes
               /\ log'.output = log.output \/ log'.output = 0
               /\ log'.chunks = log.chunks \/ log'.chunks = <<>>
               /\ log'.trace = log.trace \/ log'.trace = <<>>
        PROVE  Counts
    <3>1. \A n \in Nat : (n + 1)..n = {} /\ (n + 1)..0 = {} OBVIOUS
    <3>2. Len(<<>>) = 0 OBVIOUS
    <3>3. /\ (Len(log.trace) + 1)..Len(log'.trace) = {}
          /\ (Len(log.chunks) + 1)..Len(log'.chunks) = {}
      BY <2>2, <2>4, <3>1, <3>2
    <3>4. /\ log'.next >= log.next
          /\ log'.bytes - log.bytes =
               IF log'.output > log.output THEN log'.output - log.output ELSE 0
      BY <2>2, <2>4
    <3> QED BY <3>3, <3>4
  <2>5. CASE TakeOutput \/ TakeOutputEvents \/ TakeTraceEvents
    <3>1. \/ log' = [log EXCEPT !["output"] = 0]
          \/ log' = [log EXCEPT !["chunks"] = <<>>]
          \/ log' = [log EXCEPT !["trace"] = <<>>]
      BY <2>5 DEF TakeOutput, TakeOutputEvents, TakeTraceEvents, Drain
    <3>2. /\ log'.next = log.next /\ log'.bytes = log.bytes
          /\ log'.output = log.output \/ log'.output = 0
          /\ log'.chunks = log.chunks \/ log'.chunks = <<>>
          /\ log'.trace = log.trace \/ log'.trace = <<>>
      BY <2>1, <3>1 DEF LogType
    <3> QED BY <2>4, <3>2
  <2>6. SliceStep \/ log' = log \/ TakeOutput \/ TakeOutputEvents \/ TakeTraceEvents
    BY <1>1 DEF Next, HostCall, StepBegins, StepFindsNoTask, DispatchReturns,
                StepEnds, SpawnTask, WakeTask, CancelTask, JoinTasks,
                RunUntilWaiting, TokenCancelled, vars
  <2>7. CASE log' = log BY <2>4, <2>7
  <2> QED BY <2>3, <2>5, <2>6, <2>7
<1> QED BY <1>1, SessionInvariant, PTL DEF Spec, DrainKeepsCounting

\* The operations of the instance are those the session calls.
LEMMA SameOperations ==
  /\ Tasks!NewScheduler = NewScheduler
  /\ \A s : /\ Tasks!Spawn(s) = Spawn(s)
            /\ Tasks!BeginDispatch(s) = BeginDispatch(s)
            /\ \A step : Tasks!EndDispatch(s, step) = EndDispatch(s, step)
            /\ \A t : /\ Tasks!Wake(s, t) = Wake(s, t)
                      /\ Tasks!Cancel(s, t) = Cancel(s, t)
                      /\ Tasks!CancelPendingExcept(s, t) =
                           CancelPendingExcept(s, t)
                      /\ Tasks!Known(s, t) <=> Known(s, t)
                      /\ \A w : Tasks!Join(s, w, t) = Join(s, w, t)
  /\ Tasks!TaskId = TaskId /\ Tasks!TaskStep = TaskStep
<1>1. /\ Tasks!TaskId = TaskId /\ Tasks!TaskStep = TaskStep
      /\ Tasks!Terminal = Terminal
      /\ \A s, t : Tasks!Known(s, t) <=> Known(s, t)
  BY DEF Tasks!TaskId, TaskId, Tasks!TaskStep, TaskStep, Tasks!Terminal,
         Terminal, Tasks!Known, Known
<1>2. Tasks!NewScheduler = NewScheduler
  BY <1>1 DEF Tasks!NewScheduler, NewScheduler
<1>3. \A seq, keep : Tasks!Retain(seq, keep) = Retain(seq, keep)
  BY DEF Tasks!Retain, Retain, Tasks!KeptPrefix, KeptPrefix
<1>4. \A s : Tasks!Spawn(s) = Spawn(s) BY DEF Tasks!Spawn, Spawn
<1>6. \A s, t : Tasks!WakeJoiners(s, t) = WakeJoiners(s, t)
  BY DEF Tasks!WakeJoiners, WakeJoiners, Tasks!Elements, Elements,
         Tasks!Retain, Retain, Tasks!KeptPrefix, KeptPrefix, Tasks!TaskId,
         TaskId
<1>7. \A s, t : Tasks!RemoveJoinWaiter(s, t) = RemoveJoinWaiter(s, t)
  BY <1>1, <1>3 DEF Tasks!RemoveJoinWaiter, RemoveJoinWaiter
<1>8. \A s : Tasks!BeginDispatch(s) = BeginDispatch(s)
  BY DEF Tasks!BeginDispatch, BeginDispatch, Tasks!ReadyPositions,
         ReadyPositions, Tasks!FirstReady, FirstReady
<1>10. \A s, step : Tasks!EndDispatch(s, step) = EndDispatch(s, step)
  BY DEF Tasks!EndDispatch, EndDispatch, Tasks!StateAfter, StateAfter,
         Tasks!Terminal, Terminal, Tasks!WakeJoiners, WakeJoiners,
         Tasks!Elements, Elements, Tasks!Retain, Retain, Tasks!KeptPrefix,
         KeptPrefix, Tasks!TaskId, TaskId
<1>11. \A s, t : Tasks!Wake(s, t) = Wake(s, t)
  BY <1>6, <1>7 DEF Tasks!Wake, Wake
<1>12. \A s, t : Tasks!Cancel(s, t) = Cancel(s, t)
  BY <1>1, <1>3, <1>6, <1>7 DEF Tasks!Cancel, Cancel
<1>13. \A s, t : Tasks!CancelPendingExcept(s, t) = CancelPendingExcept(s, t)
  BY <1>1, <1>12
  DEF Tasks!CancelPendingExcept, CancelPendingExcept, Tasks!CancelledBelow,
      CancelledBelow
<1>14. \A s, w, t : Tasks!Join(s, w, t) = Join(s, w, t)
  BY DEF Tasks!Join, Join, Tasks!JoinReply, JoinReply, Tasks!Known, Known,
         Tasks!IsTerminal, IsTerminal, Tasks!Terminal, Terminal,
         Tasks!Retain, Retain, Tasks!KeptPrefix, KeptPrefix, Tasks!TaskId,
         TaskId
<1> QED BY <1>1, <1>2, <1>4, <1>8, <1>10, <1>11, <1>12, <1>13, <1>14

\* The session uses its scheduler as the scheduler's specification allows:
\* every step of a session is one of its operations or leaves it as it is.
THEOREM ImplementsScheduler == Spec => SchedulerSpec
<1>1. Init => Tasks!Init BY SameOperations DEF Init, Tasks!Init
<1>2. ASSUME SessionInv, [Next]_vars PROVE [Tasks!Next]_sched
  BY <1>2, StepOnScheduler, SameOperations
  DEF Tasks!Next, Tasks!Idle, Tasks!SpawnTask, Tasks!DispatchStarts,
      Tasks!DispatchEnds, Tasks!WakeTask, Tasks!CancelTask, Tasks!JoinTasks,
      Tasks!CancelOthers
<1> QED BY <1>1, <1>2, SessionInvariant, PTL
        DEF Spec, SchedulerSpec, Tasks!Spec
=============================================================================
