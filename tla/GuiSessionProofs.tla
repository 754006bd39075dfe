-------------------------- MODULE GuiSessionProofs --------------------------
(***************************************************************************)
(* For any number of sessions, pieces of output and window sizes: what the *)
(* window of gui/mod.rs draws of a session is what its program wrote, and  *)
(* the PTY gets the size of the window, however the threads of             *)
(* local_shell/mod.rs or spawn_ssh_thread run.                             *)
(***************************************************************************)
EXTENDS GuiSession, SequenceTheorems, FiniteSetTheorems, WellFoundedInduction, TLAPS

Cmds == {<<"close">>, <<"reply">>, <<"input">>} \union {<<"resize", z>> : z \in Sizes}
Msgs == {<<"connected">>, <<"failed">>, <<"closed">>} \union {<<"data", q>> : q \in Seq(Int)}

Session ==
  [kind : {"shell", "ssh"},
   thread : {"starting", "running", "exiting", "joining", "ended"},
   reader : {"none", "reading", "done"}, program : {"none", "alive", "gone"},
   asking : BOOLEAN, wrote : Nat, pty : Seq(Int), size : Sizes,
   cmds : Seq(Cmds), msgs : Seq(Msgs), open : BOOLEAN,
   grid : Sizes, fed : Seq(Int), status : {"connecting", "none", "failed", "closed"},
   held : BOOLEAN, broke : BOOLEAN, missed : BOOLEAN, cut : BOOLEAN]

(* The number of a piece of output.                                        *)
Number(p) == IF p < 0 THEN -p ELSE p

(* The pieces are numbered on from n.                                      *)
From(pieces, n) == \A k \in 1 .. Len(pieces) : Number(pieces[k]) = n + k

(* What was drawn, what is in the channel and what is in the PTY follow    *)
(* each other: at[j] pieces come before what is behind message j.          *)
Flow(s, at) ==
  /\ at \in [0 .. Len(s.msgs) -> Nat]
  /\ at[0] = Len(s.fed)
  /\ From(s.fed, 0)
  /\ \A j \in 1 .. Len(s.msgs) : /\ at[j] = at[j - 1] + Len(PiecesOf(s.msgs[j]))
                                 /\ From(PiecesOf(s.msgs[j]), at[j - 1])
  /\ s.open => /\ From(s.pty, at[Len(s.msgs)])
               /\ at[Len(s.msgs)] + Len(s.pty) = s.wrote

Flows(s) == \E at : Flow(s, at)

(* Nothing is in the PTY, and nobody is left to write to it.               *)
Quiet(s) == s.pty = <<>> /\ s.program # "alive" /\ ~s.held

(* A thread that is done leaves nothing behind, unless a read failed.      *)
Threads(s) ==
  /\ s.thread = "starting" => /\ s.program = "none" /\ s.pty = <<>> /\ ~s.held
                              /\ s.reader = "none"
  /\ s.open /\ ~s.cut /\ (s.reader = "done" \/ s.thread = "ended") => Quiet(s)

NoResize(cmds) == \A k \in 1 .. Len(cmds) : cmds[k][1] # "resize"
LastResize(cmds, size) ==
  \E k \in 1 .. Len(cmds) : /\ cmds[k] = <<"resize", size>>
                            /\ \A j \in k + 1 .. Len(cmds) : cmds[j][1] # "resize"

(* The PTY has the size of the grid, unless the last resize failed, or the *)
(* last resize on its way to it gives it that size.                        *)
Sized(s) ==
  s.open /\ s.thread \in {"starting", "running"} =>
    \/ NoResize(s.cmds) /\ (s.missed \/ s.size = s.grid)
    \/ LastResize(s.cmds, s.grid)

Sound(s) == s \in Session /\ Flows(s) /\ Threads(s) /\ Sized(s)

GuiInv ==
  /\ screen \in Nat \union {Exited}
  /\ sessions \in Seq(Session)
  /\ \A i \in 1 .. Len(sessions) : Sound(sessions[i])

-----------------------------------------------------------------------------
(* Messages that carry no output, and those that do.                       *)
LEMMA Carried ==
  /\ PiecesOf(<<"connected">>) = <<>>
  /\ PiecesOf(<<"failed">>) = <<>>
  /\ PiecesOf(<<"closed">>) = <<>>
  /\ \A q \in Seq(Int) : PiecesOf(<<"data", q>>) = q
BY DEF PiecesOf

(* Every message carries pieces, perhaps none.                             *)
LEMMA PiecesType == \A m \in Msgs : PiecesOf(m) \in Seq(Int)
BY DEF PiecesOf, Msgs

(* The flow does not ask what the threads do.                              *)
LEMMA FlowStays ==
  ASSUME NEW s, NEW t, Flows(s),
         t.fed = s.fed, t.msgs = s.msgs, t.open = s.open,
         s.open => t.pty = s.pty /\ t.wrote = s.wrote
  PROVE  Flows(t)
BY DEF Flows, Flow

(* The first pieces in the PTY go to the end of the channel.               *)
LEMMA FlowMoves ==
  ASSUME NEW s \in Session, NEW t \in Session, Flows(s), s.open, t.open,
         t.fed = s.fed, t.wrote = s.wrote /\ t.cut = s.cut,
         NEW m \in Msgs, t.msgs = Append(s.msgs, m),
         Len(PiecesOf(m)) + Len(t.pty) = Len(s.pty),
         \A i \in 1 .. Len(PiecesOf(m)) : PiecesOf(m)[i] = s.pty[i],
         \A i \in 1 .. Len(t.pty) : t.pty[i] = s.pty[Len(PiecesOf(m)) + i]
  PROVE  Flows(t)
<1> DEFINE q == PiecesOf(m)
           n == Len(s.msgs)
<1>1. /\ s.fed \in Seq(Int) /\ s.pty \in Seq(Int) /\ t.pty \in Seq(Int)
      /\ s.msgs \in Seq(Msgs) /\ q \in Seq(Int) /\ s.wrote \in Nat
  BY PiecesType DEF Session
<1>2. PICK at : Flow(s, at)
  BY DEF Flows
<1>3. /\ n \in Nat /\ Len(t.msgs) = n + 1 /\ t.msgs[n + 1] = m
      /\ \A j \in 1 .. n : t.msgs[j] = s.msgs[j]
  BY <1>1
<1>4. /\ at \in [0 .. n -> Nat] /\ at[0] = Len(s.fed) /\ From(s.fed, 0)
      /\ \A j \in 1 .. n : /\ at[j] = at[j - 1] + Len(PiecesOf(s.msgs[j]))
                           /\ From(PiecesOf(s.msgs[j]), at[j - 1])
      /\ From(s.pty, at[n]) /\ at[n] + Len(s.pty) = s.wrote
  BY <1>2 DEF Flow
<1> DEFINE to == [j \in 0 .. n + 1 |-> IF j = n + 1 THEN at[n] + Len(q) ELSE at[j]]
           l == Len(q)
           u == Len(t.pty)
           v == Len(s.pty)
<1>0. /\ l + u = v
      /\ \A i \in 1 .. l : q[i] = s.pty[i]
      /\ \A i \in 1 .. u : t.pty[i] = s.pty[l + i]
  OBVIOUS
<1> HIDE DEF q, n
<1>5. at[n] \in Nat /\ l \in Nat /\ u \in Nat /\ v \in Nat
  BY <1>1, <1>3, <1>4
<1>6. /\ to \in [0 .. n + 1 -> Nat] /\ to[n + 1] = at[n] + Len(q)
      /\ \A j \in 0 .. n : to[j] = at[j]
  BY <1>3, <1>4, <1>5, SMTT(30)
<1> HIDE DEF to
<1>7. ASSUME NEW j \in 1 .. n + 1
      PROVE  /\ to[j] = to[j - 1] + Len(PiecesOf(t.msgs[j]))
             /\ From(PiecesOf(t.msgs[j]), to[j - 1])
  <2>1. CASE j \in 1 .. n
    <3>1. j \in 0 .. n /\ j - 1 \in 0 .. n
      BY <1>3, <2>1
    <3>2. to[j] = at[j] /\ to[j - 1] = at[j - 1] /\ t.msgs[j] = s.msgs[j]
      BY <1>3, <1>6, <2>1, <3>1
    <3> QED
      BY <1>4, <2>1, <3>2
  <2>2. CASE j = n + 1
    <3>1. j - 1 = n /\ to[j - 1] = at[n] /\ t.msgs[j] = m
      BY <1>3, <1>6, <2>2
    <3>2. From(q, at[n])
      <4>1. \A i \in 1 .. Len(q) : q[i] = s.pty[i] /\ i \in 1 .. Len(s.pty)
        BY <1>0, <1>5
      <4> QED
        BY <1>4, <4>1 DEF From
    <3> QED
      BY <1>6, <2>2, <3>1, <3>2 DEF q
  <2> QED
    BY <1>3, <2>1, <2>2
<1>8. From(t.pty, to[n + 1]) /\ to[n + 1] + Len(t.pty) = s.wrote
  <2>1. \A i \in 1 .. Len(t.pty) : /\ Len(q) + i \in 1 .. Len(s.pty)
                                   /\ t.pty[i] = s.pty[Len(q) + i]
    BY <1>0, <1>5, SMTT(30)
  <2>2. \A i \in 1 .. Len(t.pty) : Number(t.pty[i]) = at[n] + (Len(q) + i)
    BY <1>4, <2>1 DEF From
  <2>3. \A i \in 1 .. Len(t.pty) : at[n] + (Len(q) + i) = to[n + 1] + i
    BY <1>5, <1>6
  <2>4. From(t.pty, to[n + 1])
    BY <2>2, <2>3 DEF From
  <2>5. Len(q) + Len(t.pty) = Len(s.pty) /\ Len(t.pty) \in Nat
    BY <1>0, <1>5
  <2> QED
    BY <1>4, <1>5, <1>6, <2>4, <2>5
<1>9. to[0] = Len(t.fed) /\ From(t.fed, 0)
  BY <1>3, <1>4, <1>6
<1>10. Flow(t, to)
  BY <1>3, <1>6, <1>7, <1>8, <1>9 DEF Flow
<1> QED
  BY <1>10 DEF Flows

(* The program writes the next piece.                                      *)
LEMMA FlowGrows ==
  ASSUME NEW s \in Session, NEW t, Flows(s), NEW p \in Int, Number(p) = s.wrote + 1,
         t.fed = s.fed, t.msgs = s.msgs, t.open = s.open,
         t.wrote = s.wrote + 1, t.pty = Append(s.pty, p)
  PROVE  Flows(t)
<1>1. s.pty \in Seq(Int) /\ s.msgs \in Seq(Msgs) /\ s.wrote \in Nat
  BY DEF Session
<1>2. PICK at : Flow(s, at)
  BY DEF Flows
<1> DEFINE n == Len(s.msgs)
           l == Len(s.pty)
<1>3. /\ l \in Nat /\ Len(t.pty) = l + 1 /\ t.pty[l + 1] = p
      /\ \A k \in 1 .. l : t.pty[k] = s.pty[k]
  BY <1>1
<1>4. ASSUME s.open
      PROVE  From(t.pty, at[n]) /\ at[n] + Len(t.pty) = t.wrote
  <2>1. /\ at[n] \in Nat /\ at[n] + l = s.wrote
        /\ \A k \in 1 .. l : Number(s.pty[k]) = at[n] + k
    <3>1. at \in [0 .. n -> Nat] /\ n \in 0 .. n
      BY <1>1, <1>2 DEF Flow
    <3>2. From(s.pty, at[n]) /\ at[n] + l = s.wrote
      BY <1>2, <1>4 DEF Flow
    <3> HIDE DEF n, l
    <3>3. at[n] \in Nat
      BY ONLY <3>1
    <3> QED
      BY ONLY <3>2, <3>3 DEF From, l
  <2> HIDE DEF l, n
  <2>2. \A k \in 1 .. l + 1 : Number(t.pty[k]) = at[n] + k
    <3> SUFFICES ASSUME NEW k \in 1 .. l + 1 PROVE Number(t.pty[k]) = at[n] + k
      OBVIOUS
    <3>1. CASE k = l + 1
      <4>1. t.pty[k] = p
        BY <1>3, <3>1
      <4>2. at[n] + k = s.wrote + 1
        BY <1>1, <1>3, <2>1, <3>1
      <4> QED
        BY <4>1, <4>2
    <3>2. CASE k # l + 1
      <4>1. k \in 1 .. l
        BY <1>3, <3>2
      <4> QED
        BY <1>3, <2>1, <4>1
    <3> QED
      BY <3>1, <3>2
  <2> QED
    BY <1>1, <1>3, <2>1, <2>2, SMTT(30) DEF From
<1> QED
  BY <1>2, <1>4 DEF Flow, Flows

(* A window that goes drops the channel and what is in it.                 *)
LEMMA FlowStops ==
  ASSUME NEW s, NEW t, Flows(s), s.fed \in Seq(Int), t.fed = s.fed, t.msgs = <<>>, ~t.open
  PROVE  Flows(t)
<1>1. PICK at : Flow(s, at)
  BY DEF Flows
<1> DEFINE to == [j \in 0 .. 0 |-> Len(s.fed)]
<1>2. Len(t.msgs) = 0 /\ Len(s.fed) \in Nat /\ to \in [0 .. Len(t.msgs) -> Nat]
  OBVIOUS
<1>3. From(t.fed, 0) /\ to[0] = Len(t.fed)
  BY <1>1 DEF Flow
<1> HIDE DEF to
<1>4. \A j \in 1 .. Len(t.msgs) : FALSE
  BY <1>2
<1>5. Flow(t, to)
  BY <1>2, <1>3, <1>4 DEF Flow
<1> QED
  BY <1>5 DEF Flows

-----------------------------------------------------------------------------
(* What a resize at the far end leaves of the sizes, done or failed.       *)
Minded(s, t, c) ==
  IF c[1] = "resize" THEN t.missed \/ t.size = c[2] ELSE t.missed = s.missed /\ t.size = s.size

(* Sizes. A command at the front of the queue is obeyed, or refused.       *)
LEMMA SizedNext ==
  ASSUME NEW s \in Session, Sized(s), s.open, s.thread = "running", s.cmds # <<>>,
         NEW t, t.cmds = Tail(s.cmds), t.grid = s.grid, Minded(s, t, Head(s.cmds))
  PROVE  Sized(t)
<1> DEFINE c == s.cmds
           n == Len(c)
<1>1. c \in Seq(Cmds) /\ n \in Nat /\ n > 0 /\ Head(c) = c[1]
  BY EmptySeq DEF Session
<1>2. Len(t.cmds) = n - 1 /\ \A k \in 1 .. n - 1 : t.cmds[k] = c[k + 1]
  BY <1>1
<1>3. CASE NoResize(c) /\ (s.missed \/ s.size = s.grid)
  <2>1. \A k \in 1 .. n - 1 : k + 1 \in 1 .. n
    BY <1>1
  <2>2. NoResize(t.cmds)
    BY <1>2, <1>3, <2>1 DEF NoResize
  <2>3. 1 \in 1 .. n
    BY <1>1
  <2>4. Head(c)[1] # "resize"
    BY <1>1, <1>3, <2>3 DEF NoResize
  <2> QED
    BY <1>3, <2>2, <2>4 DEF Sized, Minded
<1>4. CASE LastResize(c, s.grid)
  <2>1. PICK k \in 1 .. n : /\ c[k] = <<"resize", s.grid>>
                            /\ \A j \in k + 1 .. n : c[j][1] # "resize"
    BY <1>4 DEF LastResize
  <2> HIDE DEF c, n
  <2>2. CASE k = 1
    <3>1. t.missed \/ t.size = s.grid
      BY <1>1, <2>1, <2>2 DEF c, Minded
    <3>2. \A j \in 1 .. n - 1 : j + 1 \in k + 1 .. n
      BY <1>1, <2>2
    <3>3. NoResize(t.cmds)
      BY <1>2, <2>1, <3>2, ZenonT(60) DEF NoResize
    <3> QED
      BY <3>1, <3>3 DEF Sized
  <2>3. CASE k # 1
    <3>1. k - 1 \in 1 .. n - 1 /\ (k - 1) + 1 = k
      BY <1>1, <2>3
    <3>2. t.cmds[k - 1] = <<"resize", t.grid>>
      BY <1>2, <2>1, <3>1
    <3>3. \A j \in (k - 1) + 1 .. n - 1 : j \in 1 .. n - 1 /\ j + 1 \in k + 1 .. n
      BY <1>1, <3>1
    <3>4. \A j \in (k - 1) + 1 .. n - 1 : t.cmds[j][1] # "resize"
      BY <1>2, <2>1, <3>3
    <3>5. LastResize(t.cmds, t.grid)
      BY <1>2, <3>1, <3>2, <3>4 DEF LastResize
    <3> QED
      BY <3>5 DEF Sized
  <2> QED
    BY <2>2, <2>3
<1> QED
  BY <1>3, <1>4 DEF Sized

(* Commands that are no resize come behind those there are.                *)
LEMMA NoMoreResizes ==
  ASSUME NEW c \in Seq(Cmds), NEW d \in Seq(Cmds), NoResize(d), NEW z
  PROVE  /\ NoResize(c) => NoResize(c \o d)
         /\ LastResize(c, z) => LastResize(c \o d, z)
<1> DEFINE n == Len(c)
           m == Len(d)
<1>1. n \in Nat /\ m \in Nat
  OBVIOUS
<1>2. /\ Len(c \o d) = n + m
      /\ \A k \in 1 .. n : (c \o d)[k] = c[k]
      /\ \A k \in n + 1 .. n + m : k - n \in 1 .. m /\ (c \o d)[k] = d[k - n]
  OBVIOUS
<1>3. \A k \in n + 1 .. n + m : (c \o d)[k][1] # "resize"
  BY <1>2 DEF NoResize
<1> HIDE DEF n, m
<1>4. ASSUME NoResize(c) PROVE NoResize(c \o d)
  <2>1. \A k \in 1 .. n : (c \o d)[k][1] # "resize"
    BY <1>2, <1>4 DEF NoResize, n
  <2>2. \A k \in 1 .. n + m : k \in 1 .. n \/ k \in n + 1 .. n + m
    BY <1>1
  <2> QED
    BY <1>2, <1>3, <2>1, <2>2 DEF NoResize
<1>5. ASSUME LastResize(c, z) PROVE LastResize(c \o d, z)
  <2>1. PICK k \in 1 .. n : /\ c[k] = <<"resize", z>>
                            /\ \A j \in k + 1 .. n : c[j][1] # "resize"
    BY <1>5 DEF LastResize, n
  <2>2. /\ k \in 1 .. n + m
        /\ \A j \in k + 1 .. n + m : j \in k + 1 .. n \/ j \in n + 1 .. n + m
        /\ \A j \in k + 1 .. n : j \in 1 .. n
    BY <1>1
  <2>3. (c \o d)[k] = <<"resize", z>>
    BY <1>2, <2>1
  <2>4. \A j \in k + 1 .. n + m : (c \o d)[j][1] # "resize"
    BY <1>2, <1>3, <2>1, <2>2
  <2> QED
    BY <1>2, <2>2, <2>3, <2>4 DEF LastResize
<1> QED
  BY <1>4, <1>5

(* A resize that is the last of some commands is the last when they come   *)
(* behind others.                                                          *)
LEMMA ResizeBehind ==
  ASSUME NEW c \in Seq(Cmds), NEW d \in Seq(Cmds), NEW z, LastResize(d, z)
  PROVE  LastResize(c \o d, z)
<1> DEFINE n == Len(c)
           m == Len(d)
<1>1. n \in Nat /\ m \in Nat
  OBVIOUS
<1>2. /\ Len(c \o d) = n + m
      /\ \A k \in n + 1 .. n + m : k - n \in 1 .. m /\ (c \o d)[k] = d[k - n]
  OBVIOUS
<1> HIDE DEF n
<1>3. PICK k \in 1 .. m : /\ d[k] = <<"resize", z>>
                          /\ \A j \in k + 1 .. m : d[j][1] # "resize"
  BY DEF LastResize
<1> HIDE DEF m
<1>4. n + k \in n + 1 .. n + m /\ (n + k) - n = k /\ n + k \in 1 .. n + m
  BY <1>1
<1>5. (c \o d)[n + k] = <<"resize", z>>
  BY <1>2, <1>3, <1>4
<1>6. \A j \in (n + k) + 1 .. n + m : j \in n + 1 .. n + m /\ j - n \in k + 1 .. m
  BY <1>1
<1>7. \A j \in (n + k) + 1 .. n + m : (c \o d)[j][1] # "resize"
  BY <1>2, <1>3, <1>6
<1> QED
  BY <1>2, <1>4, <1>5, <1>7 DEF LastResize

-----------------------------------------------------------------------------
(* A set of numbers that is not empty has a least one.                     *)
LEMMA SmallestNumber ==
  ASSUME NEW S \in SUBSET Nat, S # {}
  PROVE  \E k \in S : \A j \in S : k <= j
<1> DEFINE less == {p \in Nat \X Nat : p[1] < p[2]}
<1>1. IsWellFoundedOn(less, Nat)
  BY NatLessThanWellFounded DEF OpToRel
<1>2. PICK k \in S : \A j \in S : <<j, k>> \notin less
  <2> HIDE DEF less
  <2> QED
    BY <1>1, WFMin
<1>3. \A j \in S : k <= j
  <2> TAKE j \in S
  <2>1. <<j, k>> \in Nat \X Nat /\ <<j, k>>[1] = j /\ <<j, k>>[2] = k
    OBVIOUS
  <2>2. ~(j < k)
    BY <2>1, <1>2
  <2> QED
    BY <2>2
<1> QED
  BY <1>3

(* A set that has 0 and, with a number below l, the next one, has all      *)
(* numbers up to l.                                                        *)
LEMMA CountingUp ==
  ASSUME NEW l \in Nat, NEW Good, 0 \in Good,
         \A n \in 0 .. l : n # 0 /\ n - 1 \in Good => n \in Good
  PROVE  0 .. l \subseteq Good
<1> DEFINE Bad == {n \in 0 .. l : n \notin Good}
<1> SUFFICES ASSUME Bad # {} PROVE FALSE
  OBVIOUS
<1>1. PICK k \in Bad : \A j \in Bad : k <= j
  <2>1. Bad \in SUBSET Nat
    OBVIOUS
  <2> HIDE DEF Bad
  <2> QED
    BY <2>1, SmallestNumber
<1>2. k \in 0 .. l /\ k \notin Good /\ k # 0
  BY <1>1
<1>3. k - 1 \in 0 .. l /\ ~(k <= k - 1)
  BY <1>2
<1>4. k - 1 \in Good
  BY <1>1, <1>3
<1> QED
  BY <1>2, <1>4

(* The session after n messages, as Drained defines it.                    *)
After(s, f, n) == IF n = 0 THEN s ELSE Took(f[n - 1], s.msgs[n])
Taken(s) == CHOOSE f : f = [n \in 0 .. Len(s.msgs) |-> After(s, f, n)]

(* Drained is the last of those, with an empty channel.                    *)
LEMMA DrainedIsLast ==
  ASSUME NEW s
  PROVE  Drained(s) = [Taken(s)[Len(s.msgs)] EXCEPT !.msgs = <<>>]
BY DEF Drained, Taken, After

(* The recursion has a solution: for the first messages, and so for all.   *)
LEMMA TakenExists ==
  ASSUME NEW s, NEW l \in Nat, l = Len(s.msgs)
  PROVE  Taken(s) = [n \in 0 .. l |-> After(s, Taken(s), n)]
<1> DEFINE Solved(m) == \E f : f = [n \in 0 .. m |-> After(s, f, n)]
           Good == {m \in Nat : Solved(m)}
<1>1. 0 \in Good
  <2> DEFINE f == [n \in 0 .. 0 |-> s]
  <2>1. f = [n \in 0 .. 0 |-> After(s, f, n)]
    BY DEF After
  <2> HIDE DEF f
  <2> QED
    BY <2>1
<1>2. ASSUME NEW k \in 0 .. l, k # 0, k - 1 \in Good PROVE k \in Good
  <2>1. k \in Nat /\ k - 1 \in Nat
    BY <1>2
  <2>2. PICK f : f = [n \in 0 .. k - 1 |-> After(s, f, n)]
    BY <1>2
  <2> DEFINE g == [n \in 0 .. k |-> IF n = k THEN After(s, f, k) ELSE f[n]]
  <2>3. ASSUME NEW n \in 0 .. k PROVE g[n] = After(s, g, n)
    <3>1. n # 0 => n - 1 \in 0 .. k /\ n - 1 # k
      BY <2>1
    <3>2. n # 0 => g[n - 1] = f[n - 1]
      BY <3>1
    <3>3. After(s, g, n) = After(s, f, n)
      BY <3>2 DEF After
    <3>4. n # k => n \in 0 .. k - 1
      BY <2>1
    <3>5. n # k => g[n] = After(s, f, n)
      BY <2>2, <3>4
    <3> QED
      BY <3>3, <3>5
  <2>4. g = [n \in 0 .. k |-> After(s, g, n)]
    <3>1. g = [n \in 0 .. k |-> g[n]]
      OBVIOUS
    <3> HIDE DEF g
    <3> QED
      BY <2>3, <3>1
  <2> HIDE DEF g
  <2> QED
    BY <2>1, <2>4
<1> HIDE DEF Good
<1>3. 0 .. l \subseteq Good
  BY <1>1, <1>2, CountingUp
<1>4. Solved(l)
  BY <1>3 DEF Good
<1> QED
  BY <1>4 DEF Taken

(* The parser answers with replies only.                                   *)
LEMMA RepliesType ==
  ASSUME NEW q \in Seq(Int)
  PROVE  Replies(q) \in Seq(Cmds) /\ NoResize(Replies(q))
<1> DEFINE asks == {k \in DOMAIN q : q[k] < 0}
           n == Cardinality(asks)
<1>1. n \in Nat
  <2>1. IsFiniteSet(1 .. Len(q))
    BY FS_Interval
  <2>2. asks \subseteq 1 .. Len(q)
    OBVIOUS
  <2> QED
    BY <2>1, <2>2, FS_Subset, FS_CardinalityType
<1>2. Replies(q) = <<>> \/ Replies(q) = [k \in 1 .. n |-> <<"reply">>]
  BY DEF Replies
<1>3. <<"reply">> \in Cmds /\ <<"reply">>[1] # "resize"
  BY DEF Cmds
<1> HIDE DEF n
<1>4. CASE Replies(q) = <<>>
  BY <1>4 DEF NoResize
<1>5. CASE Replies(q) = [k \in 1 .. n |-> <<"reply">>]
  <2> DEFINE x == <<"reply">>
  <2> HIDE DEF x
  <2>1. x \in Cmds /\ x[1] # "resize" /\ Replies(q) = [k \in 1 .. n |-> x]
    BY <1>3, <1>5 DEF x
  <2>2. Replies(q) \in Seq(Cmds) /\ Len(Replies(q)) = n
    BY <1>1, <2>1
  <2> QED
    BY <2>1, <2>2 DEF NoResize
<1> QED
  BY <1>2, <1>4, <1>5

(* Two sessions that differ in what the window keeps.                      *)
SameBehind(s, t) ==
  /\ t.kind = s.kind /\ t.thread = s.thread /\ t.reader = s.reader
  /\ t.program = s.program /\ t.held = s.held /\ t.asking = s.asking
  /\ t.wrote = s.wrote /\ t.cut = s.cut
  /\ t.pty = s.pty /\ t.size = s.size /\ t.missed = s.missed /\ t.open = s.open
  /\ t.grid = s.grid /\ t.broke = s.broke

SameSizes(s, t) ==
  /\ NoResize(s.cmds) => NoResize(t.cmds)
  /\ LastResize(s.cmds, s.grid) => LastResize(t.cmds, s.grid)

(* One message is taken in.                                                *)
LEMMA TookFacts ==
  ASSUME NEW s \in Session, NEW m \in Msgs, From(s.fed, 0), From(PiecesOf(m), Len(s.fed))
  PROVE  /\ Took(s, m) \in Session /\ Took(s, m).msgs = s.msgs
         /\ Len(Took(s, m).fed) = Len(s.fed) + Len(PiecesOf(m))
         /\ From(Took(s, m).fed, 0)
         /\ SameBehind(s, Took(s, m)) /\ SameSizes(s, Took(s, m))
<1> DEFINE q == PiecesOf(m)
           r == Replies(q)
           f == s.fed \o q
           c == s.cmds \o r
           u == Status(m, s.status)
           t == Took(s, m)
<1>1. /\ s.fed \in Seq(Int) /\ s.cmds \in Seq(Cmds)
      /\ s.status \in {"connecting", "none", "failed", "closed"}
  BY DEF Session
<1>2. q \in Seq(Int)
  BY PiecesType
<1>3. r \in Seq(Cmds) /\ NoResize(r)
  BY <1>2, RepliesType
<1>4. u \in {"connecting", "none", "failed", "closed"}
  BY <1>1 DEF Status
<1> HIDE DEF q, r, u
<1>5. f \in Seq(Int) /\ Len(f) = Len(s.fed) + Len(q) /\ From(f, 0)
  <2> DEFINE n == Len(s.fed)
             l == Len(q)
  <2>1. /\ f \in Seq(Int) /\ n \in Nat /\ l \in Nat /\ Len(f) = n + l
        /\ \A k \in 1 .. n : f[k] = s.fed[k]
        /\ \A k \in 1 .. n + l : k > n => k - n \in 1 .. l /\ f[k] = q[k - n]
    BY <1>1, <1>2
  <2>2. /\ \A k \in 1 .. n : Number(s.fed[k]) = 0 + k
        /\ \A k \in 1 .. l : Number(q[k]) = n + k
    BY DEF From, q
  <2> HIDE DEF f, n, l
  <2>3. \A k \in 1 .. n + l : Number(f[k]) = 0 + k
    <3> SUFFICES ASSUME NEW k \in 1 .. n + l PROVE Number(f[k]) = 0 + k
      OBVIOUS
    <3>1. CASE k > n
      <4>1. Number(f[k]) = n + (k - n)
        BY <2>1, <2>2, <3>1
      <4> QED
        BY <2>1, <4>1
    <3>2. CASE ~(k > n)
      <4>1. k \in 1 .. n
        BY <2>1, <3>2
      <4> QED
        BY <2>1, <2>2, <4>1
    <3> QED
      BY <3>1, <3>2
  <2> QED
    BY <2>1, <2>3 DEF From, n, l
<1>6. /\ c \in Seq(Cmds)
      /\ NoResize(s.cmds) => NoResize(c)
      /\ LastResize(s.cmds, s.grid) => LastResize(c, s.grid)
  BY <1>1, <1>3, NoMoreResizes
<1> HIDE DEF f, c
<1>7. t = [s EXCEPT !.status = u, !.fed = f, !.cmds = c]
  BY DEF Took, q, r, f, c, u
<1> HIDE DEF t
<1>8. t \in Session /\ t.fed = f /\ t.cmds = c /\ t.msgs = s.msgs /\ SameBehind(s, t)
  BY <1>4, <1>5, <1>6, <1>7 DEF Session, SameBehind
<1>9. Len(t.fed) = Len(s.fed) + Len(q) /\ From(t.fed, 0) /\ SameSizes(s, t)
  BY <1>5, <1>6, <1>8 DEF SameSizes
<1> QED
  BY <1>8, <1>9 DEF t, q

(* The window takes in all messages: what it has drawn then is every piece *)
(* that was on its way to it.                                              *)
LEMMA DrainedFacts ==
  ASSUME NEW s \in Session, Flows(s)
  PROVE  /\ Drained(s) \in Session /\ Drained(s).msgs = <<>>
         /\ SameBehind(s, Drained(s)) /\ SameSizes(s, Drained(s))
         /\ Flows(Drained(s))
<1> DEFINE l == Len(s.msgs)
           f == Taken(s)
<1>1. PICK at : Flow(s, at)
  BY DEF Flows
<1>2. /\ s.msgs \in Seq(Msgs) /\ l \in Nat /\ \A n \in 1 .. l : s.msgs[n] \in Msgs
      /\ at \in [0 .. l -> Nat] /\ at[0] = Len(s.fed) /\ From(s.fed, 0)
      /\ \A n \in 1 .. l : /\ at[n] = at[n - 1] + Len(PiecesOf(s.msgs[n]))
                           /\ From(PiecesOf(s.msgs[n]), at[n - 1])
  BY <1>1 DEF Flow, Session
<1>3. \A n \in 0 .. l : f[n] = After(s, f, n)
  BY <1>2, TakenExists
<1> HIDE DEF l, f
<1> DEFINE Fine(t, n) == /\ t \in Session /\ t.msgs = s.msgs
                         /\ Len(t.fed) = at[n] /\ From(t.fed, 0)
                         /\ SameBehind(s, t) /\ SameSizes(s, t)
           Good == {n \in 0 .. l : Fine(f[n], n)}
<1>4. 0 \in Good
  <2>1. 0 \in 0 .. l /\ f[0] = s
    BY <1>2, <1>3 DEF After
  <2> QED
    BY <1>2, <2>1 DEF SameBehind, SameSizes
<1>5. ASSUME NEW n \in 0 .. l, n # 0, n - 1 \in Good PROVE n \in Good
  <2> DEFINE t == f[n - 1]
             m == s.msgs[n]
  <2>1. n \in 1 .. l /\ n \in 0 .. l
    BY <1>2, <1>5
  <2>2. /\ f[n] = Took(t, m) /\ m \in Msgs
        /\ at[n] = at[n - 1] + Len(PiecesOf(m)) /\ From(PiecesOf(m), at[n - 1])
    BY <1>2, <1>3, <1>5, <2>1 DEF After
  <2>3. Fine(t, n - 1)
    BY <1>5
  <2> HIDE DEF t, m
  <2>4. /\ Took(t, m) \in Session /\ Took(t, m).msgs = t.msgs
        /\ Len(Took(t, m).fed) = Len(t.fed) + Len(PiecesOf(m))
        /\ From(Took(t, m).fed, 0)
        /\ SameBehind(t, Took(t, m)) /\ SameSizes(t, Took(t, m))
    BY <2>2, <2>3, TookFacts
  <2>5. Fine(Took(t, m), n)
    BY <2>2, <2>3, <2>4 DEF SameBehind, SameSizes
  <2> QED
    BY <2>1, <2>2, <2>5
<1>6. Fine(f[l], l)
  <2>1. l \in 0 .. l
    BY <1>2
  <2> HIDE DEF Good
  <2>2. 0 .. l \subseteq Good
    BY <1>2, <1>4, <1>5, CountingUp
  <2>3. l \in Good
    BY <2>1, <2>2
  <2> QED
    BY <2>3 DEF Good
<1>7. Drained(s) = [f[l] EXCEPT !.msgs = <<>>]
  BY DrainedIsLast DEF f, l
<1> DEFINE d == Drained(s)
           e == f[l]
<1> HIDE DEF d, e
<1>8. d = [e EXCEPT !.msgs = <<>>] /\ e \in Session
  BY <1>6, <1>7 DEF d, e
<1>9. <<>> \in Seq(Msgs)
  OBVIOUS
<1>10. /\ d \in Session /\ d.msgs = <<>> /\ SameBehind(e, d) /\ d.cmds = e.cmds
       /\ d.fed = e.fed
  BY <1>8, <1>9 DEF Session, SameBehind
<1>11. SameBehind(s, d) /\ SameSizes(s, d)
  BY <1>6, <1>10 DEF SameBehind, SameSizes, e
<1>12. Flows(d)
  <2> DEFINE to == [n \in 0 .. 0 |-> at[l]]
  <2>1. at[l] \in Nat /\ to \in [0 .. 0 -> Nat] /\ to[0] = at[l]
    BY <1>2
  <2>2. Len(d.msgs) = 0 /\ Len(d.fed) = at[l] /\ From(d.fed, 0)
    BY <1>6, <1>10 DEF e
  <2>3. d.open => From(d.pty, at[l]) /\ at[l] + Len(d.pty) = d.wrote
    BY <1>1, <1>11 DEF Flow, SameBehind, l
  <2> HIDE DEF to
  <2>4. \A n \in 1 .. Len(d.msgs) : FALSE
    BY <2>2
  <2>5. Flow(d, to)
    BY <2>1, <2>2, <2>3, <2>4 DEF Flow
  <2> QED
    BY <2>5 DEF Flows
<1> QED
  BY <1>10, <1>11, <1>12 DEF d

-----------------------------------------------------------------------------
(* A message without output changes no flow, nor does one that is lost.    *)
LEMMA FlowTells ==
  ASSUME NEW s \in Session, NEW t \in Session, Flows(s),
         NEW m \in Msgs, PiecesOf(m) = <<>>, t.msgs = Sent(s, m).msgs,
         t.fed = s.fed, t.pty = s.pty, t.wrote = s.wrote /\ t.cut = s.cut, t.open = s.open
  PROVE  Flows(t)
<1>1. CASE s.open
  <2>1. t.msgs = Append(s.msgs, m)
    <3>1. s.msgs \in Seq(Msgs)
      BY DEF Session
    <3> QED
      BY <1>1, <3>1 DEF Sent, Session
  <2>2. Len(PiecesOf(m)) = 0 /\ Len(s.pty) \in Nat
    BY DEF Session
  <2>3. /\ Len(PiecesOf(m)) + Len(t.pty) = Len(s.pty)
        /\ \A k \in 1 .. Len(PiecesOf(m)) : PiecesOf(m)[k] = s.pty[k]
        /\ \A k \in 1 .. Len(t.pty) : t.pty[k] = s.pty[Len(PiecesOf(m)) + k]
    BY <2>2
  <2> QED
    BY <1>1, <2>1, <2>3, FlowMoves
<1>2. CASE ~s.open
  BY <1>2, FlowStays DEF Sent
<1> QED
  BY <1>1, <1>2

(* What a send leaves alone.                                               *)
LEMMA SentFacts ==
  ASSUME NEW s \in Session, NEW m \in Msgs
  PROVE  /\ Sent(s, m) \in Session /\ SameBehind(s, Sent(s, m))
         /\ Sent(s, m).cmds = s.cmds /\ Sent(s, m).fed = s.fed
<1>1. Append(s.msgs, m) \in Seq(Msgs)
  BY DEF Session
<1> DEFINE q == Append(s.msgs, m)
           t == [s EXCEPT !.msgs = q]
<1>2. Sent(s, m) = t \/ Sent(s, m) = s
  BY DEF Sent
<1> HIDE DEF q
<1>3. /\ t \in Session /\ t.cmds = s.cmds /\ t.fed = s.fed
      /\ t.kind = s.kind /\ t.thread = s.thread /\ t.reader = s.reader
      /\ t.program = s.program /\ t.held = s.held /\ t.asking = s.asking
      /\ t.wrote = s.wrote /\ t.cut = s.cut /\ t.pty = s.pty /\ t.size = s.size
      /\ t.missed = s.missed /\ t.open = s.open /\ t.grid = s.grid /\ t.broke = s.broke
  BY <1>1 DEF Session, q
<1> HIDE DEF t
<1>4. SameBehind(s, t) /\ SameBehind(s, s)
  BY <1>3 DEF SameBehind
<1> QED
  BY <1>2, <1>3, <1>4

(* The messages there are.                                                 *)
LEMMA MessageTypes ==
  /\ <<"connected">> \in Msgs /\ <<"failed">> \in Msgs /\ <<"closed">> \in Msgs
  /\ \A q \in Seq(Int) : <<"data", q>> \in Msgs
BY DEF Msgs

(* A backend that cannot start says so and is done.                        *)
LEMMA FailureSound ==
  ASSUME NEW s, Sound(s), s.thread = "starting", NEW p \in {"none", "gone"},
         NEW t, t = Ended([Sent(s, <<"failed">>) EXCEPT !.program = p])
  PROVE  Sound(t)
<1> DEFINE m == <<"failed">>
           u == Sent(s, m)
<1>1. s \in Session /\ Flows(s) /\ Threads(s) /\ m \in Msgs /\ PiecesOf(m) = <<>>
  BY MessageTypes, Carried DEF Sound
<1> HIDE DEF m
<1>2. u \in Session /\ SameBehind(s, u) /\ u.cmds = s.cmds /\ u.fed = s.fed
  BY <1>1, SentFacts
<1> HIDE DEF u
<1>3. t = [[u EXCEPT !.program = p] EXCEPT !.thread = "ended", !.held = FALSE]
  BY DEF Ended, m, u
<1>4. /\ t \in Session /\ t.msgs = u.msgs /\ t.fed = s.fed /\ t.pty = s.pty
      /\ t.wrote = s.wrote /\ t.cut = s.cut /\ t.open = s.open /\ t.thread = "ended"
      /\ t.program = p /\ t.held = FALSE /\ t.reader = s.reader
  BY <1>2, <1>3, ZenonT(60) DEF Session, SameBehind
<1>5. Flows(t)
  BY <1>1, <1>4, FlowTells DEF u
<1>6. Threads(t) /\ Sized(t)
  BY <1>1, <1>4 DEF Threads, Sized, Quiet
<1> QED
  BY <1>4, <1>5, <1>6 DEF Sound

(* The PTY after a read.                                                   *)
LEMMA Unread ==
  ASSUME NEW u \in Session, NEW r \in Seq(Int), NEW t, t = [u EXCEPT !.pty = r]
  PROVE  /\ t \in Session /\ t.pty = r /\ t.thread = u.thread /\ t.reader = u.reader
         /\ t.program = u.program /\ t.held = u.held /\ t.msgs = u.msgs /\ t.fed = u.fed
         /\ t.wrote = u.wrote /\ t.cut = u.cut /\ t.open = u.open
         /\ t.cmds = u.cmds /\ t.size = u.size /\ t.missed = u.missed /\ t.grid = u.grid
BY DEF Session

(* A backend that starts says so and runs, unless the window is gone.      *)
LEMMA StartSound ==
  ASSUME NEW s, Sound(s), s.thread = "starting", NEW r \in {"none", "reading"},
         NEW t, t = IF s.open
                    THEN [Sent([s EXCEPT !.program = "alive"], <<"connected">>)
                            EXCEPT !.thread = "running", !.reader = r]
                    ELSE Ended(Killed([s EXCEPT !.program = "alive"]))
  PROVE  Sound(t)
<1> DEFINE a == [s EXCEPT !.program = "alive"]
           m == <<"connected">>
           u == Sent(a, m)
<1>1. /\ s \in Session /\ Flows(s) /\ Threads(s) /\ Sized(s)
      /\ m \in Msgs /\ PiecesOf(m) = <<>>
  BY MessageTypes, Carried DEF Sound
<1>2. /\ a \in Session /\ a.program = "alive" /\ a.thread = s.thread /\ a.reader = s.reader
      /\ a.fed = s.fed /\ a.msgs = s.msgs /\ a.pty = s.pty /\ a.wrote = s.wrote
      /\ a.cut = s.cut
      /\ a.open = s.open /\ a.cmds = s.cmds /\ a.size = s.size /\ a.missed = s.missed
      /\ a.grid = s.grid
  BY <1>1 DEF Session
<1>3. Flows(a)
  BY <1>1, <1>2, FlowStays
<1> HIDE DEF m, a
<1>4. CASE s.open
  <2>1. u \in Session /\ SameBehind(a, u) /\ u.cmds = a.cmds /\ u.fed = a.fed
    BY <1>1, <1>2, SentFacts
  <2> HIDE DEF u
  <2>2. t = [u EXCEPT !.thread = "running", !.reader = r]
    BY <1>4 DEF a, u, m
  <2>3. /\ t \in Session /\ t.msgs = u.msgs /\ t.fed = a.fed /\ t.pty = a.pty
        /\ t.wrote = a.wrote /\ t.cut = a.cut /\ t.open = a.open /\ t.thread = "running"
        /\ t.reader = r /\ t.cmds = s.cmds /\ t.size = s.size /\ t.missed = s.missed
        /\ t.grid = s.grid
    <3>1. /\ t \in Session /\ t.thread = "running" /\ t.reader = r
          /\ t.program = u.program /\ t.held = u.held /\ t.msgs = u.msgs
          /\ t.fed = u.fed /\ t.pty = u.pty
          /\ t.wrote = u.wrote /\ t.cut = u.cut /\ t.open = u.open
          /\ t.cmds = u.cmds /\ t.size = u.size /\ t.missed = u.missed /\ t.grid = u.grid
      BY ONLY <2>1, <2>2, r \in {"none", "reading"} DEF Session
    <3> QED
      BY ONLY <1>2, <2>1, <3>1 DEF SameBehind
  <2>4. Flows(t)
    <3>1. t.msgs = Sent(a, m).msgs
      BY ONLY <2>3 DEF u
    <3> QED
      BY ONLY <1>1, <1>2, <1>3, <2>3, <3>1, FlowTells
  <2>5. Threads(t) /\ Sized(t)
    BY <1>1, <1>2, <1>4, <2>3 DEF Threads, Sized
  <2> QED
    BY <2>3, <2>4, <2>5 DEF Sound
<1>5. CASE ~s.open
  <2>1. t = [[a EXCEPT !.program = "gone", !.asking = FALSE]
               EXCEPT !.thread = "ended", !.held = FALSE]
    BY <1>5 DEF Ended, Killed, a
  <2>2. /\ t \in Session /\ t.fed = a.fed /\ t.msgs = a.msgs /\ t.pty = a.pty
        /\ t.wrote = a.wrote /\ t.cut = a.cut /\ t.open = a.open /\ t.thread = "ended"
    BY <1>2, <2>1, ZenonT(60) DEF Session
  <2>3. Flows(t)
    BY <1>3, <2>2, FlowStays
  <2>4. Threads(t) /\ Sized(t)
    BY <1>2, <1>5, <2>2 DEF Threads, Sized
  <2> QED
    BY <2>2, <2>3, <2>4 DEF Sound
<1> QED
  BY <1>4, <1>5

(* Output read goes to the window, or is dropped with the one who reads.   *)
LEMMA ReadSound ==
  ASSUME NEW s, Sound(s), s.open, s.thread # "starting",
         NEW q \in Seq(Int), NEW r \in Seq(Int), q # <<>>,
         Len(q) + Len(r) = Len(s.pty),
         \A k \in 1 .. Len(q) : q[k] = s.pty[k],
         \A k \in 1 .. Len(r) : r[k] = s.pty[Len(q) + k],
         NEW t, t = [Sent(s, <<"data", q>>) EXCEPT !.pty = r]
  PROVE  Sound(t)
<1> DEFINE m == <<"data", q>>
           u == Sent(s, m)
<1>1. /\ s \in Session /\ Flows(s) /\ Threads(s) /\ Sized(s)
      /\ m \in Msgs /\ PiecesOf(m) = q
  BY MessageTypes, Carried DEF Sound
<1> HIDE DEF m
<1>2. u \in Session /\ SameBehind(s, u) /\ u.cmds = s.cmds /\ u.fed = s.fed
      /\ u.msgs = Append(s.msgs, m)
  <2>1. u.msgs = Append(s.msgs, m)
    BY <1>1 DEF Sent, Session
  <2> QED
    BY <1>1, <2>1, SentFacts
<1> HIDE DEF u
<1>3. t = [u EXCEPT !.pty = r]
  BY DEF u, m
<1>4. /\ t \in Session /\ t.msgs = Append(s.msgs, m) /\ t.fed = s.fed /\ t.pty = r
      /\ t.wrote = s.wrote /\ t.cut = s.cut /\ t.open = s.open /\ t.thread = s.thread
      /\ t.program = s.program /\ t.held = s.held /\ t.reader = s.reader /\ t.cmds = s.cmds
      /\ t.size = s.size /\ t.missed = s.missed /\ t.grid = s.grid
  <2>1. /\ t \in Session /\ t.pty = r /\ t.thread = u.thread /\ t.reader = u.reader
        /\ t.program = u.program /\ t.held = u.held /\ t.msgs = u.msgs /\ t.fed = u.fed
        /\ t.wrote = u.wrote /\ t.cut = u.cut /\ t.open = u.open
        /\ t.cmds = u.cmds /\ t.size = u.size /\ t.missed = u.missed /\ t.grid = u.grid
    BY ONLY <1>2, <1>3, Unread, r \in Seq(Int)
  <2> QED
    BY ONLY <1>2, <2>1 DEF SameBehind
<1>5. Flows(t)
  <2>1. /\ Len(PiecesOf(m)) + Len(t.pty) = Len(s.pty)
        /\ \A k \in 1 .. Len(PiecesOf(m)) : PiecesOf(m)[k] = s.pty[k]
        /\ \A k \in 1 .. Len(t.pty) : t.pty[k] = s.pty[Len(PiecesOf(m)) + k]
    BY <1>1, <1>4
  <2> HIDE DEF u
  <2> QED
    BY ONLY s.open, <1>1, <1>4, <2>1, FlowMoves
<1>6. s.pty # <<>>
  <2>1. Len(q) \in Nat /\ Len(q) # 0 /\ Len(r) \in Nat
    BY EmptySeq
  <2> QED
    BY <2>1
<1>7. Threads(t) /\ Sized(t)
  BY <1>1, <1>4, <1>6 DEF Threads, Sized, Quiet
<1> QED
  BY <1>4, <1>5, <1>7 DEF Sound
(* The rest of what the threads do leaves the channel alone.               *)
LEMMA StillSound ==
  ASSUME NEW s, Sound(s), NEW t \in Session,
         t.fed = s.fed, t.msgs = s.msgs, t.open = s.open,
         s.open => t.pty = s.pty /\ t.wrote = s.wrote,
         Threads(t),
         \/ Sized(t)
         \/ /\ t.cmds = s.cmds /\ t.size = s.size /\ t.missed = s.missed /\ t.grid = s.grid
            /\ t.thread \in {"starting", "running"} => t.thread = s.thread
         \/ t.thread \in {"exiting", "joining", "ended"}
  PROVE  Sound(t)
<1>1. Flows(t)
  BY FlowStays DEF Sound
<1>2. Sized(t)
  BY DEF Sized, Sound
<1> QED
  BY <1>1, <1>2 DEF Sound

(* The program writes.                                                     *)
LEMMA WriteSound ==
  ASSUME NEW s, Sound(s), s.program = "alive" \/ s.held, NEW asks \in BOOLEAN,
         NEW n, n = s.wrote + 1,
         NEW t, t = [s EXCEPT !.wrote = n, !.asking = @ \/ asks,
                              !.pty = Append(@, IF asks THEN -n ELSE n)]
  PROVE  Sound(t)
<1> DEFINE p == IF asks THEN -n ELSE n
           q == Append(s.pty, p)
<1>1. s \in Session /\ Flows(s) /\ Threads(s) /\ Sized(s)
  BY DEF Sound
<1>2. s.wrote \in Nat /\ s.pty \in Seq(Int)
  BY <1>1 DEF Session
<1>3. n \in Nat /\ p \in Int /\ Number(p) = s.wrote + 1
  BY <1>2 DEF Number
<1> HIDE DEF p
<1>4. q \in Seq(Int)
  BY <1>2, <1>3
<1> HIDE DEF q
<1> DEFINE b == s.asking \/ asks
<1>5. t = [s EXCEPT !.wrote = n, !.asking = b, !.pty = q] /\ b \in BOOLEAN
  BY DEF p, q
<1> HIDE DEF b
<1>6. /\ t \in Session /\ t.wrote = n /\ t.pty = q /\ t.fed = s.fed /\ t.msgs = s.msgs
      /\ t.open = s.open /\ t.thread = s.thread /\ t.reader = s.reader
      /\ t.program = s.program /\ t.held = s.held /\ t.cut = s.cut /\ t.cmds = s.cmds
      /\ t.size = s.size /\ t.missed = s.missed /\ t.grid = s.grid
  BY ONLY <1>1, <1>3, <1>4, <1>5 DEF Session
<1>7. t.wrote = s.wrote + 1 /\ t.pty = Append(s.pty, p)
  BY <1>6 DEF q
<1>8. Flows(t)
  BY ONLY <1>1, <1>3, <1>6, <1>7, FlowGrows
<1>9. Threads(t) /\ Sized(t)
  BY ONLY <1>1, <1>6, s.program = "alive" \/ s.held DEF Threads, Sized, Quiet
<1> QED
  BY <1>6, <1>8, <1>9 DEF Sound

(* The program ends.                                                       *)
LEMMA KilledFacts ==
  ASSUME NEW s \in Session
  PROVE  /\ Killed(s) \in Session /\ Killed(s).program = "gone" /\ Killed(s).held = s.held
         /\ Killed(s).fed = s.fed /\ Killed(s).msgs = s.msgs /\ Killed(s).open = s.open
         /\ Killed(s).pty = s.pty /\ Killed(s).wrote = s.wrote /\ Killed(s).cut = s.cut
         /\ Killed(s).thread = s.thread /\ Killed(s).reader = s.reader
         /\ Killed(s).cmds = s.cmds /\ Killed(s).size = s.size
         /\ Killed(s).missed = s.missed /\ Killed(s).grid = s.grid
BY DEF Killed, Session

(* A thread that moves on.                                                 *)
LEMMA ThreadFacts ==
  ASSUME NEW s \in Session,
         NEW h \in {"starting", "running", "exiting", "joining", "ended"},
         NEW t, t = [s EXCEPT !.thread = h]
  PROVE  /\ t \in Session /\ t.program = s.program /\ t.held = s.held /\ t.fed = s.fed
         /\ t.msgs = s.msgs
         /\ t.open = s.open /\ t.pty = s.pty /\ t.wrote = s.wrote /\ t.cut = s.cut
         /\ t.thread = h
         /\ t.reader = s.reader /\ t.cmds = s.cmds /\ t.size = s.size
         /\ t.missed = s.missed /\ t.grid = s.grid
BY DEF Session

(* The program ends; what it wrote is still on its way.                    *)
LEMMA QuitSound ==
  ASSUME NEW s, Sound(s), s.program = "alive"
  PROVE  Sound(Killed(s))
<1>1. s \in Session /\ Threads(s)
  BY DEF Sound
<1> DEFINE t == Killed(s)
<1> HIDE DEF t
<1>2. /\ t \in Session /\ t.program = "gone"
      /\ t.fed = s.fed /\ t.msgs = s.msgs /\ t.open = s.open
      /\ t.pty = s.pty /\ t.wrote = s.wrote /\ t.cut = s.cut /\ t.thread = s.thread
      /\ t.reader = s.reader
      /\ t.cmds = s.cmds /\ t.size = s.size /\ t.missed = s.missed /\ t.grid = s.grid
  BY <1>1, KilledFacts DEF t
<1>3. Threads(t)
  BY <1>1, <1>2 DEF Threads, Quiet
<1>4. Sound(t)
  BY <1>2, <1>3, StillSound
<1> QED
  BY <1>4 DEF t

(* Another process takes hold of the terminal, or lets it go.              *)
LEMMA HeldSound ==
  ASSUME NEW s, Sound(s), NEW h \in BOOLEAN, h => s.program = "alive",
         NEW t, t = [s EXCEPT !.held = h]
  PROVE  Sound(t)
<1>1. s \in Session /\ Threads(s)
  BY DEF Sound
<1>2. /\ t \in Session /\ t.program = s.program /\ t.held = h
      /\ t.fed = s.fed /\ t.msgs = s.msgs /\ t.open = s.open
      /\ t.pty = s.pty /\ t.wrote = s.wrote /\ t.cut = s.cut /\ t.thread = s.thread
      /\ t.reader = s.reader /\ t.cmds = s.cmds /\ t.size = s.size /\ t.missed = s.missed
      /\ t.grid = s.grid
  BY ONLY <1>1, t = [s EXCEPT !.held = h], h \in BOOLEAN DEF Session
<1>3. Threads(t)
  BY <1>1, <1>2 DEF Threads, Quiet
<1> QED
  BY <1>2, <1>3, StillSound

(* A thread that leaves its loop with the program, or because the window   *)
(* is gone.                                                                *)
LEMMA LoopLeft ==
  ASSUME NEW s, Sound(s), s.thread # "starting",
         NEW h \in {"exiting", "joining", "ended"},
         NEW t \in Session, t.thread = h,
         t.program = s.program \/ t.program = "gone", t.held = s.held \/ ~t.held,
         h = "ended" /\ s.open /\ ~s.cut => Quiet(t),
         t.fed = s.fed, t.msgs = s.msgs, t.open = s.open, t.pty = s.pty,
         t.wrote = s.wrote /\ t.cut = s.cut, t.reader = s.reader
  PROVE  Sound(t)
<1>1. Threads(t)
  BY DEF Threads, Sound, Quiet
<1> QED
  BY <1>1, StillSound

-----------------------------------------------------------------------------
(* A command is taken from the queue.                                      *)
LEMMA TailFacts ==
  ASSUME NEW s \in Session, s.cmds # <<>>, NEW t, t = [s EXCEPT !.cmds = Tail(@)]
  PROVE  /\ t \in Session /\ t.cmds = Tail(s.cmds) /\ Head(s.cmds) \in Cmds
         /\ t.program = s.program /\ t.held = s.held /\ t.fed = s.fed /\ t.msgs = s.msgs
         /\ t.open = s.open /\ t.pty = s.pty /\ t.wrote = s.wrote /\ t.cut = s.cut
         /\ t.thread = s.thread
         /\ t.reader = s.reader /\ t.size = s.size /\ t.missed = s.missed /\ t.grid = s.grid
<1>1. s.cmds \in Seq(Cmds)
  BY DEF Session
<1> DEFINE c == Tail(s.cmds)
<1>2. c \in Seq(Cmds) /\ Head(s.cmds) \in Cmds
  BY <1>1, EmptySeq
<1> HIDE DEF c
<1>3. t = [s EXCEPT !.cmds = c]
  BY DEF c
<1>4. /\ t \in Session /\ t.cmds = c
      /\ t.program = s.program /\ t.held = s.held /\ t.fed = s.fed /\ t.msgs = s.msgs
      /\ t.open = s.open /\ t.pty = s.pty /\ t.wrote = s.wrote /\ t.cut = s.cut
      /\ t.thread = s.thread
      /\ t.reader = s.reader /\ t.size = s.size /\ t.missed = s.missed /\ t.grid = s.grid
  BY ONLY <1>2, <1>3, s \in Session DEF Session
<1> QED
  BY <1>2, <1>4 DEF c

(* What a command does at the far end, where it may be refused.            *)
LEMMA ObeyedFacts ==
  ASSUME NEW s \in Session, NEW c \in Cmds, NEW t, t = Obeyed(s, c) \/ t = Refused(s, c)
  PROVE  /\ t \in Session /\ t.cmds = s.cmds /\ Minded(s, t, c)
         /\ t.program = s.program /\ t.held = s.held /\ t.fed = s.fed /\ t.msgs = s.msgs
         /\ t.open = s.open /\ t.pty = s.pty /\ t.wrote = s.wrote /\ t.cut = s.cut
         /\ t.thread = s.thread /\ t.reader = s.reader /\ t.grid = s.grid
<1>1. CASE t = Obeyed(s, c) /\ c[1] = "resize"
  <2> DEFINE z == c[2]
  <2>1. z \in Sizes
    BY <1>1 DEF Cmds
  <2>2. t = [s EXCEPT !.size = z, !.missed = FALSE]
    BY <1>1 DEF Obeyed
  <2> HIDE DEF z
  <2>3. /\ t \in Session /\ t.cmds = s.cmds /\ t.size = z
        /\ t.program = s.program /\ t.held = s.held /\ t.fed = s.fed /\ t.msgs = s.msgs
        /\ t.open = s.open /\ t.pty = s.pty /\ t.wrote = s.wrote /\ t.cut = s.cut
        /\ t.thread = s.thread /\ t.reader = s.reader /\ t.grid = s.grid
    BY ONLY <2>1, <2>2, s \in Session DEF Session
  <2> QED
    BY <1>1, <2>3 DEF z, Minded
<1>2. CASE t = Obeyed(s, c) /\ c[1] = "reply"
  <2>1. t = [s EXCEPT !.asking = FALSE] /\ c[1] # "resize"
    BY <1>2 DEF Obeyed
  <2> QED
    BY ONLY <2>1, s \in Session DEF Session, Minded
<1>3. CASE t = Obeyed(s, c) /\ c[1] \notin {"resize", "reply"}
  BY <1>3 DEF Obeyed, Minded
<1>4. CASE t = Refused(s, c) /\ c[1] = "resize"
  <2>1. t = [s EXCEPT !.missed = TRUE] /\ c[1] = "resize"
    BY <1>4 DEF Refused
  <2> QED
    BY ONLY <2>1, s \in Session DEF Session, Minded
<1>5. CASE t = Refused(s, c) /\ c[1] # "resize"
  <2>1. t = [s EXCEPT !.broke = TRUE] /\ c[1] # "resize"
    BY <1>5 DEF Refused
  <2> QED
    BY ONLY <2>1, s \in Session DEF Session, Minded
<1> QED
  BY <1>1, <1>2, <1>3, <1>4, <1>5

(* A command, obeyed or refused, keeps the sizes in step, and the shell's  *)
(* loop may leave after it.                                                *)
LEMMA ObeyedSound ==
  ASSUME NEW s, Sound(s), s.thread = "running", s.cmds # <<>>,
         NEW a, a = [s EXCEPT !.cmds = Tail(@)],
         NEW t, t = Obeyed(a, Head(s.cmds)) \/ t = Refused(a, Head(s.cmds))
  PROVE  Sound(t) /\ Sound(Looped(t)) /\ Sound([t EXCEPT !.thread = "exiting"])
<1>1. s \in Session /\ Threads(s) /\ Sized(s)
  BY DEF Sound
<1>2. /\ a \in Session /\ a.cmds = Tail(s.cmds) /\ Head(s.cmds) \in Cmds
      /\ a.program = s.program /\ a.held = s.held /\ a.fed = s.fed /\ a.msgs = s.msgs
      /\ a.open = s.open /\ a.pty = s.pty /\ a.wrote = s.wrote /\ a.cut = s.cut
      /\ a.thread = s.thread /\ a.reader = s.reader /\ a.size = s.size
      /\ a.missed = s.missed /\ a.grid = s.grid
  BY <1>1, TailFacts
<1> DEFINE c == Head(s.cmds)
<1> HIDE DEF c
<1>3. /\ t \in Session /\ t.cmds = a.cmds /\ Minded(a, t, c)
      /\ t.program = a.program /\ t.held = a.held /\ t.fed = a.fed /\ t.msgs = a.msgs
      /\ t.open = a.open /\ t.pty = a.pty /\ t.wrote = a.wrote /\ t.cut = a.cut
      /\ t.thread = a.thread /\ t.reader = a.reader /\ t.grid = a.grid
  <2>1. c \in Cmds /\ (t = Obeyed(a, c) \/ t = Refused(a, c))
    BY <1>2 DEF c
  <2> QED
    BY ONLY <1>2, <2>1, ObeyedFacts, SMTT(30)
<1>4. /\ t.cmds = Tail(s.cmds) /\ Minded(s, t, c)
      /\ t.program = s.program /\ t.held = s.held /\ t.fed = s.fed /\ t.msgs = s.msgs
      /\ t.open = s.open /\ t.pty = s.pty /\ t.wrote = s.wrote /\ t.cut = s.cut
      /\ t.thread = s.thread /\ t.reader = s.reader /\ t.grid = s.grid
  BY ONLY <1>2, <1>3 DEF Minded
<1>5. Sized(t)
  <2>1. CASE s.open
    BY ONLY <1>1, <1>4, <2>1, s.thread = "running", s.cmds # <<>>, SizedNext DEF c
  <2>2. CASE ~s.open
    BY <1>4, <2>2 DEF Sized
  <2> QED
    BY <2>1, <2>2
<1>6. Threads(t)
  BY <1>1, <1>4 DEF Threads, Quiet
<1>7. Sound(t)
  BY <1>3, <1>4, <1>5, <1>6, StillSound
<1> DEFINE u == [t EXCEPT !.thread = "exiting"]
<1>8. Sound(u)
  <2>1. /\ u \in Session /\ u.program = t.program /\ u.held = t.held /\ u.fed = t.fed
        /\ u.msgs = t.msgs /\ u.open = t.open /\ u.pty = t.pty /\ u.wrote = t.wrote
        /\ u.cut = t.cut /\ u.thread = "exiting" /\ u.reader = t.reader
    BY ONLY <1>3 DEF Session
  <2> HIDE DEF u
  <2> QED
    BY <1>4, <1>7, <2>1, LoopLeft
<1> QED
  BY <1>7, <1>8 DEF Looped

(* The shell's loop leaves on Close.                                       *)
LEMMA HostClosedSound ==
  ASSUME NEW s, Sound(s), s.thread = "running",
         NEW a, a = s \/ (s.cmds # <<>> /\ a = [s EXCEPT !.cmds = Tail(@)])
  PROVE  Sound(HostClosed(a))
<1>1. s \in Session
  BY DEF Sound
<1>2. /\ a \in Session
      /\ a.program = s.program /\ a.held = s.held /\ a.fed = s.fed /\ a.msgs = s.msgs
      /\ a.open = s.open /\ a.pty = s.pty /\ a.wrote = s.wrote /\ a.cut = s.cut
      /\ a.thread = s.thread /\ a.reader = s.reader
  BY <1>1, TailFacts
<1> DEFINE k == Killed(a)
           t == [k EXCEPT !.thread = "exiting"]
<1>3. /\ k \in Session /\ k.program = "gone" /\ k.held = a.held /\ k.fed = a.fed
      /\ k.msgs = a.msgs /\ k.open = a.open /\ k.pty = a.pty /\ k.wrote = a.wrote
      /\ k.cut = a.cut /\ k.reader = a.reader
  BY <1>2, KilledFacts
<1> HIDE DEF k
<1>4. /\ t \in Session /\ t.program = "gone" /\ t.held = s.held /\ t.fed = s.fed
      /\ t.msgs = s.msgs /\ t.open = s.open /\ t.pty = s.pty /\ t.wrote = s.wrote
      /\ t.cut = s.cut /\ t.thread = "exiting" /\ t.reader = s.reader
  BY ONLY <1>2, <1>3 DEF Session
<1> HIDE DEF t
<1>5. Sound(t)
  BY <1>4, LoopLeft
<1> QED
  BY <1>5 DEF HostClosed, t, k

(* "Session closed" may overtake the last output of a shell, and is the    *)
(* last thing an SSH thread says.                                          *)
LEMMA ClosedSound ==
  ASSUME NEW s, Sound(s), s.thread # "starting", NEW h \in {"joining", "ended"},
         NEW b, b = s.held \/ b = FALSE, h = "ended" => s.pty = <<>> /\ s.program = "gone" /\ ~b,
         NEW t, t = [Sent(s, <<"closed">>) EXCEPT !.thread = h, !.held = b]
  PROVE  Sound(t)
<1> DEFINE m == <<"closed">>
           u == Sent(s, m)
<1>1. s \in Session /\ Flows(s) /\ Threads(s) /\ m \in Msgs /\ PiecesOf(m) = <<>>
  BY MessageTypes, Carried DEF Sound
<1> HIDE DEF m
<1>2. u \in Session /\ SameBehind(s, u) /\ u.cmds = s.cmds /\ u.fed = s.fed
  BY <1>1, SentFacts
<1> HIDE DEF u
<1>3. t = [u EXCEPT !.thread = h, !.held = b]
  BY DEF m, u
<1>4. h \in {"starting", "running", "exiting", "joining", "ended"} /\ b \in BOOLEAN
  BY <1>1 DEF Session
<1>5. /\ t \in Session /\ t.program = u.program /\ t.held = b /\ t.fed = u.fed
      /\ t.msgs = u.msgs
      /\ t.open = u.open /\ t.pty = u.pty /\ t.wrote = u.wrote /\ t.cut = u.cut
      /\ t.thread = h
      /\ t.reader = u.reader
  BY ONLY <1>2, <1>3, <1>4 DEF Session
<1>6. /\ t.program = s.program /\ t.fed = s.fed /\ t.open = s.open /\ t.pty = s.pty
      /\ t.wrote = s.wrote /\ t.cut = s.cut /\ t.reader = s.reader
  BY ONLY <1>2, <1>5 DEF SameBehind
<1>7. Flows(t)
  <2>1. t.msgs = Sent(s, m).msgs
    BY ONLY <1>5 DEF u
  <2> QED
    BY ONLY <1>1, <1>5, <1>6, <2>1, FlowTells
<1>8. Threads(t) /\ Sized(t)
  BY <1>1, <1>5, <1>6 DEF Threads, Sized, Quiet
<1> QED
  BY <1>5, <1>7, <1>8 DEF Sound

(* A thread that ends when the output is through, or the window is gone.   *)
LEMMA EndedSound ==
  ASSUME NEW s, Sound(s), s.thread # "starting",
         NEW a, \/ a = s /\ (s.open /\ ~s.cut => s.pty = <<>> /\ s.program # "alive")
                \/ a = Killed(s) /\ (s.open => s.pty = <<>>)
  PROVE  Sound(Ended(a))
<1>1. s \in Session
  BY DEF Sound
<1>2. /\ a \in Session /\ (a.program = s.program \/ a.program = "gone")
      /\ s.open /\ ~s.cut => s.pty = <<>> /\ a.program # "alive"
      /\ a.fed = s.fed /\ a.msgs = s.msgs /\ a.open = s.open /\ a.pty = s.pty
      /\ a.wrote = s.wrote /\ a.cut = s.cut /\ a.reader = s.reader
  BY <1>1, KilledFacts
<1> DEFINE t == Ended(a)
<1>3. t = [a EXCEPT !.thread = "ended", !.held = FALSE]
  BY DEF Ended
<1> HIDE DEF t
<1>4. /\ t \in Session /\ t.program = a.program /\ t.held = FALSE /\ t.fed = a.fed
      /\ t.msgs = a.msgs
      /\ t.open = a.open /\ t.pty = a.pty /\ t.wrote = a.wrote /\ t.cut = a.cut
      /\ t.thread = "ended"
      /\ t.reader = a.reader
  BY ONLY <1>2, <1>3 DEF Session
<1>5. s.open /\ ~s.cut => Quiet(t)
  BY <1>2, <1>4 DEF Quiet
<1>6. Sound(t)
  BY <1>2, <1>4, <1>5, LoopLeft
<1> QED
  BY <1>6 DEF t

(* The reader stops at the end of the output, when nobody hears it, or at  *)
(* an error.                                                               *)
LEMMA ReaderSound ==
  ASSUME NEW s, Sound(s), s.thread # "starting", NEW q \in Seq(Int),
         NEW b \in BOOLEAN, s.open => q = s.pty /\ (b \/ Quiet(s)), s.open /\ s.cut => b,
         NEW t, t = [s EXCEPT !.pty = q, !.reader = "done", !.cut = b]
  PROVE  Sound(t)
<1>1. s \in Session /\ Threads(s)
  BY DEF Sound
<1>2. /\ t \in Session /\ t.program = s.program /\ t.held = s.held /\ t.fed = s.fed
      /\ t.msgs = s.msgs
      /\ t.open = s.open /\ t.pty = q /\ t.wrote = s.wrote /\ t.cut = b
      /\ t.thread = s.thread
      /\ t.reader = "done" /\ t.cmds = s.cmds /\ t.size = s.size /\ t.missed = s.missed
      /\ t.grid = s.grid
  BY ONLY <1>1, t = [s EXCEPT !.pty = q, !.reader = "done", !.cut = b],
     q \in Seq(Int), b \in BOOLEAN DEF Session
<1>3. Threads(t)
  BY <1>1, <1>2 DEF Threads, Quiet
<1> QED
  BY <1>2, <1>3, StillSound, ZenonT(60)

-----------------------------------------------------------------------------
(* A session that is left is heard no more.                                *)
LEMMA LeftSound ==
  ASSUME NEW s \in Session, Flows(s), Threads(s)
  PROVE  Sound(Left(s))
<1> DEFINE t == Left(s)
<1>1. t = [s EXCEPT !.open = FALSE, !.msgs = <<>>]
  BY DEF Left
<1> HIDE DEF t
<1>2. <<>> \in Seq(Msgs) /\ s.fed \in Seq(Int)
  BY DEF Session
<1>3. /\ t \in Session /\ t.fed = s.fed /\ t.msgs = <<>> /\ t.open = FALSE
      /\ t.thread = s.thread /\ t.program = s.program /\ t.held = s.held
      /\ t.pty = s.pty /\ t.reader = s.reader
  BY ONLY <1>1, <1>2, s \in Session DEF Session
<1>4. Flows(t)
  BY <1>2, <1>3, FlowStops
<1>5. Threads(t) /\ Sized(t)
  BY <1>3 DEF Threads, Sized, Quiet
<1>6. Sound(t)
  BY <1>3, <1>4, <1>5 DEF Sound
<1> QED
  BY <1>6 DEF t

(* The flow and the threads of a session that is told something.           *)
LEMMA ToldFlows ==
  ASSUME NEW s \in Session, NEW t, Flows(s), Threads(s),
         t.program = s.program /\ t.held = s.held, t.fed = s.fed, t.msgs = s.msgs, t.open = s.open,
         t.pty = s.pty, t.wrote = s.wrote /\ t.cut = s.cut, t.thread = s.thread, t.reader = s.reader
  PROVE  Flows(t) /\ Threads(t)
<1>1. Flows(t)
  BY FlowStays
<1> QED
  BY <1>1 DEF Threads, Quiet

(* The window tells a session to close and leaves it.                      *)
LEMMA LeaveSound ==
  ASSUME NEW s \in Session, Flows(s), Threads(s), NEW c \in Seq(Cmds)
  PROVE  Sound(Left(Told(s, c)))
<1> DEFINE d == s.cmds \o c
           t == Told(s, c)
<1>1. s.cmds \in Seq(Cmds)
  BY DEF Session
<1>2. d \in Seq(Cmds)
  BY <1>1
<1>3. t = [s EXCEPT !.cmds = d]
  BY DEF Told
<1> HIDE DEF d, t
<1>4. /\ t \in Session /\ t.program = s.program /\ t.held = s.held /\ t.fed = s.fed
      /\ t.msgs = s.msgs
      /\ t.open = s.open /\ t.pty = s.pty /\ t.wrote = s.wrote /\ t.cut = s.cut
      /\ t.thread = s.thread
      /\ t.reader = s.reader
  BY ONLY <1>2, <1>3, s \in Session DEF Session
<1>5. Flows(t) /\ Threads(t)
  BY <1>4, ToldFlows
<1>6. Sound(Left(t))
  BY <1>4, <1>5, LeftSound
<1> QED
  BY <1>6 DEF t

(* A session that was just opened, shown or not.                           *)
LEMMA OpenedSound ==
  ASSUME NEW kind \in {"shell", "ssh"}
  PROVE  /\ Sound(NewSessionOf(kind))
         /\ Sound(Left(Told(NewSessionOf(kind), <<<<"close">>>>)))
<1> DEFINE s == NewSessionOf(kind)
           c == <<<<"close">>>>
<1>1. s \in Session
  BY StartAssumption DEF NewSessionOf, Session
<1>2. /\ s.fed = <<>> /\ s.msgs = <<>> /\ s.pty = <<>> /\ s.wrote = 0 /\ s.cmds = <<>>
      /\ s.program = "none" /\ s.thread = "starting" /\ s.reader = "none" /\ s.held = FALSE
      /\ s.size = s.grid /\ s.grid \in Sizes
  BY StartAssumption DEF NewSessionOf
<1> HIDE DEF s
<1>3. Flows(s)
  <2> DEFINE at == [j \in 0 .. 0 |-> 0]
  <2>1. at \in [0 .. 0 -> Nat] /\ at[0] = 0 /\ Len(s.msgs) = 0 /\ Len(s.fed) = 0 /\ Len(s.pty) = 0
    BY <1>2
  <2> HIDE DEF at
  <2>2. From(s.fed, 0) /\ From(s.pty, at[0]) /\ \A j \in 1 .. Len(s.msgs) : FALSE
    BY <2>1 DEF From
  <2>3. Flow(s, at)
    BY <1>2, <2>1, <2>2 DEF Flow
  <2> QED
    BY <2>3 DEF Flows
<1>4. Threads(s) /\ Sized(s)
  BY <1>2 DEF Threads, Sized, NoResize, Quiet
<1>5. c \in Seq(Cmds)
  <2>1. <<"close">> \in Cmds
    BY DEF Cmds
  <2> QED
    BY <2>1
<1> HIDE DEF c
<1>6. Sound(Left(Told(s, c)))
  BY <1>1, <1>3, <1>4, <1>5, LeaveSound
<1>7. Sound(s)
  BY <1>1, <1>3, <1>4 DEF Sound
<1> QED
  BY <1>6, <1>7 DEF s, c

(* What the window sends in a frame: a resize exactly if the size is new.  *)
LEMMA AskedFacts ==
  ASSUME NEW s, NEW z \in Sizes, NEW typed \in BOOLEAN, NEW leave \in BOOLEAN,
         NEW c, c = (IF leave THEN <<<<"close">>>> ELSE <<>>) \o ResizeOf(s, z)
                      \o (IF typed THEN <<<<"input">>>> ELSE <<>>)
  PROVE  /\ c \in Seq(Cmds)
         /\ z = s.grid => NoResize(c)
         /\ z # s.grid => LastResize(c, z)
<1> DEFINE a == IF leave THEN <<<<"close">>>> ELSE <<>>
           r == ResizeOf(s, z)
           k == IF typed THEN <<<<"input">>>> ELSE <<>>
           One(x) == <<x>>
<1>1. ASSUME NEW x \in Cmds PROVE One(x) \in Seq(Cmds) /\ Len(One(x)) = 1 /\ One(x)[1] = x
  OBVIOUS
<1>2. <<>> \in Seq(Cmds) /\ NoResize(<<>>)
  BY DEF NoResize
<1>3. ASSUME NEW x \in Cmds, x[1] # "resize" PROVE One(x) \in Seq(Cmds) /\ NoResize(One(x))
  BY <1>1, <1>3 DEF NoResize
<1> HIDE DEF One
<1>4. /\ <<"close">> \in Cmds /\ <<"close">>[1] # "resize"
      /\ <<"input">> \in Cmds /\ <<"input">>[1] # "resize"
      /\ <<"resize", z>> \in Cmds
  BY DEF Cmds
<1>5. a \in Seq(Cmds) /\ NoResize(a) /\ k \in Seq(Cmds) /\ NoResize(k)
  <2>1. a = One(<<"close">>) \/ a = <<>>
    BY DEF One
  <2>2. k = One(<<"input">>) \/ k = <<>>
    BY DEF One
  <2> HIDE DEF a, k
  <2>3. /\ One(<<"close">>) \in Seq(Cmds) /\ NoResize(One(<<"close">>))
        /\ One(<<"input">>) \in Seq(Cmds) /\ NoResize(One(<<"input">>))
    BY ONLY <1>3, <1>4
  <2> QED
    BY ONLY <1>2, <2>1, <2>2, <2>3
<1>6. z = s.grid => r = <<>>
  BY DEF ResizeOf
<1>7. z # s.grid => r = One(<<"resize", z>>)
  BY DEF ResizeOf, One
<1>8. c = (a \o r) \o k
  OBVIOUS
<1> HIDE DEF a, r, k
<1>9. CASE z = s.grid
  <2>1. r \in Seq(Cmds) /\ NoResize(r)
    BY <1>2, <1>6, <1>9
  <2>2. a \o r \in Seq(Cmds) /\ NoResize(a \o r)
    BY ONLY <1>5, <2>1, NoMoreResizes
  <2> DEFINE x == a \o r
  <2> HIDE DEF x
  <2>3. x \in Seq(Cmds) /\ NoResize(x)
    BY ONLY <2>2 DEF x
  <2>4. x \o k \in Seq(Cmds) /\ NoResize(x \o k)
    BY ONLY <1>5, <2>3, NoMoreResizes
  <2> QED
    BY <1>8, <1>9, <2>4 DEF x
<1>10. CASE z # s.grid
  <2>1. r \in Seq(Cmds) /\ LastResize(r, z)
    <3> DEFINE x == <<"resize", z>>
    <3> HIDE DEF x
    <3>1. x \in Cmds /\ r = One(x)
      BY <1>4, <1>7, <1>10 DEF x
    <3>2. r \in Seq(Cmds) /\ Len(r) = 1 /\ r[1] = x
      BY <1>1, <3>1
    <3>3. 1 \in 1 .. Len(r) /\ \A j \in 1 + 1 .. Len(r) : FALSE
      BY <3>2
    <3> QED
      BY <3>2, <3>3 DEF LastResize, x
  <2>2. a \o r \in Seq(Cmds) /\ LastResize(a \o r, z)
    BY ONLY <1>5, <2>1, ResizeBehind
  <2> DEFINE x == a \o r
  <2> HIDE DEF x
  <2>3. x \in Seq(Cmds) /\ LastResize(x, z)
    BY ONLY <2>2 DEF x
  <2>4. x \o k \in Seq(Cmds) /\ LastResize(x \o k, z)
    BY ONLY <1>5, <2>3, NoMoreResizes
  <2> QED
    BY <1>8, <1>10, <2>4 DEF x
<1> QED
  BY <1>9, <1>10

(* A frame takes in what came, and sends the size when it is new.          *)
LEMMA FrameSound ==
  ASSUME NEW e, Sound(e), NEW s, s = Drained(e),
         NEW z \in Sizes, NEW typed \in BOOLEAN, NEW leave \in BOOLEAN,
         NEW c, c = (IF leave THEN <<<<"close">>>> ELSE <<>>) \o ResizeOf(s, z)
                      \o (IF typed THEN <<<<"input">>>> ELSE <<>>),
         NEW t, t = [Told(s, c) EXCEPT !.grid = z]
  PROVE  Sound(t) /\ Sound(Left(t))
<1>1. e \in Session /\ Flows(e) /\ Threads(e) /\ Sized(e)
  BY DEF Sound
<1>2. s \in Session /\ Flows(s) /\ SameBehind(e, s) /\ SameSizes(e, s)
  BY <1>1, DrainedFacts
<1>3. /\ c \in Seq(Cmds)
      /\ z = s.grid => NoResize(c)
      /\ z # s.grid => LastResize(c, z)
  BY AskedFacts
<1>4. /\ t \in Session /\ t.cmds = s.cmds \o c /\ t.grid = z
      /\ t.program = s.program /\ t.held = s.held /\ t.fed = s.fed /\ t.msgs = s.msgs
      /\ t.open = s.open /\ t.pty = s.pty /\ t.wrote = s.wrote /\ t.cut = s.cut
      /\ t.thread = s.thread
      /\ t.reader = s.reader /\ t.size = s.size /\ t.missed = s.missed
  <2> DEFINE d == s.cmds \o c
  <2>1. s.cmds \in Seq(Cmds)
    BY <1>2 DEF Session
  <2>2. d \in Seq(Cmds)
    BY <1>3, <2>1
  <2>3. t = [s EXCEPT !.cmds = d, !.grid = z]
    BY DEF Told
  <2> HIDE DEF d
  <2>4. /\ t \in Session /\ t.cmds = d /\ t.grid = z
        /\ t.program = s.program /\ t.held = s.held /\ t.fed = s.fed /\ t.msgs = s.msgs
        /\ t.open = s.open /\ t.pty = s.pty /\ t.wrote = s.wrote /\ t.cut = s.cut
        /\ t.thread = s.thread
        /\ t.reader = s.reader /\ t.size = s.size /\ t.missed = s.missed
    BY ONLY <1>2, <2>2, <2>3, z \in Sizes DEF Session
  <2> QED
    BY ONLY <2>4 DEF d
<1>5. Threads(s) /\ Sized(s)
  BY ONLY <1>1, <1>2 DEF Threads, Sized, SameBehind, SameSizes, Quiet
<1>6. Flows(t) /\ Threads(t)
  BY ONLY <1>2, <1>4, <1>5, ToldFlows
<1>7. s.cmds \in Seq(Cmds)
  BY <1>2 DEF Session
<1>8. CASE z = s.grid
  <2>1. /\ NoResize(s.cmds) => NoResize(t.cmds)
        /\ LastResize(s.cmds, s.grid) => LastResize(t.cmds, s.grid)
    BY ONLY <1>3, <1>4, <1>7, <1>8, NoMoreResizes
  <2> QED
    <3>1. Sized(t)
      BY ONLY <1>4, <1>5, <1>8, <2>1 DEF Sized
    <3>2. Sound(t)
      BY <1>4, <1>6, <3>1 DEF Sound
    <3> QED
      BY <1>4, <1>6, <3>2, LeftSound
<1>9. CASE z # s.grid
  <2>1. LastResize(t.cmds, t.grid)
    BY ONLY <1>3, <1>4, <1>7, <1>9, ResizeBehind
  <2>2. Sound(t)
    BY <1>4, <1>6, <2>1 DEF Sound, Sized
  <2> QED
    BY <1>4, <1>6, <2>2, LeftSound
<1> QED
  BY <1>8, <1>9

-----------------------------------------------------------------------------
(* One session changes.                                                    *)
LEMMA OneChanges ==
  ASSUME GuiInv, NEW i \in DOMAIN sessions, NEW t, Sound(t), Update(i, t),
         screen' \in Nat \union {Exited}
  PROVE  GuiInv'
<1> DEFINE n == Len(sessions)
<1>1. sessions \in Seq(Session) /\ i \in 1 .. n /\ n \in Nat /\ t \in Session
  BY DEF GuiInv, Sound
<1>2. sessions' = [sessions EXCEPT ![i] = t]
  BY DEF Update
<1>3. /\ sessions' \in Seq(Session) /\ Len(sessions') = n /\ sessions'[i] = t
      /\ \A j \in 1 .. n : j # i => sessions'[j] = sessions[j]
  BY ONLY <1>1, <1>2
<1> HIDE DEF n
<1>4. \A j \in 1 .. n : Sound(sessions'[j])
  <2> TAKE j \in 1 .. n
  <2>1. CASE j = i
    BY <1>3, <2>1
  <2>2. CASE j # i
    BY <1>3, <2>2 DEF GuiInv, n
  <2> QED
    BY <2>1, <2>2
<1>5. /\ screen' \in Nat \union {Exited}
      /\ sessions' \in Seq(Session)
      /\ \A j \in 1 .. Len(sessions') : Sound(sessions'[j])
  BY <1>3, <1>4
<1> HIDE DEF Sound
<1> QED
  BY <1>5 DEF GuiInv

(* A session is opened.                                                    *)
LEMMA OneMore ==
  ASSUME GuiInv, NEW t, Sound(t), sessions' = Append(sessions, t),
         screen' \in Nat \union {Exited}
  PROVE  GuiInv'
<1> DEFINE n == Len(sessions)
<1>1. sessions \in Seq(Session) /\ n \in Nat /\ t \in Session
  BY DEF GuiInv, Sound
<1>2. /\ sessions' \in Seq(Session) /\ Len(sessions') = n + 1 /\ sessions'[n + 1] = t
      /\ \A j \in 1 .. n : sessions'[j] = sessions[j]
  BY ONLY <1>1, sessions' = Append(sessions, t)
<1> HIDE DEF n
<1>3. \A j \in 1 .. n + 1 : Sound(sessions'[j])
  <2> TAKE j \in 1 .. n + 1
  <2>1. CASE j = n + 1
    BY <1>2, <2>1
  <2>2. CASE j # n + 1
    <3>1. j \in 1 .. n
      BY <1>1, <2>2
    <3> QED
      BY <1>2, <3>1 DEF GuiInv, n
  <2> QED
    BY <2>1, <2>2
<1>4. /\ screen' \in Nat \union {Exited}
      /\ sessions' \in Seq(Session)
      /\ \A j \in 1 .. Len(sessions') : Sound(sessions'[j])
  BY <1>2, <1>3
<1> QED
  BY <1>4 DEF GuiInv

-----------------------------------------------------------------------------
(* The first state.                                                        *)
LEMMA InitInv == Init => GuiInv
BY DEF Init, GuiInv, Launcher

(* The threads that start a backend, one action after the other.           *)
LEMMA StartKeeps ==
  ASSUME GuiInv, NEW i \in DOMAIN sessions, StartShell(i) \/ StartSsh(i)
  PROVE  GuiInv'
<1> DEFINE s == sessions[i]
<1>1. Sound(s) /\ s \in Session
  BY DEF GuiInv, Sound
<1>2. screen \in Nat \union {Exited}
  BY DEF GuiInv
<1> SUFFICES \E t : Sound(t) /\ Update(i, t) /\ screen' = screen
  BY <1>2, OneChanges
<1>3. CASE ShellFails(i)
  <2>1. PICK p \in {"none", "gone"} :
          Update(i, Ended([Sent(s, <<"failed">>) EXCEPT !.program = p]))
    BY <1>3 DEF ShellFails
  <2>2. s.thread = "starting" /\ screen' = screen
    BY <1>3 DEF ShellFails, Thread
  <2> HIDE DEF s
  <2>3. Sound(Ended([Sent(s, <<"failed">>) EXCEPT !.program = p]))
    BY <1>1, <2>2, FailureSound
  <2> QED
    BY <2>1, <2>2, <2>3
<1>4. CASE ShellStarts(i)
  <2> DEFINE t == IF s.open
                  THEN [Sent([s EXCEPT !.program = "alive"], <<"connected">>)
                          EXCEPT !.thread = "running", !.reader = "reading"]
                  ELSE Ended(Killed([s EXCEPT !.program = "alive"]))
  <2>1. s.thread = "starting" /\ screen' = screen
    BY <1>4 DEF ShellStarts, Thread
  <2>2. Update(i, t)
    <3> DEFINE a == [s EXCEPT !.program = "alive"]
    <3>1. a.open = s.open
      BY <1>1 DEF Session
    <3>2. Update(i, IF a.open
                    THEN [Sent(a, <<"connected">>) EXCEPT !.thread = "running", !.reader = "reading"]
                    ELSE Ended(Killed(a)))
      <4>1. Update(i, IF s.open
                    THEN [Sent(a, <<"connected">>) EXCEPT !.thread = "running", !.reader = "reading"]
                    ELSE Ended(Killed(a)))
        BY <1>4 DEF ShellStarts
      <4> QED
        BY <3>1, <4>1
    <3> QED
      BY <3>1, <3>2
  <2> HIDE DEF s
  <2>3. Sound(t)
    BY <1>1, <2>1, StartSound
  <2> QED
    BY <2>1, <2>2, <2>3
<1>5. CASE SshFails(i)
  <2>1. s.thread = "starting" /\ screen' = screen
    BY <1>5 DEF SshFails, Thread
  <2> DEFINE u == Sent(s, <<"failed">>)
             t == Ended([u EXCEPT !.program = "none"])
  <2>2. Update(i, Ended(u))
    BY <1>5 DEF SshFails
  <2>3. u \in Session /\ u.program = "none"
    <3>1. s.program = "none"
      BY <1>1, <2>1 DEF Sound, Threads
    <3>2. u \in Session /\ SameBehind(s, u)
      BY <1>1, MessageTypes, SentFacts
    <3> QED
      BY <3>1, <3>2 DEF SameBehind
  <2>4. [u EXCEPT !.program = "none"] = u
    <3> HIDE DEF u
    <3> QED
      BY <2>3 DEF Session
  <2> HIDE DEF s
  <2>5. Sound(t)
    BY <1>1, <2>1, FailureSound
  <2> QED
    BY <2>1, <2>2, <2>4, <2>5
<1>6. CASE SshConnects(i)
  <2> DEFINE a == [s EXCEPT !.program = "alive"]
             u == Sent(a, <<"connected">>)
             t == IF s.open
                  THEN [u EXCEPT !.thread = "running", !.reader = "none"]
                  ELSE Ended(Killed(a))
  <2>1. s.thread = "starting" /\ screen' = screen
    BY <1>6 DEF SshConnects, Thread
  <2>2. a.open = s.open /\ a \in Session /\ a.reader = s.reader
    BY <1>1 DEF Session
  <2>3. Update(i, IF s.open THEN [u EXCEPT !.thread = "running"] ELSE Ended(Killed(a)))
    BY <1>6, <2>2 DEF SshConnects
  <2>4. u \in Session /\ u.reader = "none"
    <3>1. s.reader = "none"
      BY <1>1, <2>1 DEF Sound, Threads
    <3> HIDE DEF a
    <3>2. u \in Session /\ SameBehind(a, u)
      BY <2>2, MessageTypes, SentFacts
    <3> QED
      BY <2>2, <3>1, <3>2 DEF SameBehind
  <2>5. [u EXCEPT !.thread = "running", !.reader = "none"] = [u EXCEPT !.thread = "running"]
    <3> HIDE DEF u
    <3> QED
      BY <2>4 DEF Session
  <2> HIDE DEF s
  <2>6. Sound(t)
    BY <1>1, <2>1, StartSound
  <2> QED
    BY <2>1, <2>3, <2>5, <2>6
<1> QED
  BY <1>3, <1>4, <1>5, <1>6 DEF StartShell, StartSsh

(* The reader thread of a local shell.                                     *)
LEMMA ReaderKeeps ==
  ASSUME GuiInv, NEW i \in DOMAIN sessions, Reader(i)
  PROVE  GuiInv'
<1> DEFINE s == sessions[i]
<1>1. Sound(s) /\ s \in Session
  BY DEF GuiInv, Sound
<1>2. screen \in Nat \union {Exited}
  BY DEF GuiInv
<1> SUFFICES \E t : Sound(t) /\ Update(i, t) /\ screen' = screen
  BY <1>2, OneChanges
<1>3. s.reader = "reading" /\ screen' = screen
  BY DEF Reader, Read, ReadFails, ReadEof
<1>4. s.thread # "starting"
  BY <1>1, <1>3 DEF Sound, Threads
<1>5. s.pty \in Seq(Int)
  BY <1>1 DEF Session
<1>6. CASE Read(i)
  <2>1. PICK k \in 1 .. Len(s.pty) :
          LET a == [s EXCEPT !.pty = SubSeq(@, k + 1, Len(@))]
          IN  Update(i, IF a.open THEN Sent(a, <<"data", SubSeq(s.pty, 1, k)>>)
                        ELSE [a EXCEPT !.reader = "done"])
    BY <1>6 DEF Read
  <2> DEFINE q == SubSeq(s.pty, 1, k)
             r == SubSeq(s.pty, k + 1, Len(s.pty))
             a == [s EXCEPT !.pty = r]
  <2>2. a.open = s.open /\ a.msgs = s.msgs
    BY <1>1 DEF Session
  <2>3. Update(i, IF s.open THEN Sent(a, <<"data", q>>) ELSE [a EXCEPT !.reader = "done"])
    BY <2>1, <2>2
  <2>4. /\ q \in Seq(Int) /\ r \in Seq(Int) /\ Len(q) = k /\ Len(r) = Len(s.pty) - k
        /\ \A j \in 1 .. k : q[j] = s.pty[j]
        /\ \A j \in 1 .. Len(s.pty) - k : r[j] = s.pty[k + j]
    BY <1>5
  <2> HIDE DEF q, r
  <2>5. CASE s.open
    <3> DEFINE m == <<"data", q>>
               t == [Sent(s, m) EXCEPT !.pty = r]
    <3>1. Sent(a, m) = t
      <4> HIDE DEF m
      <4>1. Sent(a, m) = [a EXCEPT !.msgs = Append(s.msgs, m)]
        BY <2>2, <2>5 DEF Sent
      <4>2. Sent(s, m) = [s EXCEPT !.msgs = Append(s.msgs, m)]
        BY <2>5 DEF Sent
      <4> DEFINE y == Append(s.msgs, m)
      <4> HIDE DEF y, s
      <4>3. [[s EXCEPT !.pty = r] EXCEPT !.msgs = y] = [[s EXCEPT !.msgs = y] EXCEPT !.pty = r]
        BY ONLY <1>1 DEF Session
      <4> QED
        BY <4>1, <4>2, <4>3 DEF y
    <3>2. q # <<>>
      <4>1. Len(q) # 0
        BY <2>4
      <4> QED
        BY <4>1
    <3>3. /\ Len(q) + Len(r) = Len(s.pty)
          /\ \A j \in 1 .. Len(q) : q[j] = s.pty[j]
          /\ \A j \in 1 .. Len(r) : r[j] = s.pty[Len(q) + j]
      BY <1>5, <2>4
    <3> HIDE DEF s
    <3>4. Sound(t)
      BY <1>1, <1>4, <2>4, <2>5, <3>2, <3>3, ReadSound
    <3> QED
      BY <1>3, <2>3, <2>5, <3>1, <3>4
  <2>6. CASE ~s.open
    <3> DEFINE b == s.cut
               t == [s EXCEPT !.pty = r, !.reader = "done", !.cut = b]
    <3>1. t = [a EXCEPT !.reader = "done"] /\ b \in BOOLEAN
      <4> HIDE DEF s
      <4> QED
        BY ONLY <1>1 DEF Session, a
    <3> HIDE DEF s, b
    <3>2. Sound(t)
      BY <1>1, <1>4, <2>4, <2>6, <3>1, ReaderSound
    <3> QED
      BY <1>3, <2>3, <2>6, <3>1, <3>2
  <2> QED
    BY <2>5, <2>6
<1>7. CASE ReadEof(i)
  <2> DEFINE q == s.pty
             b == s.cut
             t == [s EXCEPT !.pty = q, !.reader = "done", !.cut = b]
  <2>1. Quiet(s) /\ Update(i, [s EXCEPT !.reader = "done"])
    BY <1>7 DEF ReadEof, AtEof, Quiet
  <2>2. t = [s EXCEPT !.reader = "done"]
    <3> HIDE DEF s
    <3> QED
      BY <1>1 DEF Session
  <2>3. q \in Seq(Int) /\ q = s.pty /\ b \in BOOLEAN /\ b = s.cut
    BY <1>1, <1>5 DEF Session
  <2> HIDE DEF s, q, b
  <2>4. Sound(t)
    BY <1>1, <1>4, <2>1, <2>3, ReaderSound
  <2> QED
    BY <1>3, <2>1, <2>2, <2>4
<1>8. CASE ReadFails(i)
  <2> DEFINE q == s.pty
             t == [s EXCEPT !.pty = q, !.reader = "done", !.cut = TRUE]
  <2>1. Update(i, [s EXCEPT !.reader = "done", !.cut = TRUE])
    BY <1>8 DEF ReadFails
  <2>2. t = [s EXCEPT !.reader = "done", !.cut = TRUE]
    <3> HIDE DEF s
    <3> QED
      BY <1>1 DEF Session
  <2> HIDE DEF s, q
  <2>3. q \in Seq(Int) /\ q = s.pty
    BY <1>5 DEF q
  <2>4. Sound(t)
    BY <1>1, <1>4, <2>3, ReaderSound
  <2> QED
    BY <1>3, <2>1, <2>2, <2>4
<1> QED
  BY <1>6, <1>7, <1>8 DEF Reader

(* The host loop of a local shell and what comes after it.                 *)
LEMMA HostKeeps ==
  ASSUME GuiInv, NEW i \in DOMAIN sessions, Host(i)
  PROVE  GuiInv'
<1> DEFINE s == sessions[i]
<1>1. Sound(s) /\ s \in Session
  BY DEF GuiInv, Sound
<1>2. screen \in Nat \union {Exited}
  BY DEF GuiInv
<1> SUFFICES \E t : Sound(t) /\ Update(i, t) /\ screen' = screen
  BY <1>2, OneChanges
<1>3. CASE HostCommand(i)
  <2> DEFINE a == [s EXCEPT !.cmds = Tail(@)]
             c == Head(s.cmds)
  <2>1. s.thread = "running" /\ s.cmds # <<>> /\ screen' = screen
    BY <1>3 DEF HostCommand, Thread
  <2>2. \/ Update(i, HostClosed(a))
        \/ Update(i, Looped(Obeyed(a, c)))
        \/ Update(i, Looped(Refused(a, c)))
        \/ Update(i, [Refused(a, c) EXCEPT !.thread = "exiting"])
    BY <1>3 DEF HostCommand
  <2> HIDE DEF s
  <2>3. Sound(HostClosed(a))
    BY <1>1, <2>1, HostClosedSound
  <2>4. /\ Sound(Looped(Obeyed(a, c))) /\ Sound(Looped(Refused(a, c)))
        /\ Sound([Refused(a, c) EXCEPT !.thread = "exiting"])
    BY <1>1, <2>1, ObeyedSound
  <2> QED
    BY <2>1, <2>2, <2>3, <2>4
<1>4. CASE HostIdle(i)
  <2>1. s.thread = "running" /\ screen' = screen
    BY <1>4 DEF HostIdle, Thread
  <2>2. Update(i, Looped(s)) \/ Update(i, HostClosed(s))
    BY <1>4 DEF HostIdle
  <2> HIDE DEF s
  <2>3. Sound(HostClosed(s))
    BY <1>1, <2>1, HostClosedSound
  <2>4. Sound(Looped(s))
    <3> DEFINE t == [s EXCEPT !.thread = "exiting"]
    <3>1. /\ t \in Session /\ t.program = s.program /\ t.held = s.held /\ t.fed = s.fed
          /\ t.msgs = s.msgs
          /\ t.open = s.open /\ t.pty = s.pty /\ t.wrote = s.wrote /\ t.cut = s.cut
          /\ t.thread = "exiting"
          /\ t.reader = s.reader
      BY ONLY <1>1 DEF Session
    <3> HIDE DEF t
    <3>2. Sound(t)
      BY <1>1, <2>1, <3>1, LoopLeft
    <3> QED
      BY <1>1, <3>2 DEF Looped, t
  <2> QED
    BY <2>1, <2>2, <2>3, <2>4
<1>5. CASE SendExited(i)
  <2> DEFINE b == s.held
             u == Sent(s, <<"closed">>)
             t == [u EXCEPT !.thread = "joining", !.held = b]
  <2>1. /\ s.thread = "exiting" /\ Update(i, [u EXCEPT !.thread = "joining"])
        /\ screen' = screen
    BY <1>5 DEF SendExited, Thread
  <2>2. t = [u EXCEPT !.thread = "joining"]
    <3>1. u \in Session /\ u.held = b
      BY <1>1, MessageTypes, SentFacts DEF SameBehind
    <3> HIDE DEF u, b
    <3> QED
      BY <3>1 DEF Session
  <2>3. b = s.held
    OBVIOUS
  <2> HIDE DEF s, b
  <2>4. Sound(t)
    BY <1>1, <2>1, <2>3, ClosedSound
  <2> QED
    BY <2>1, <2>2, <2>4
<1>6. CASE JoinReader(i)
  <2>1. /\ s.thread = "joining" /\ s.reader = "done"
        /\ Update(i, Ended(s)) /\ screen' = screen
    BY <1>6 DEF JoinReader, Thread
  <2>2. s.open /\ ~s.cut => s.pty = <<>> /\ s.program # "alive"
    BY <1>1, <2>1 DEF Sound, Threads, Quiet
  <2> HIDE DEF s
  <2>3. Sound(Ended(s))
    BY <1>1, <2>1, <2>2, EndedSound
  <2> QED
    BY <2>1, <2>3
<1> QED
  BY <1>3, <1>4, <1>5, <1>6 DEF Host

(* The thread of an SSH session.                                           *)
LEMMA SshKeeps ==
  ASSUME GuiInv, NEW i \in DOMAIN sessions, SshThread(i)
  PROVE  GuiInv'
<1> DEFINE s == sessions[i]
<1>1. Sound(s) /\ s \in Session
  BY DEF GuiInv, Sound
<1>2. screen \in Nat \union {Exited}
  BY DEF GuiInv
<1> SUFFICES \E t : Sound(t) /\ Update(i, t) /\ screen' = screen
  BY <1>2, OneChanges
<1>3. s.thread = "running" /\ screen' = screen /\ s.pty \in Seq(Int)
  BY <1>1 DEF SshThread, SshEvent, SshCommand, Thread, Session
<1>4. CASE SshEvent(i) /\ AtEof(s)
  <2> DEFINE t == [Sent(s, <<"closed">>) EXCEPT !.thread = "ended", !.held = FALSE]
  <2>1. Update(i, t) /\ s.program = "gone" /\ s.pty = <<>>
    BY <1>4 DEF SshEvent, AtEof, Ended
  <2> HIDE DEF s
  <2>2. Sound(t)
    BY <1>1, <1>3, <2>1, ClosedSound
  <2> QED
    BY <1>3, <2>1, <2>2
<1>5. CASE SshEvent(i) /\ ~AtEof(s)
  <2>1. /\ s.pty # <<>>
        /\ Update(i, IF s.open
                     THEN [Sent(s, <<"data", <<Head(s.pty)>>>>) EXCEPT !.pty = Tail(@)]
                     ELSE Ended(Killed(s)))
    BY <1>5 DEF SshEvent
  <2>2. CASE s.open
    <3> DEFINE p == Head(s.pty)
               q == <<p>>
               r == Tail(s.pty)
               m == <<"data", q>>
               t == [Sent(s, m) EXCEPT !.pty = r]
    <3>1. Sent(s, m).pty = s.pty
      <4> HIDE DEF m
      <4> QED
        BY <1>1 DEF Sent, Session
    <3>2. Update(i, t)
      <4>1. Update(i, [Sent(s, m) EXCEPT !.pty = Tail(@)])
        BY <2>1, <2>2
      <4> DEFINE u == Sent(s, m)
      <4>2. [u EXCEPT !.pty = Tail(@)] = [u EXCEPT !.pty = r]
        <5>1. u.pty = s.pty
          BY <3>1
        <5> HIDE DEF u
        <5> QED
          BY <5>1
      <4> QED
        BY <4>1, <4>2
    <3>3. /\ p \in Int /\ p = s.pty[1] /\ r \in Seq(Int) /\ Len(r) = Len(s.pty) - 1
          /\ \A j \in 1 .. Len(s.pty) - 1 : r[j] = s.pty[1 + j]
      BY <1>3, <2>1
    <3> HIDE DEF p, r
    <3>4. q \in Seq(Int) /\ Len(q) = 1 /\ q[1] = p /\ q # <<>>
      BY <3>3
    <3> HIDE DEF q
    <3>5. /\ Len(q) + Len(r) = Len(s.pty)
          /\ \A j \in 1 .. Len(q) : q[j] = s.pty[j]
          /\ \A j \in 1 .. Len(r) : r[j] = s.pty[Len(q) + j]
      BY <1>3, <3>3, <3>4
    <3> HIDE DEF s
    <3>6. Sound(t)
      BY <1>1, <1>3, <2>2, <3>3, <3>4, <3>5, ReadSound
    <3> QED
      BY <1>3, <3>2, <3>6
  <2>3. CASE ~s.open
    <3> HIDE DEF s
    <3>1. Sound(Ended(Killed(s)))
      BY <1>1, <1>3, <2>3, EndedSound
    <3> QED
      BY <1>3, <2>1, <2>3, <3>1
  <2> QED
    BY <2>2, <2>3
<1>6. CASE SshCommand(i)
  <2> DEFINE a == [s EXCEPT !.cmds = Tail(@)]
             c == Head(s.cmds)
  <2>1. /\ s.pty = <<>>
        /\ \/ s.cmds # <<>> /\ Update(i, Obeyed(a, c))
           \/ s.cmds # <<>> /\ Update(i, Refused(a, c))
           \/ Update(i, Ended(Killed(s)))
    BY <1>6 DEF SshCommand
  <2> HIDE DEF s
  <2>2. Sound(Ended(Killed(s)))
    BY <1>1, <1>3, <2>1, EndedSound
  <2>3. s.cmds # <<>> => Sound(Obeyed(a, c)) /\ Sound(Refused(a, c))
    BY <1>1, <1>3, ObeyedSound
  <2> QED
    BY <1>3, <2>1, <2>2, <2>3
<1> QED
  BY <1>4, <1>5, <1>6 DEF SshThread

(* The program at the far end.                                             *)
LEMMA ProgramKeeps ==
  ASSUME GuiInv, NEW i \in DOMAIN sessions, Program(i)
  PROVE  GuiInv'
<1> DEFINE s == sessions[i]
<1>1. Sound(s)
  BY DEF GuiInv
<1>2. screen \in Nat \union {Exited}
  BY DEF GuiInv
<1> SUFFICES \E t : Sound(t) /\ Update(i, t) /\ screen' = screen
  BY <1>2, OneChanges
<1>3. screen' = screen
  BY DEF Program, Write, Quit, Background, Release
<1>4. CASE Write(i)
  <2> DEFINE n == s.wrote + 1
  <2>1. PICK asks \in BOOLEAN :
          Update(i, [s EXCEPT !.wrote = n, !.asking = @ \/ asks,
                              !.pty = Append(@, IF asks THEN -n ELSE n)])
    BY <1>4 DEF Write
  <2>2. s.program = "alive" \/ s.held
    BY <1>4 DEF Write, Awake
  <2> HIDE DEF s
  <2>3. Sound([s EXCEPT !.wrote = n, !.asking = @ \/ asks,
                        !.pty = Append(@, IF asks THEN -n ELSE n)])
    BY <1>1, <2>2, WriteSound
  <2> QED
    BY <1>3, <2>1, <2>3
<1>5. CASE Quit(i)
  <2>1. Update(i, Killed(s)) /\ s.program = "alive"
    BY <1>5 DEF Quit
  <2> HIDE DEF s
  <2>2. Sound(Killed(s))
    BY <1>1, <2>1, QuitSound
  <2> QED
    BY <1>3, <2>1, <2>2
<1>6. CASE Background(i) \/ Release(i)
  <2>1. \/ Update(i, [s EXCEPT !.held = TRUE]) /\ s.program = "alive"
        \/ Update(i, [s EXCEPT !.held = FALSE])
    BY <1>6 DEF Background, Release, Awake
  <2> HIDE DEF s
  <2>2. /\ s.program = "alive" => Sound([s EXCEPT !.held = TRUE])
        /\ Sound([s EXCEPT !.held = FALSE])
    BY <1>1, HeldSound
  <2> QED
    BY <1>3, <2>1, <2>2
<1> QED
  BY <1>4, <1>5, <1>6 DEF Program

(* The window's thread.                                                    *)
LEMMA WindowKeeps ==
  ASSUME GuiInv, Window
  PROVE  GuiInv'
<1>1. screen \in Nat \union {Exited} /\ sessions \in Seq(Session) /\ Launcher \in Nat
  BY DEF GuiInv, Launcher
<1>2. CASE Connect
  <2>1. PICK kind \in {"shell", "ssh"}, opened \in BOOLEAN :
          IF opened
          THEN /\ sessions' = Append(sessions, NewSessionOf(kind))
               /\ screen' = Len(sessions) + 1
          ELSE /\ sessions' = Append(sessions, Left(Told(NewSessionOf(kind), <<<<"close">>>>)))
               /\ UNCHANGED screen
    BY <1>2 DEF Connect
  <2>2. screen' \in Nat \union {Exited}
    BY <1>1, <2>1
  <2>3. Sound(NewSessionOf(kind)) /\ Sound(Left(Told(NewSessionOf(kind), <<<<"close">>>>)))
    BY OpenedSound
  <2> QED
    BY <2>1, <2>2, <2>3, OneMore
<1>3. CASE NewSession
  <2> DEFINE s == sessions[screen]
             c == <<<<"close">>>>
  <2>1. screen \in DOMAIN sessions /\ Update(screen, Left(Told(s, c))) /\ screen' = Launcher
    BY <1>3 DEF NewSession
  <2>2. Sound(s)
    BY <2>1 DEF GuiInv
  <2>3. c \in Seq(Cmds)
    <3>1. <<"close">> \in Cmds
      BY DEF Cmds
    <3> QED
      BY <3>1
  <2> HIDE DEF s, c
  <2>4. Sound(Left(Told(s, c)))
    BY <2>2, <2>3, LeaveSound DEF Sound
  <2> QED
    BY <1>1, <2>1, <2>4, OneChanges
<1>4. CASE Exit
  BY <1>4 DEF Exit, GuiInv
<1>5. CASE Frame
  <2> DEFINE e == sessions[screen]
             s == Drained(e)
  <2>1. screen \in DOMAIN sessions
    BY <1>5 DEF Frame
  <2>2. Sound(e)
    BY <2>1 DEF GuiInv
  <2>3. PICK z \in Sizes, typed \in BOOLEAN, leave \in BOOLEAN :
          LET c == (IF leave THEN <<<<"close">>>> ELSE <<>>) \o ResizeOf(s, z)
                     \o (IF typed THEN <<<<"input">>>> ELSE <<>>)
              t == [Told(s, c) EXCEPT !.grid = z]
          IN  /\ Update(screen, IF leave THEN Left(t) ELSE t)
              /\ screen' = IF leave THEN Launcher ELSE screen
    BY <1>5 DEF Frame
  <2> DEFINE c == (IF leave THEN <<<<"close">>>> ELSE <<>>) \o ResizeOf(s, z)
                    \o (IF typed THEN <<<<"input">>>> ELSE <<>>)
             t == [Told(s, c) EXCEPT !.grid = z]
  <2>4. Update(screen, Left(t)) \/ Update(screen, t)
    BY <2>3
  <2>5. screen' \in Nat \union {Exited}
    BY <1>1, <2>3
  <2> HIDE DEF e
  <2>6. Sound(t) /\ Sound(Left(t))
    BY <2>2, FrameSound
  <2> HIDE DEF t
  <2> QED
    BY <2>1, <2>4, <2>5, <2>6, OneChanges
<1> QED
  BY <1>2, <1>3, <1>4, <1>5 DEF Window

(* Every step.                                                             *)
LEMMA NextInv == GuiInv /\ [Next]_vars => GuiInv'
<1> SUFFICES ASSUME GuiInv, [Next]_vars PROVE GuiInv'
  OBVIOUS
<1>1. CASE UNCHANGED vars
  BY <1>1 DEF vars, GuiInv
<1>2. CASE Next
  <2>1. CASE Window
    BY <2>1, WindowKeeps
  <2>2. CASE \E i \in DOMAIN sessions :
               StartShell(i) \/ StartSsh(i) \/ Reader(i) \/ Host(i) \/ SshThread(i) \/ Program(i)
    BY <2>2, StartKeeps, ReaderKeeps, HostKeeps, SshKeeps, ProgramKeeps
  <2> QED
    BY <1>2, <2>1, <2>2 DEF Next
<1> QED
  BY <1>1, <1>2

(* So every session is sound, for ever.                                    *)
LEMMA AlwaysGuiInv == Spec => []GuiInv
<1> QED
  BY InitInv, NextInv, PTL DEF Spec

-----------------------------------------------------------------------------
(* What OutputShown says of a session.                                     *)
Shown(s) ==
  /\ Pieces(s) = Upto(Len(s.fed))
  /\ s.thread = "ended" /\ s.open /\ s.msgs = <<>> => s.cut \/ Len(s.fed) = s.wrote

(* The numbers of the pieces drawn are those from 1 on.                    *)
LEMMA InvShows == GuiInv => OutputShown
<1> SUFFICES ASSUME GuiInv, NEW i \in DOMAIN sessions
             PROVE  Shown(sessions[i])
  BY DEF OutputShown, Shown
<1> DEFINE s == sessions[i]
<1>1. Sound(s)
  BY DEF GuiInv
<1>2. s \in Session /\ Flows(s) /\ Threads(s)
  BY <1>1 DEF Sound
<1> HIDE DEF s
<1>3. s.fed \in Seq(Int) /\ s.wrote \in Nat
  BY <1>2 DEF Session
<1>4. PICK at : Flow(s, at)
  BY <1>2 DEF Flows
<1>5. \A k \in 1 .. Len(s.fed) : Number(s.fed[k]) = k
  <2>1. \A k \in 1 .. Len(s.fed) : Number(s.fed[k]) = 0 + k
    BY <1>4 DEF Flow, From
  <2> HIDE DEF Number
  <2>2. \A k \in 1 .. Len(s.fed) : 0 + k = k
    OBVIOUS
  <2> QED
    BY <2>1, <2>2
<1>6. Pieces(s) = Upto(Len(s.fed))
  <2>1. DOMAIN s.fed = 1 .. Len(s.fed)
    BY <1>3
  <2> QED
    BY <1>5, <2>1 DEF Pieces, Upto, Number
<1>7. ASSUME s.thread = "ended", s.open, s.msgs = <<>>, ~s.cut
      PROVE  Len(s.fed) = s.wrote
  <2>1. s.pty = <<>> /\ Len(s.pty) = 0 /\ Len(s.msgs) = 0
    BY <1>2, <1>7 DEF Threads, Quiet
  <2>2. at[0] = Len(s.fed) /\ at[0] + 0 = s.wrote
    BY <1>4, <1>7, <2>1 DEF Flow
  <2> QED
    BY <1>3, <2>2
<1> QED
  BY <1>6, <1>7 DEF s, Shown

(* OutputShown, for every value of the constants: what the window draws of *)
(* a session is what was written on its terminal, in order and, once the   *)
(* threads are done and unless a read failed, to the end (update_terminal, *)
(* local_shell::spawn, spawn_ssh_thread).                                  *)
THEOREM WindowShowsOutput == Spec => []OutputShown
<1> QED
  BY AlwaysGuiInv, InvShows, PTL

(* With no resize on its way, the PTY has the size of the grid, or missed  *)
(* the last resize.                                                        *)
LEMMA InvFollows == GuiInv => GridFollowsPty
<1> SUFFICES ASSUME GuiInv, NEW i \in DOMAIN sessions,
                    sessions[i].open, sessions[i].thread = "running",
                    \A k \in DOMAIN sessions[i].cmds : sessions[i].cmds[k][1] # "resize"
             PROVE  sessions[i].missed \/ sessions[i].size = sessions[i].grid
  BY DEF GridFollowsPty
<1> DEFINE s == sessions[i]
<1>1. Sized(s) /\ s \in Session
  BY DEF GuiInv, Sound
<1>2. s.cmds \in Seq(Cmds)
  BY <1>1 DEF Session
<1>3. NoResize(s.cmds)
  <2>1. DOMAIN s.cmds = 1 .. Len(s.cmds)
    BY <1>2
  <2> QED
    BY <2>1 DEF NoResize
<1>4. ~LastResize(s.cmds, s.grid)
  <2> HIDE DEF s
  <2>1. <<"resize", s.grid>>[1] = "resize"
    OBVIOUS
  <2> QED
    BY <1>3, <2>1 DEF NoResize, LastResize
<1> QED
  BY <1>1, <1>4 DEF Sized

(* GridFollowsPty, for every value of the constants: the PTY has the size  *)
(* the window draws, a resize to that size is on its way, or the last      *)
(* resize failed (the cols and rows update_terminal compares with).        *)
THEOREM PtyGetsTheSize == Spec => []GridFollowsPty
<1> QED
  BY AlwaysGuiInv, InvFollows, PTL
=============================================================================
