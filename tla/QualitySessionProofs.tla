-------------------------- MODULE QualitySessionProofs --------------------------
(***************************************************************************)
(* Proofs about the quality sessions, for any number of threads, sessions, *)
(* failures and interrupts.  A call in progress is an entry of the stack   *)
(* of its thread: the collector pushes one over whatever it interrupts, so *)
(* the invariant speaks of every entry of every stack.                     *)
(***************************************************************************)
EXTENDS QualitySession, SequenceTheorems, FiniteSetTheorems, TLAPS
-----------------------------------------------------------------------------
(* The invariant *)

Users == {"fail", "finish", "exit"}
Holders == {"fail", "finish", "exit", "del"}
Wiping == {"wipe", "unpin", "run"}

CallTypes ==
    [job : {"retry", "rollback"} \cup Holders, s : Sessions \cup {None},
     at : {"lock", "visit", "close", "wipe", "unpin", "run", "conclude", "park", "open"},
     want : {None} \cup Terminal, control : BOOLEAN, inWipe : BOOLEAN, unclean : BOOLEAN,
     status : {"none", "settled", "writer_live", "wipe_pending"}, rest : Seq(Sessions)]

DataTypes ==
    /\ budget \in [sessions : Nat, faults : Nat, interrupts : Nat]
    /\ phase \in [Sessions -> {"none", "active", "cleanup_pending", "cleanup_parked"} \cup Terminal]
    /\ intent \in [Sessions -> {None} \cup Terminal]
    /\ reach \in [Sessions -> {"none", "held", "garbage", "collected"}]
    /\ payload \in [Sessions -> {"none", "blank", "private", "zero"}]
    /\ writer \subseteq Sessions /\ named \subseteq Sessions /\ pinned \subseteq Sessions
    /\ settled \subseteq Sessions /\ results \subseteq Sessions
SessionTypes ==
    /\ DataTypes
    /\ registry \in Seq(Sessions)
    /\ stack \in [Threads -> Seq(CallTypes)]

\* Sessions are made one after the other.
Made == {s \in Sessions : payload[s] # "none"}
Numbered == \E n \in 0..budget.sessions : Made = 1..n

\* One session.
Fresh(s) ==
    /\ phase[s] = "none" /\ intent[s] = None /\ reach[s] = "none"
    /\ s \notin writer /\ s \notin pinned /\ s \notin settled /\ s \notin results
SessionOk(s) ==
    /\ payload[s] = "none" => Fresh(s)
    /\ s \in writer => s \in pinned
    /\ payload[s] = "zero" => s \notin writer
    /\ payload[s] = "private" => s \in pinned
    /\ s \in settled => payload[s] = "zero" /\ s \notin pinned
    /\ phase[s] = "active" => intent[s] = None
    /\ reach[s] \in {"held", "garbage"} => phase[s] # "none"
    /\ s \in results => phase[s] = "finished" /\ s \in settled

\* One call in progress.
CallOk(c) ==
    /\ c.s = None => c.job = "retry" /\ c.at \in {"lock", "visit", "open"}
    /\ c.s # None => c.s \in Made
    /\ \A i \in 1..Len(c.rest) : c.rest[i] \in Made
    /\ c.at = "park" => c.job = "del"
    /\ c.at \in {"visit", "open"} => c.job = "retry"
    /\ c.at \in Wiping => c.s \notin writer
    /\ c.at \in {"unpin", "run"} => payload[c.s] = "zero"
    /\ c.at = "run" => c.s \notin pinned
    /\ c.at = "conclude" /\ c.status = "settled" => c.s \in settled
    /\ c.job \in Holders /\ c.at # "park" => c.want # None /\ c.s \notin results
    /\ c.job \in Users => reach[c.s] = "held"
    /\ c.job = "finish" => phase[c.s] = "active" /\ c.want = "finished"
    /\ c.job = "del" => reach[c.s] = "collected" /\ phase[c.s] # "none"
    /\ c.job = "rollback" => reach[c.s] = "collected" /\ phase[c.s] = "none"

CallsOk == \A t \in Threads : \A i \in 1..Len(stack[t]) : CallOk(stack[t][i])
OneHolder ==
    \A t, u \in Threads : \A i \in 1..Len(stack[t]), j \in 1..Len(stack[u]) :
        /\ stack[t][i].job \in Holders /\ stack[u][j].job \in Holders
        /\ stack[t][i].s = stack[u][j].s
        => t = u /\ i = j

\* The table of pending cleanups is a dict.
InTable(x) == \E i \in 1..Len(registry) : registry[i] = x
Distinct == \A i, j \in 1..Len(registry) : registry[i] = registry[j] => i = j
Listed == Distinct /\ \A x : InTable(x) => x \in Made /\ x \notin results

\* Private bytes have somebody who will wipe them.
DelOf(x) == \E t \in Threads : \E i \in 1..Len(stack[t]) : stack[t][i].job = "del" /\ stack[t][i].s = x
Kept == \A s \in Sessions :
    payload[s] = "private" => reach[s] \in {"held", "garbage"} \/ InTable(s) \/ DelOf(s)

SessionsOk == \A s \in Sessions : SessionOk(s)
SessionInv == SessionTypes /\ Numbered /\ SessionsOk /\ CallsOk /\ OneHolder /\ Listed /\ Kept

-----------------------------------------------------------------------------
(* Sequences *)

\* The last entry of a sequence, what is left without it, and what is put in its place.
LEMMA TopOf ==
    ASSUME NEW S, NEW q \in Seq(S), q # <<>>
    PROVE  Len(q) \in Nat \ {0} /\ Last(q) = q[Len(q)] /\ q[Len(q)] \in S
  <1>1. Len(q) \in Nat \ {0}
    OBVIOUS
  <1> QED
    BY <1>1 DEF Last

LEMMA FrontOf ==
    ASSUME NEW S, NEW q \in Seq(S), q # <<>>
    PROVE  /\ Front(q) \in Seq(S) /\ Len(Front(q)) = Len(q) - 1
           /\ \A i \in 1..(Len(q) - 1) : Front(q)[i] = q[i]
  <1>1. Len(q) \in Nat \ {0}
    OBVIOUS
  <1>2. PICK n \in Nat : Len(q) = n + 1
    BY <1>1
  <1>3. /\ SubSeq(q, 1, n) \in Seq(S) /\ Len(SubSeq(q, 1, n)) = n
        /\ \A i \in 1..n : SubSeq(q, 1, n)[i] = q[i]
    BY <1>2
  <1>4. Front(q) = SubSeq(q, 1, n)
    BY <1>2 DEF Front
  <1> QED
    BY <1>2, <1>3, <1>4

LEMMA AppendTo ==
    ASSUME NEW S, NEW q \in Seq(S), NEW c \in S
    PROVE  /\ Append(q, c) \in Seq(S) /\ Len(q) \in Nat /\ Len(Append(q, c)) = Len(q) + 1
           /\ \A i \in 1..Len(q) : Append(q, c)[i] = q[i]
           /\ Append(q, c)[Len(q) + 1] = c
  OBVIOUS

LEMMA TopReplaced ==
    ASSUME NEW S, NEW q \in Seq(S), q # <<>>, NEW c \in S
    PROVE  /\ Append(Front(q), c) \in Seq(S) /\ Len(Append(Front(q), c)) = Len(q)
           /\ \A i \in 1..(Len(q) - 1) : Append(Front(q), c)[i] = q[i]
           /\ Append(Front(q), c)[Len(q)] = c
  <1>1. PICK n \in Nat : Len(q) = n + 1
    BY TopOf
  <1>2. Front(q) \in Seq(S) /\ Len(Front(q)) = n /\ \A i \in 1..n : Front(q)[i] = q[i]
    BY <1>1, FrontOf
  <1> QED
    BY <1>1, <1>2, AppendTo

\* One entry is taken out of a sequence: the others stay, and in their order.
LEMMA Removed ==
    ASSUME NEW S, NEW q \in Seq(S), NEW k \in 1..Len(q)
    PROVE  /\ RemoveAt(q, k) \in Seq(S) /\ Len(RemoveAt(q, k)) = Len(q) - 1
           /\ \A i \in 1..(Len(q) - 1) : RemoveAt(q, k)[i] = IF i < k THEN q[i] ELSE q[i + 1]
  <1>1. Len(q) \in Nat \ {0} /\ k \in Nat \ {0} /\ k <= Len(q)
    OBVIOUS
  <1>2. PICK n \in Nat, m \in Nat : Len(q) = n + 1 /\ k = m + 1
    BY <1>1
  <1> DEFINE a == SubSeq(q, 1, m)  b == SubSeq(q, k + 1, Len(q))
  <1>3. a \in Seq(S) /\ Len(a) = m /\ \A i \in 1..m : a[i] = q[i]
    BY <1>1, <1>2
  <1>4. b \in Seq(S) /\ Len(b) = n - m /\ \A i \in 1..(n - m) : b[i] = q[k + i]
    <2>1. k + 1 \in Nat \ {0} /\ Len(q) + 1 - (k + 1) = n - m /\ n - m \in Nat
      BY <1>1, <1>2
    <2>2. CASE n = m
      BY <1>1, <1>2, <2>1, <2>2
    <2>3. CASE n # m
      BY <1>1, <1>2, <2>1, <2>3
    <2> QED
      BY <2>2, <2>3
  <1>5. RemoveAt(q, k) = a \o b
    BY <1>1, <1>2 DEF RemoveAt
  <1> HIDE DEF a, b
  <1>6. a \o b \in Seq(S) /\ Len(a \o b) = n
    BY <1>1, <1>2, <1>3, <1>4
  <1>7. \A i \in 1..n : (a \o b)[i] = IF i < k THEN q[i] ELSE q[i + 1]
    <2> SUFFICES ASSUME NEW i \in 1..n PROVE (a \o b)[i] = IF i < k THEN q[i] ELSE q[i + 1]
      OBVIOUS
    <2>1. CASE i < k
      <3>1. i \in 1..m
        BY <1>2, <2>1
      <3> QED
        BY <1>3, <1>4, <2>1, <3>1
    <2>2. CASE ~(i < k)
      <3>1. i - m \in 1..(n - m) /\ k + (i - m) = i + 1 /\ i > m
        BY <1>2, <2>2
      <3>2. (a \o b)[i] = b[i - m]
        BY <1>1, <1>2, <1>3, <1>4, <3>1
      <3> QED
        BY <1>4, <2>2, <3>1, <3>2
    <2> QED
      BY <2>1, <2>2
  <1>8. Len(q) - 1 = n
    BY <1>2
  <1> QED
    BY <1>5, <1>6, <1>7, <1>8

LEMMA TailOf ==
    ASSUME NEW S, NEW q \in Seq(S), q # <<>>
    PROVE  /\ Head(q) \in S /\ Head(q) = q[1] /\ Tail(q) \in Seq(S)
           /\ Len(q) \in Nat \ {0} /\ Len(Tail(q)) = Len(q) - 1
           /\ \A i \in 1..Len(Tail(q)) : Tail(q)[i] = q[i + 1]
  BY HeadTailProperties

-----------------------------------------------------------------------------
(* The calls in progress *)

LEMMA SameBounds ==
    ASSUME UNCHANGED budget
    PROVE  Sessions' = Sessions /\ CallTypes' = CallTypes
  BY DEF Sessions, CallTypes

LEMMA StackType ==
    ASSUME SessionTypes
    PROVE  /\ stack \in [Threads -> Seq(CallTypes)]
           /\ \A t \in Threads : stack[t] \in Seq(CallTypes) /\ Len(stack[t]) \in Nat
           /\ \A t \in Threads : \A i \in 1..Len(stack[t]) : stack[t][i] \in CallTypes
  BY DEF SessionTypes

LEMMA TopType ==
    ASSUME SessionTypes, NEW t \in Threads, Busy(t)
    PROVE  /\ Top(t) \in CallTypes /\ Len(stack[t]) \in 1..Len(stack[t])
           /\ Top(t) = stack[t][Len(stack[t])]
  BY StackType, TopOf DEF Busy, Top

\* The calls below the innermost one of t, and those of the other threads.
Below(t, u, i) == i \in 1..Len(stack[u]) /\ ~(u = t /\ i = Len(stack[t]))

LEMMA Others ==
    ASSUME SessionTypes, OneHolder, NEW t \in Threads, Busy(t), NEW u \in Threads, NEW i, Below(t, u, i)
    PROVE  /\ stack[u][i] \in CallTypes
           /\ stack[u][i].job \in Holders /\ Top(t).job \in Holders => stack[u][i].s # Top(t).s
  BY StackType, TopType DEF Below, OneHolder

LEMMA ReplaceStack ==
    ASSUME SessionTypes, NEW t \in Threads, Busy(t), NEW c \in CallTypes, Replace(t, c)
    PROVE  /\ stack' \in [Threads -> Seq(CallTypes)]
           /\ \A u \in Threads : Len(stack'[u]) = Len(stack[u])
           /\ stack'[t][Len(stack[t])] = c
           /\ \A u \in Threads : \A i : Below(t, u, i) => stack'[u][i] = stack[u][i]
  <1>1. stack' = [stack EXCEPT ![t] = Append(Front(stack[t]), c)] /\ stack[t] # <<>>
    BY DEF Replace, Busy
  <1>2. stack \in [Threads -> Seq(CallTypes)] /\ stack[t] \in Seq(CallTypes)
    BY StackType
  <1>3. PICK n \in Nat \ {0} : n = Len(stack[t])
    BY <1>1, <1>2, TopOf
  <1>4. /\ stack'[t] \in Seq(CallTypes) /\ Len(stack'[t]) = n
        /\ \A i \in 1..(n - 1) : stack'[t][i] = stack[t][i]
        /\ stack'[t][n] = c
    BY <1>1, <1>2, <1>3, TopReplaced
  <1>5. \A u \in Threads : u # t => stack'[u] = stack[u]
    BY <1>1, <1>2
  <1>6. stack' \in [Threads -> Seq(CallTypes)]
    BY <1>1, <1>2, <1>4
  <1>7. \A i \in 1..n : i # n => i \in 1..(n - 1)
    BY <1>3
  <1> QED
    BY <1>3, <1>4, <1>5, <1>6, <1>7 DEF Below

LEMMA ReturnStack ==
    ASSUME SessionTypes, NEW t \in Threads, Busy(t), Return(t)
    PROVE  /\ stack' \in [Threads -> Seq(CallTypes)]
           /\ \A u \in Threads : \A i \in 1..Len(stack'[u]) : Below(t, u, i) /\ stack'[u][i] = stack[u][i]
           /\ \A u \in Threads : \A i : Below(t, u, i) => i \in 1..Len(stack'[u])
  <1>1. stack' = [stack EXCEPT ![t] = Front(stack[t])] /\ stack[t] # <<>>
    BY DEF Return, Busy
  <1>2. stack \in [Threads -> Seq(CallTypes)] /\ stack[t] \in Seq(CallTypes)
    BY StackType
  <1>3. PICK n \in Nat \ {0} : n = Len(stack[t])
    BY <1>1, <1>2, TopOf
  <1>4. /\ stack'[t] \in Seq(CallTypes) /\ Len(stack'[t]) = n - 1
        /\ \A i \in 1..(n - 1) : stack'[t][i] = stack[t][i]
    BY <1>1, <1>2, <1>3, FrontOf
  <1>5. \A u \in Threads : u # t => stack'[u] = stack[u]
    BY <1>1, <1>2
  <1>6. stack' \in [Threads -> Seq(CallTypes)]
    BY <1>1, <1>2, <1>4
  <1>7. \A i : i \in 1..(n - 1) <=> i \in 1..n /\ i # n
    BY <1>3
  <1> QED
    BY <1>3, <1>4, <1>5, <1>6, <1>7 DEF Below

LEMMA PushStack ==
    ASSUME SessionTypes, NEW t \in Threads, NEW c \in CallTypes, stack' = [stack EXCEPT ![t] = Append(@, c)]
    PROVE  /\ stack' \in [Threads -> Seq(CallTypes)]
           /\ Len(stack'[t]) = Len(stack[t]) + 1 /\ stack'[t][Len(stack[t]) + 1] = c
           /\ Len(stack[t]) \in Nat
           /\ \A u \in Threads : u # t => stack'[u] = stack[u]
           /\ \A u \in Threads : \A i \in 1..Len(stack[u]) : i \in 1..Len(stack'[u]) /\ stack'[u][i] = stack[u][i]
           /\ \A u \in Threads : \A i \in 1..Len(stack'[u]) :
                 i \in 1..Len(stack[u]) \/ (u = t /\ i = Len(stack[t]) + 1)
  <1>1. stack' = [stack EXCEPT ![t] = Append(stack[t], c)]
    OBVIOUS
  <1>2. stack \in [Threads -> Seq(CallTypes)] /\ stack[t] \in Seq(CallTypes)
    BY StackType
  <1>3. PICK n \in Nat : n = Len(stack[t])
    BY <1>2
  <1>4. /\ stack'[t] \in Seq(CallTypes) /\ Len(stack'[t]) = n + 1
        /\ \A i \in 1..n : stack'[t][i] = stack[t][i]
        /\ stack'[t][n + 1] = c
    BY <1>1, <1>2, <1>3, AppendTo
  <1>5. \A u \in Threads : u # t => stack'[u] = stack[u]
    BY <1>1, <1>2
  <1>6. stack' \in [Threads -> Seq(CallTypes)]
    BY <1>1, <1>2, <1>4
  <1>7. \A i : i \in 1..(n + 1) <=> i \in 1..n \/ i = n + 1
    BY <1>3
  <1> QED
    BY <1>3, <1>4, <1>5, <1>6, <1>7

LEMMA StartStack ==
    ASSUME NEW t \in Threads, ~Busy(t), NEW c, stack' = [stack EXCEPT ![t] = <<c>>]
    PROVE  stack' = [stack EXCEPT ![t] = Append(@, c)]
  <1>1. stack[t] = <<>> /\ Append(<<>>, c) = <<c>>
    BY DEF Busy
  <1>2. Append(stack[t], c) = <<c>>
    BY <1>1
  <1> QED
    BY <1>2

-----------------------------------------------------------------------------
(* What a step makes of the calls, once it is known what it makes of each *)

\* Calls stay good that hold no session the innermost call of t holds.
Harmless(t) ==
    \A d \in CallTypes :
        CallOk(d) /\ (d.job \in Holders /\ Top(t).job \in Holders => d.s # Top(t).s) => CallOk(d)'

LEMMA CallsReplaced ==
    ASSUME SessionTypes, CallsOk, OneHolder, NEW t \in Threads, Busy(t), NEW c \in CallTypes, Replace(t, c),
           Harmless(t), CallOk(c)', c.job \in Holders => Top(t).job \in Holders /\ c.s = Top(t).s
    PROVE  /\ CallsOk' /\ OneHolder' /\ stack' \in [Threads -> Seq(CallTypes)]
           /\ \A x : DelOf(x) => DelOf(x)' \/ (Top(t).job = "del" /\ Top(t).s = x /\ ~(c.job = "del" /\ c.s = x))
  <1>0. PICK n : n = Len(stack[t])
    OBVIOUS
  <1>1. /\ stack' \in [Threads -> Seq(CallTypes)]
        /\ \A u \in Threads : Len(stack'[u]) = Len(stack[u])
        /\ stack'[t][n] = c
        /\ \A u \in Threads : \A i : Below(t, u, i) => stack'[u][i] = stack[u][i]
    BY <1>0, ReplaceStack
  <1>2. Top(t) = stack[t][n] /\ n \in 1..Len(stack[t])
    BY <1>0, TopType
  <1>3. \A u \in Threads : \A i \in 1..Len(stack[u]) : Below(t, u, i) \/ (u = t /\ i = n)
    BY <1>0 DEF Below
  <1>4. CallsOk'
    <2>1. \A u \in Threads : \A i : Below(t, u, i) => CallOk(stack[u][i])'
      <3> SUFFICES ASSUME NEW u \in Threads, NEW i, Below(t, u, i) PROVE CallOk(stack[u][i])'
        OBVIOUS
      <3>1. stack[u][i] \in CallTypes /\ CallOk(stack[u][i])
        BY Others DEF CallsOk, Below
      <3>2. PICK d \in CallTypes : d = stack[u][i]
        BY <3>1
      <3>3. CallOk(d)'
        BY <3>1, <3>2, Others DEF Harmless
      <3>4. stack'[u][i] = d
        BY <1>1, <3>2
      <3> QED
        BY <3>3, <3>4
    <2>2. CallOk(stack[t][n])'
      BY <1>1
    <2> QED
      BY <1>1, <1>3, <2>1, <2>2 DEF CallsOk
  <1>5. OneHolder'
    <2> SUFFICES ASSUME NEW u \in Threads, NEW v \in Threads,
                        NEW i \in 1..Len(stack'[u]), NEW j \in 1..Len(stack'[v]),
                        stack'[u][i].job \in Holders, stack'[v][j].job \in Holders,
                        stack'[u][i].s = stack'[v][j].s
                 PROVE  u = v /\ i = j
      BY DEF OneHolder
    <2>1. i \in 1..Len(stack[u]) /\ j \in 1..Len(stack[v])
      BY <1>1
    <2>2. CASE Below(t, u, i) /\ Below(t, v, j)
      <3>1. /\ stack[u][i].job \in Holders /\ stack[v][j].job \in Holders
            /\ stack[u][i].s = stack[v][j].s
        BY <1>1, <2>2
      <3> QED
        BY <2>1, <3>1 DEF OneHolder
    <2>3. CASE Below(t, u, i) /\ v = t /\ j = n
      BY <1>1, <2>3, Others
    <2>4. CASE u = t /\ i = n /\ Below(t, v, j)
      BY <1>1, <2>4, Others
    <2>5. CASE u = t /\ i = n /\ v = t /\ j = n
      BY <2>5
    <2> QED
      BY <1>3, <2>1, <2>2, <2>3, <2>4, <2>5
  <1>6. ASSUME NEW x, DelOf(x)
        PROVE  DelOf(x)' \/ (Top(t).job = "del" /\ Top(t).s = x /\ ~(c.job = "del" /\ c.s = x))
    <2>1. PICK u \in Threads : \E i \in 1..Len(stack[u]) : stack[u][i].job = "del" /\ stack[u][i].s = x
      BY <1>6 DEF DelOf
    <2>2. PICK i \in 1..Len(stack[u]) : stack[u][i].job = "del" /\ stack[u][i].s = x
      BY <2>1
    <2>3. CASE Below(t, u, i)
      <3>1. stack'[u][i].job = "del" /\ stack'[u][i].s = x /\ i \in 1..Len(stack'[u])
        BY <1>1, <2>2, <2>3
      <3> QED
        BY <3>1 DEF DelOf
    <2>4. CASE u = t /\ i = n
      <3>1. n \in 1..Len(stack'[t])
        BY <1>1, <1>2
      <3> QED
        BY <1>1, <1>2, <2>2, <2>4, <3>1 DEF DelOf
    <2> QED
      BY <1>3, <2>3, <2>4
  <1> QED
    BY <1>1, <1>4, <1>5, <1>6

LEMMA CallsReturned ==
    ASSUME SessionTypes, CallsOk, OneHolder, NEW t \in Threads, Busy(t), Return(t), Harmless(t)
    PROVE  /\ CallsOk' /\ OneHolder' /\ stack' \in [Threads -> Seq(CallTypes)]
           /\ \A x : DelOf(x) => DelOf(x)' \/ (Top(t).job = "del" /\ Top(t).s = x)
  <1>1. /\ stack' \in [Threads -> Seq(CallTypes)]
        /\ \A u \in Threads : \A i \in 1..Len(stack'[u]) : Below(t, u, i) /\ stack'[u][i] = stack[u][i]
        /\ \A u \in Threads : \A i : Below(t, u, i) => i \in 1..Len(stack'[u])
    BY ReturnStack
  <1>2. Top(t) = stack[t][Len(stack[t])]
    BY TopType
  <1>4. CallsOk'
    <2> SUFFICES ASSUME NEW u \in Threads, NEW i \in 1..Len(stack'[u]) PROVE CallOk(stack[u][i])'
      BY DEF CallsOk
    <2>1. Below(t, u, i) /\ stack'[u][i] = stack[u][i]
      BY <1>1
    <2>2. stack[u][i] \in CallTypes /\ CallOk(stack[u][i])
      BY <2>1, Others DEF CallsOk, Below
    <2>3. PICK d \in CallTypes : d = stack[u][i]
      BY <2>2
    <2>4. CallOk(d)'
      BY <2>1, <2>2, <2>3, Others DEF Harmless
    <2>5. stack'[u][i] = d
      BY <2>1, <2>3
    <2> QED
      BY <2>4, <2>5
  <1>5. OneHolder'
    <2> SUFFICES ASSUME NEW u \in Threads, NEW v \in Threads,
                        NEW i \in 1..Len(stack'[u]), NEW j \in 1..Len(stack'[v]),
                        stack'[u][i].job \in Holders, stack'[v][j].job \in Holders,
                        stack'[u][i].s = stack'[v][j].s
                 PROVE  u = v /\ i = j
      BY DEF OneHolder
    <2>1. /\ stack'[u][i] = stack[u][i] /\ stack'[v][j] = stack[v][j]
          /\ i \in 1..Len(stack[u]) /\ j \in 1..Len(stack[v])
      BY <1>1 DEF Below
    <2>2. /\ stack[u][i].job \in Holders /\ stack[v][j].job \in Holders
          /\ stack[u][i].s = stack[v][j].s
      BY <2>1
    <2> QED
      BY <2>1, <2>2 DEF OneHolder
  <1>6. ASSUME NEW x, DelOf(x)
        PROVE  DelOf(x)' \/ (Top(t).job = "del" /\ Top(t).s = x)
    <2>1. PICK u \in Threads : \E i \in 1..Len(stack[u]) : stack[u][i].job = "del" /\ stack[u][i].s = x
      BY <1>6 DEF DelOf
    <2>2. PICK i \in 1..Len(stack[u]) : stack[u][i].job = "del" /\ stack[u][i].s = x
      BY <2>1
    <2>3. CASE Below(t, u, i)
      <3>1. stack'[u][i].job = "del" /\ stack'[u][i].s = x /\ i \in 1..Len(stack'[u])
        BY <1>1, <2>2, <2>3
      <3> QED
        BY <3>1 DEF DelOf
    <2>4. CASE u = t /\ i = Len(stack[t])
      BY <1>2, <2>2, <2>4
    <2> QED
      BY <2>3, <2>4 DEF Below
  <1> QED
    BY <1>1, <1>4, <1>5, <1>6

LEMMA CallsPushed ==
    ASSUME SessionTypes, CallsOk, OneHolder, NEW t \in Threads, NEW c \in CallTypes,
           stack' = [stack EXCEPT ![t] = Append(@, c)],
           \A d \in CallTypes : CallOk(d) => CallOk(d)', CallOk(c)',
           c.job \in Holders => \A d \in CallTypes : CallOk(d) /\ d.job \in Holders => d.s # c.s \/ 
                   (d.job \in Users /\ \A u \in Threads : \A i \in 1..Len(stack[u]) : stack[u][i] # d)
    PROVE  /\ CallsOk' /\ OneHolder' /\ stack' \in [Threads -> Seq(CallTypes)]
           /\ \A x : DelOf(x) => DelOf(x)'
           /\ c.job = "del" => DelOf(c.s)'
  <1>0. PICK n : n = Len(stack[t])
    OBVIOUS
  <1>1. /\ stack' \in [Threads -> Seq(CallTypes)]
        /\ n \in Nat /\ Len(stack'[t]) = n + 1 /\ stack'[t][n + 1] = c
        /\ \A u \in Threads : u # t => stack'[u] = stack[u]
        /\ \A u \in Threads : \A i \in 1..Len(stack[u]) : i \in 1..Len(stack'[u]) /\ stack'[u][i] = stack[u][i]
        /\ \A u \in Threads : \A i \in 1..Len(stack'[u]) : i \in 1..Len(stack[u]) \/ (u = t /\ i = n + 1)
    BY <1>0, PushStack
  <1>2. \A u \in Threads : \A i \in 1..Len(stack[u]) : stack[u][i] \in CallTypes /\ CallOk(stack[u][i])
    BY StackType DEF CallsOk
  <1>4. CallsOk'
    <2> SUFFICES ASSUME NEW u \in Threads, NEW i \in 1..Len(stack'[u]) PROVE CallOk(stack[u][i])'
      BY DEF CallsOk
    <2>1. CASE i \in 1..Len(stack[u])
      <3>1. PICK d \in CallTypes : d = stack[u][i] /\ CallOk(d)
        BY <1>2, <2>1
      <3>2. CallOk(d)' /\ stack'[u][i] = d
        BY <1>1, <2>1, <3>1
      <3> QED
        BY <3>2
    <2>2. CASE u = t /\ i = n + 1
      BY <1>1, <2>2
    <2> QED
      BY <1>1, <2>1, <2>2
  <1>5. OneHolder'
    <2> SUFFICES ASSUME NEW u \in Threads, NEW v \in Threads,
                        NEW i \in 1..Len(stack'[u]), NEW j \in 1..Len(stack'[v]),
                        stack'[u][i].job \in Holders, stack'[v][j].job \in Holders,
                        stack'[u][i].s = stack'[v][j].s
                 PROVE  u = v /\ i = j
      BY DEF OneHolder
    <2>2. CASE i \in 1..Len(stack[u]) /\ j \in 1..Len(stack[v])
      BY <1>1, <2>2 DEF OneHolder
    <2>3. CASE i \in 1..Len(stack[u]) /\ v = t /\ j = n + 1
      BY <1>1, <1>2, <2>3
    <2>4. CASE u = t /\ i = n + 1 /\ j \in 1..Len(stack[v])
      BY <1>1, <1>2, <2>4
    <2>5. CASE u = t /\ i = n + 1 /\ v = t /\ j = n + 1
      BY <2>5
    <2> QED
      BY <1>1, <2>2, <2>3, <2>4, <2>5
  <1>6. ASSUME NEW x, DelOf(x)
        PROVE  DelOf(x)'
    <2>1. PICK u \in Threads : \E i \in 1..Len(stack[u]) : stack[u][i].job = "del" /\ stack[u][i].s = x
      BY <1>6 DEF DelOf
    <2>2. PICK i \in 1..Len(stack[u]) : stack[u][i].job = "del" /\ stack[u][i].s = x
      BY <2>1
    <2>3. stack'[u][i].job = "del" /\ stack'[u][i].s = x /\ i \in 1..Len(stack'[u])
      BY <1>1, <2>2
    <2> QED
      BY <2>3 DEF DelOf
  <1>7. c.job = "del" => DelOf(c.s)'
    <2>1. n + 1 \in 1..Len(stack'[t])
      BY <1>1
    <2> QED
      BY <1>1, <2>1 DEF DelOf
  <1> QED
    BY <1>1, <1>4, <1>5, <1>6, <1>7

-----------------------------------------------------------------------------
(* The table of pending cleanups *)

LEMMA TableSet ==
    ASSUME SessionTypes
    PROVE  \A x : x \in ToSet(registry) <=> InTable(x)
  <1>1. DOMAIN registry = 1..Len(registry)
    BY DEF SessionTypes
  <1> QED
    BY <1>1 DEF ToSet, InTable

LEMMA SameTable ==
    ASSUME SessionTypes, Distinct, UNCHANGED budget, registry' = registry
    PROVE  registry' \in Seq(Sessions) /\ Distinct' /\ \A x : InTable(x)' <=> InTable(x)
  BY DEF SessionTypes, Distinct, InTable, Sessions

LEMMA Published ==
    ASSUME SessionTypes, Distinct, UNCHANGED budget, NEW s \in Sessions, Publish(s)
    PROVE  registry' \in Seq(Sessions) /\ Distinct' /\ \A x : InTable(x)' <=> (InTable(x) \/ x = s)
  <1>1. registry \in Seq(Sessions)
    BY DEF SessionTypes
  <1>2. CASE InTable(s)
    <2>1. registry' = registry
      BY <1>2, TableSet DEF Publish
    <2> QED
      BY <1>2, <2>1, SameTable
  <1>3. CASE ~InTable(s)
    <2>1. registry' = Append(registry, s)
      BY <1>3, TableSet DEF Publish
    <2>2. PICK n \in Nat : n = Len(registry)
      BY <1>1
    <2>3. /\ registry' \in Seq(Sessions) /\ Len(registry') = n + 1 /\ registry'[n + 1] = s
          /\ \A i \in 1..n : registry'[i] = registry[i]
      BY <1>1, <2>1, <2>2, AppendTo
    <2>4. \A i : i \in 1..(n + 1) <=> i \in 1..n \/ i = n + 1
      BY <2>2
    <2>5. Distinct'
      BY <1>3, <2>2, <2>3, <2>4 DEF Distinct, InTable
    <2>6. \A x : InTable(x)' <=> (InTable(x) \/ x = s)
      BY <2>2, <2>3, <2>4 DEF InTable
    <2> QED
      BY <2>3, <2>5, <2>6
  <1> QED
    BY <1>2, <1>3

\* An entry of the table is dropped: the table keeps its other entries, and stays without a double.
LEMMA Unpublished ==
    ASSUME SessionTypes, Distinct, UNCHANGED budget, NEW s \in Sessions, Unpublish(s)
    PROVE  registry' \in Seq(Sessions) /\ Distinct' /\ \A x : InTable(x)' <=> (InTable(x) /\ x # s)
  <1>1. registry \in Seq(Sessions)
    BY DEF SessionTypes
  <1>2. CASE ~InTable(s)
    <2>1. registry' = registry
      BY <1>2, TableSet DEF Unpublish
    <2> QED
      BY <1>2, <2>1, SameTable
  <1>3. CASE InTable(s)
    <2>1. PICK k \in DOMAIN registry : registry[k] = s /\ registry' = RemoveAt(registry, k)
      BY <1>3, TableSet DEF Unpublish
    <2>2. k \in 1..Len(registry)
      BY <1>1
    <2>3. PICK n \in Nat : Len(registry) = n + 1
      BY <1>1, <2>2
    <2>4. /\ registry' \in Seq(Sessions) /\ Len(registry') = n
          /\ \A i \in 1..n : registry'[i] = IF i < k THEN registry[i] ELSE registry[i + 1]
      <3>1. Len(registry) - 1 = n
        BY <2>3
      <3> QED
        BY <1>1, <2>1, <2>2, <3>1, Removed
    <2>5. k \in Nat /\ 1 <= k /\ k <= n + 1
      BY <2>2, <2>3
    <2>6. Distinct'
      <3> SUFFICES ASSUME NEW i \in 1..n, NEW j \in 1..n, registry'[i] = registry'[j] PROVE i = j
        BY <2>4 DEF Distinct
      <3>1. PICK a \in 1..(n + 1) : registry'[i] = registry[a] /\ a = (IF i < k THEN i ELSE i + 1)
        BY <2>4, <2>5
      <3>2. PICK b \in 1..(n + 1) : registry'[j] = registry[b] /\ b = (IF j < k THEN j ELSE j + 1)
        BY <2>4, <2>5
      <3>3. a = b
        BY <2>3, <3>1, <3>2 DEF Distinct
      <3> QED
        BY <2>5, <3>1, <3>2, <3>3
    <2>7. ASSUME NEW x, InTable(x)' PROVE InTable(x) /\ x # s
      <3>1. PICK i \in 1..n : registry'[i] = x
        BY <2>4, <2>7 DEF InTable
      <3>2. PICK a \in 1..(n + 1) : registry'[i] = registry[a] /\ a = (IF i < k THEN i ELSE i + 1)
        BY <2>4, <2>5
      <3>3. a # k
        BY <2>5, <3>2
      <3> QED
        BY <2>1, <2>2, <2>3, <3>1, <3>2, <3>3 DEF InTable, Distinct
    <2>8. ASSUME NEW x, InTable(x), x # s PROVE InTable(x)'
      <3>1. PICK a \in 1..(n + 1) : registry[a] = x
        BY <2>3, <2>8 DEF InTable
      <3>2. a # k
        BY <2>1, <2>8, <3>1
      <3>3. PICK i \in 1..n : a = (IF i < k THEN i ELSE i + 1)
        <4>1. CASE a < k
          BY <2>5, <4>1
        <4>2. CASE a > k
          <5>1. a - 1 \in 1..n /\ ~(a - 1 < k) /\ a = (a - 1) + 1
            BY <2>5, <4>2
          <5> QED
            BY <5>1
        <4> QED
          BY <2>5, <3>2, <4>1, <4>2
      <3>4. registry'[i] = x
        BY <2>4, <3>1, <3>3
      <3> QED
        BY <2>4, <3>4 DEF InTable
    <2> QED
      BY <2>4, <2>6, <2>7, <2>8
  <1> QED
    BY <1>2, <1>3

-----------------------------------------------------------------------------
(* Steps that leave the sessions as they are *)

Calm ==
    /\ UNCHANGED <<phase, intent, reach, payload, writer, pinned, settled, results, budget>>
    /\ named' \subseteq named

LEMMA CalmKeeps ==
    ASSUME SessionInv, Calm
    PROVE  /\ DataTypes' /\ Numbered' /\ SessionsOk'
           /\ \A d \in CallTypes : CallOk(d) => CallOk(d)'
           /\ UNCHANGED <<budget, Made, payload, reach, results>>
  <1>1. Sessions' = Sessions /\ CallTypes' = CallTypes /\ Made' = Made
    BY SameBounds DEF Calm, Made
  <1>2. DataTypes'
    BY <1>1 DEF SessionInv, SessionTypes, DataTypes, Calm
  <1>3. Numbered' /\ SessionsOk'
    BY <1>1 DEF SessionInv, Numbered, SessionsOk, SessionOk, Fresh, Calm
  <1>4. \A d \in CallTypes : CallOk(d) => CallOk(d)'
    BY <1>1 DEF CallOk, Calm
  <1> QED
    BY <1>1, <1>2, <1>3, <1>4 DEF Calm

\* What a step may do to the table: it adds only what is unsettled, and takes out only what
\* holds no private bytes.
Tabled ==
    /\ registry' \in Seq(Sessions) /\ Distinct'
    /\ \A x : InTable(x)' => InTable(x) \/ (x \in Made /\ x \notin results)
    /\ \A x : InTable(x) /\ payload[x] = "private" => InTable(x)'

LEMMA TableSteps ==
    ASSUME SessionInv, UNCHANGED budget,
           \/ registry' = registry
           \/ \E s \in Made : s \notin results /\ Publish(s)
           \/ \E s \in settled : Unpublish(s)
    PROVE  Tabled
  <1>1. SessionTypes /\ Distinct
    BY DEF SessionInv, Listed
  <1>2. CASE registry' = registry
    BY <1>1, <1>2, SameTable DEF Tabled
  <1>3. ASSUME NEW s \in Made, s \notin results, Publish(s) PROVE Tabled
    <2>1. s \in Sessions
      BY DEF Made
    <2> QED
      BY <1>1, <1>3, <2>1, Published DEF Tabled
  <1>4. ASSUME NEW s \in settled, Unpublish(s) PROVE Tabled
    <2>1. s \in Sessions /\ payload[s] = "zero"
      BY <1>1 DEF SessionInv, SessionTypes, DataTypes, SessionsOk, SessionOk
    <2>2. registry' \in Seq(Sessions) /\ Distinct' /\ \A x : InTable(x)' <=> (InTable(x) /\ x # s)
      BY <1>1, <1>4, <2>1, Unpublished
    <2> QED
      BY <2>1, <2>2 DEF Tabled
  <1> QED
    BY <1>2, <1>3, <1>4

LEMMA CalmPushes ==
    ASSUME SessionInv, Calm, registry' = registry, NEW t \in Threads, NEW c \in CallTypes,
           stack' = [stack EXCEPT ![t] = Append(@, c)], CallOk(c),
           c.job \in Holders => \A d \in CallTypes : CallOk(d) /\ d.job \in Holders => d.s # c.s \/ 
                   (d.job \in Users /\ \A u \in Threads : \A i \in 1..Len(stack[u]) : stack[u][i] # d)
    PROVE  SessionInv'
  <1>1. /\ SessionTypes /\ CallsOk /\ OneHolder /\ Listed /\ Kept /\ UNCHANGED budget
    BY DEF SessionInv, Calm
  <1>2. /\ DataTypes' /\ Numbered' /\ SessionsOk'
        /\ \A d \in CallTypes : CallOk(d) => CallOk(d)'
        /\ UNCHANGED <<budget, Made, payload, reach, results>>
    BY CalmKeeps
  <1>3. CallsOk' /\ OneHolder' /\ stack' \in [Threads -> Seq(CallTypes)] /\ \A x : DelOf(x) => DelOf(x)'
    BY <1>1, <1>2, CallsPushed
  <1>4. Sessions' = Sessions /\ CallTypes' = CallTypes
    BY <1>1, SameBounds
  <1>5. registry' \in Seq(Sessions) /\ Distinct' /\ \A x : InTable(x)' <=> InTable(x)
    BY <1>1, SameTable DEF Listed
  <1>6. SessionTypes'
    BY <1>2, <1>3, <1>4, <1>5 DEF SessionTypes
  <1>7. Listed' /\ Kept'
    BY <1>1, <1>2, <1>3, <1>4, <1>5 DEF Listed, Kept
  <1> QED
    BY <1>2, <1>3, <1>6, <1>7 DEF SessionInv

LEMMA CalmReplaces ==
    ASSUME SessionInv, Calm, Tabled, NEW t \in Threads, Busy(t), NEW c \in CallTypes, Replace(t, c), CallOk(c),
           c.job \in Holders => Top(t).job \in Holders /\ c.s = Top(t).s,
           Top(t).job = "del" => c.job = "del" /\ c.s = Top(t).s
    PROVE  SessionInv'
  <1>1. /\ SessionTypes /\ CallsOk /\ OneHolder /\ Listed /\ Kept /\ UNCHANGED budget
    BY DEF SessionInv, Calm
  <1>2. /\ DataTypes' /\ Numbered' /\ SessionsOk'
        /\ \A d \in CallTypes : CallOk(d) => CallOk(d)'
        /\ UNCHANGED <<budget, Made, payload, reach, results>>
    BY CalmKeeps
  <1>3. CallsOk' /\ OneHolder' /\ stack' \in [Threads -> Seq(CallTypes)] /\ \A x : DelOf(x) => DelOf(x)'
    <2>1. Harmless(t)
      BY <1>2 DEF Harmless
    <2> QED
      BY <1>1, <1>2, <2>1, CallsReplaced
  <1>4. Sessions' = Sessions /\ CallTypes' = CallTypes
    BY <1>1, SameBounds
  <1>6. SessionTypes'
    BY <1>2, <1>3, <1>4 DEF SessionTypes, Tabled
  <1>7. Listed' /\ Kept'
    BY <1>1, <1>2, <1>3, <1>4 DEF Listed, Kept, Tabled
  <1> QED
    BY <1>2, <1>3, <1>6, <1>7 DEF SessionInv

LEMMA CalmReturns ==
    ASSUME SessionInv, Calm, Tabled, NEW t \in Threads, Busy(t), Return(t),
           \A x : Top(t).job = "del" /\ Top(t).s = x => payload[x] # "private" \/ InTable(x)'
    PROVE  SessionInv'
  <1>1. /\ SessionTypes /\ CallsOk /\ OneHolder /\ Listed /\ Kept /\ UNCHANGED budget
    BY DEF SessionInv, Calm
  <1>2. /\ DataTypes' /\ Numbered' /\ SessionsOk'
        /\ \A d \in CallTypes : CallOk(d) => CallOk(d)'
        /\ UNCHANGED <<budget, Made, payload, reach, results>>
    BY CalmKeeps
  <1>3. /\ CallsOk' /\ OneHolder' /\ stack' \in [Threads -> Seq(CallTypes)]
        /\ \A x : DelOf(x) => DelOf(x)' \/ (Top(t).job = "del" /\ Top(t).s = x)
    <2>1. Harmless(t)
      BY <1>2 DEF Harmless
    <2> QED
      BY <1>1, <2>1, CallsReturned
  <1>4. Sessions' = Sessions /\ CallTypes' = CallTypes
    BY <1>1, SameBounds
  <1>6. SessionTypes'
    BY <1>2, <1>3, <1>4 DEF SessionTypes, Tabled
  <1>7. Listed'
    BY <1>1, <1>2, <1>4 DEF Listed, Tabled
  <1>8. Kept'
    <2> SUFFICES ASSUME NEW s \in Sessions, payload[s] = "private"
                 PROVE  reach[s] \in {"held", "garbage"} \/ InTable(s)' \/ DelOf(s)'
      BY <1>2, <1>4 DEF Kept
    <2>1. reach[s] \in {"held", "garbage"} \/ InTable(s) \/ DelOf(s)
      BY <1>1 DEF Kept
    <2>2. InTable(s) => InTable(s)'
      BY DEF Tabled
    <2>3. DelOf(s) => DelOf(s)' \/ (Top(t).job = "del" /\ Top(t).s = s)
      BY <1>3
    <2> QED
      BY <2>1, <2>2, <2>3
  <1> QED
    BY <1>2, <1>3, <1>6, <1>7, <1>8 DEF SessionInv

LEMMA Typed ==
    ASSUME NEW job \in {"retry", "rollback"} \cup Holders, NEW s \in Sessions \cup {None}, NEW want \in {None} \cup Terminal
    PROVE  /\ Call(job, s, want) \in CallTypes
           /\ Call(job, s, want).job = job /\ Call(job, s, want).s = s /\ Call(job, s, want).want = want
           /\ Call(job, s, want).at = "lock" /\ Call(job, s, want).status = "none"
           /\ Call(job, s, want).rest = <<>>
  BY DEF Call, CallTypes

-----------------------------------------------------------------------------
(* The actions that leave the sessions as they are *)

\* A prepare starts with the cleanups that are pending.
LEMMA KeepsPrepare ==
    ASSUME SessionInv, UNCHANGED budget, NEW t \in Threads, Prepare(t)
    PROVE  SessionInv'
  <1> USE DEF spools, session
  <1>1. PICK c \in CallTypes : c = Call("retry", None, None)
    BY Typed
  <1>2. c.job = "retry" /\ c.s = None /\ c.at = "lock" /\ c.rest = <<>>
    BY <1>1, Typed
  <1>3. CallOk(c)
    BY <1>2 DEF CallOk, Wiping, Holders, Users
  <1>4. stack' = [stack EXCEPT ![t] = Append(@, c)]
    BY <1>1, StartStack DEF Prepare
  <1>5. Calm /\ registry' = registry
    BY DEF Calm, Prepare
  <1> QED
    BY <1>2, <1>3, <1>4, <1>5, CalmPushes DEF Holders

\* A session that a caller may use: nobody else holds it.
LEMMA MineAlone ==
    ASSUME SessionInv, NEW t \in Threads, NEW s \in Sessions, Mine(t, s)
    PROVE  /\ s \in Made /\ reach[s] = "held" /\ ~Busy(t)
           /\ \A d \in CallTypes : CallOk(d) /\ d.job \in Holders => d.s # s \/
                (d.job \in Users /\ \A u \in Threads : \A i \in 1..Len(stack[u]) : stack[u][i] # d)
  <1>1. reach[s] = "held" /\ ~Busy(t)
    BY DEF Mine
  <1>2. s \in Made
    BY <1>1 DEF SessionInv, SessionsOk, SessionOk, Fresh, Made
  <1>3. ASSUME NEW d \in CallTypes, CallOk(d), d.job \in Holders, d.s = s
        PROVE  d.job \in Users /\ \A u \in Threads : \A i \in 1..Len(stack[u]) : stack[u][i] # d
    <2>1. d.job # "del"
      BY <1>1, <1>3 DEF CallOk
    <2>2. d.job \in {"fail", "finish", "exit"}
      BY <1>3, <2>1 DEF Holders
    <2>3. ASSUME NEW u \in Threads, NEW i \in 1..Len(stack[u]), stack[u][i] = d PROVE FALSE
      BY <1>3, <2>2, <2>3 DEF Mine
    <2> QED
      BY <2>2, <2>3 DEF Users
  <1> QED
    BY <1>1, <1>2, <1>3

LEMMA KeepsFinish ==
    ASSUME SessionInv, UNCHANGED budget, NEW t \in Threads, NEW s \in Sessions, Finish(t, s)
    PROVE  SessionInv'
  <1> USE DEF spools, session
  <1>1. PICK c \in CallTypes : c = Call("finish", s, "finished")
    BY Typed DEF Holders, Terminal
  <1>2. c.job = "finish" /\ c.s = s /\ c.at = "lock" /\ c.rest = <<>> /\ c.want = "finished"
    BY <1>1, Typed DEF Holders, Terminal
  <1>0. Mine(t, s) /\ phase[s] = "active"
    BY DEF Finish, Usable
  <1>3. CallOk(c)
    <2>1. s \notin results /\ None # s /\ None # "finished"
      BY <1>0, ThreadsAssumption DEF SessionInv, SessionsOk, SessionOk, Sessions
    <2> QED
      BY <1>0, <1>2, <2>1, MineAlone DEF CallOk, Wiping, Holders, Users
  <1>4. stack' = [stack EXCEPT ![t] = Append(@, c)]
    BY <1>0, <1>1, StartStack DEF Finish, Mine
  <1>5. Calm /\ registry' = registry
    BY DEF Calm, Finish
  <1> QED
    BY <1>0, <1>2, <1>3, <1>4, <1>5, CalmPushes, MineAlone

LEMMA KeepsExit ==
    ASSUME SessionInv, UNCHANGED budget, NEW t \in Threads, NEW s \in Sessions, Exit(t, s)
    PROVE  SessionInv'
  <1> USE DEF spools, session
  <1>0. Mine(t, s) /\ phase[s] \in {"active", "cleanup_pending"}
    BY DEF Exit, Unterminated
  <1>6. Wanted(s) \in Terminal /\ Wanted(s) # None
    BY ThreadsAssumption DEF SessionInv, SessionTypes, DataTypes, Wanted, Terminal
  <1>1. PICK c \in CallTypes : c = Call("exit", s, Wanted(s))
    BY <1>6, Typed DEF Holders
  <1>2. c.job = "exit" /\ c.s = s /\ c.at = "lock" /\ c.rest = <<>> /\ c.want # None
    BY <1>1, <1>6, Typed DEF Holders
  <1>3. CallOk(c)
    <2>1. s \notin results /\ None # s
      BY <1>0, ThreadsAssumption DEF SessionInv, SessionsOk, SessionOk, Sessions
    <2> QED
      BY <1>0, <1>2, <2>1, MineAlone DEF CallOk, Wiping, Holders, Users
  <1>4. stack' = [stack EXCEPT ![t] = Append(@, c)]
    BY <1>0, <1>1, StartStack DEF Exit, Mine
  <1>5. Calm /\ registry' = registry
    BY DEF Calm, Exit
  <1> QED
    BY <1>0, <1>2, <1>3, <1>4, <1>5, CalmPushes, MineAlone

\* The innermost call of a busy thread, as a value.
LEMMA TopCall ==
    ASSUME SessionInv, NEW t \in Threads, Busy(t)
    PROVE  /\ Top(t) \in CallTypes /\ CallOk(Top(t))
           /\ SessionTypes /\ SessionsOk /\ None \notin Sessions
  BY TopType, ThreadsAssumption DEF SessionInv, CallsOk, Sessions

LEMMA Updated ==
    ASSUME NEW c \in CallTypes
    PROVE  /\ \A at \in {"lock", "visit", "close", "wipe", "unpin", "run", "conclude", "park", "open"} :
                /\ [c EXCEPT !.at = at] \in CallTypes
                /\ [c EXCEPT !.at = at].at = at /\ [c EXCEPT !.at = at].job = c.job /\ [c EXCEPT !.at = at].s = c.s
                /\ [c EXCEPT !.at = at].want = c.want /\ [c EXCEPT !.at = at].rest = c.rest
                /\ [c EXCEPT !.at = at].status = c.status
           /\ c.job \in {"retry", "rollback"} \cup Holders /\ c.s \in Sessions \cup {None}
           /\ c.rest \in Seq(Sessions)
  BY DEF CallTypes

\* A cleanup takes the lock of the table: a retry then has the table as it stood.
LEMMA KeepsAcquire ==
    ASSUME SessionInv, UNCHANGED budget, NEW t \in Threads, Acquire(t)
    PROVE  SessionInv'
  <1> USE DEF spools, session
  <1>1. Busy(t) /\ Top(t).at = "lock"
    BY DEF Acquire, At
  <1>2. PICK c \in CallTypes : c = Top(t)
    BY <1>1, TopCall
  <1>3. CallOk(c) /\ c.at = "lock" /\ c.job \in {"retry", "rollback"} \cup Holders
    BY <1>1, <1>2, TopCall, Updated
  <1>4. Calm /\ Tabled
    BY TableSteps DEF Calm, Acquire
  <1>5. CASE c.job = "retry"
    <2>1. PICK d \in CallTypes : d = [c EXCEPT !.at = "visit", !.rest = registry]
      BY DEF SessionInv, SessionTypes, CallTypes
    <2>2. d.job = "retry" /\ d.s = c.s /\ d.at = "visit" /\ d.rest = registry
      BY <1>5, <2>1 DEF CallTypes
    <2>3. \A i \in 1..Len(registry) : registry[i] \in Made
      BY DEF SessionInv, Listed, InTable
    <2>4. CallOk(d)
      BY <1>3, <2>2, <2>3 DEF CallOk, Wiping, Holders, Users
    <2>5. Replace(t, d)
      BY <1>2, <1>5, <2>1 DEF Acquire
    <2> QED
      BY <1>1, <1>2, <1>4, <1>5, <2>2, <2>4, <2>5, CalmReplaces DEF Holders
  <1>6. CASE c.job # "retry"
    <2>1. PICK d \in CallTypes : d = [c EXCEPT !.at = "close"]
      BY Updated
    <2>2. d.job = c.job /\ d.s = c.s /\ d.at = "close" /\ d.rest = c.rest /\ d.want = c.want
      BY <2>1, Updated
    <2>4. CallOk(d)
      BY <1>3, <1>6, <2>2 DEF CallOk, Wiping, Holders, Users
    <2>5. Replace(t, d)
      BY <1>2, <1>6, <2>1 DEF Acquire, GoTo
    <2> QED
      BY <1>1, <1>2, <1>4, <2>2, <2>4, <2>5, CalmReplaces
  <1> QED
    BY <1>5, <1>6

LEMMA KeepsVisit ==
    ASSUME SessionInv, UNCHANGED budget, NEW t \in Threads, Visit(t)
    PROVE  SessionInv'
  <1> USE DEF spools, session
  <1>1. Busy(t) /\ Top(t).at = "visit"
    BY DEF Visit, At
  <1>2. PICK c \in CallTypes : c = Top(t)
    BY <1>1, TopCall
  <1>3. CallOk(c) /\ c.at = "visit" /\ c.job = "retry" /\ None \notin Sessions
    BY <1>1, <1>2, TopCall DEF CallOk
  <1>4. Calm /\ Tabled
    BY TableSteps DEF Calm, Visit
  <1>5. CASE c.rest # <<>>
    <2>0. c.rest \in Seq(Sessions)
      BY Updated
    <2>1. /\ Head(c.rest) \in Sessions /\ Head(c.rest) = c.rest[1] /\ Tail(c.rest) \in Seq(Sessions)
          /\ Len(c.rest) \in Nat \ {0} /\ Len(Tail(c.rest)) = Len(c.rest) - 1
          /\ \A i \in 1..Len(Tail(c.rest)) : Tail(c.rest)[i] = c.rest[i + 1]
      BY <1>5, <2>0, TailOf
    <2>2. Head(c.rest) \in Made /\ \A i \in 1..Len(Tail(c.rest)) : Tail(c.rest)[i] \in Made
      <3>1. \A i \in 1..Len(c.rest) : c.rest[i] \in Made
        BY <1>3 DEF CallOk
      <3>2. 1 \in 1..Len(c.rest) /\ \A i \in 1..Len(Tail(c.rest)) : i + 1 \in 1..Len(c.rest)
        BY <2>1
      <3> QED
        BY <2>1, <3>1, <3>2
    <2>3. Call("retry", Head(c.rest), None) \in CallTypes
      BY <2>1, Typed
    <2>4. PICK d \in CallTypes : d = [Call("retry", Head(c.rest), None) EXCEPT !.at = "close", !.rest = Tail(c.rest)]
      BY <2>1, <2>3 DEF CallTypes
    <2>5. d.job = "retry" /\ d.s = Head(c.rest) /\ d.at = "close" /\ d.rest = Tail(c.rest)
      BY <2>4 DEF Call
    <2>6. CallOk(d)
      BY <1>3, <2>1, <2>2, <2>5 DEF CallOk, Wiping, Holders, Users
    <2>7. Replace(t, d)
      BY <1>2, <1>5, <2>4 DEF Visit
    <2> QED
      BY <1>1, <1>2, <1>3, <1>4, <2>5, <2>6, <2>7, CalmReplaces DEF Holders
  <1>6. CASE c.rest = <<>>
    <2>1. PICK d \in CallTypes : d = [c EXCEPT !.at = "open"]
      BY Updated
    <2>2. d.job = c.job /\ d.s = c.s /\ d.at = "open" /\ d.rest = c.rest
      BY <2>1, Updated
    <2>4. CallOk(d)
      BY <1>3, <2>2 DEF CallOk, Wiping, Holders, Users
    <2>5. Replace(t, d)
      BY <1>2, <1>6, <2>1 DEF Visit, GoTo
    <2> QED
      BY <1>1, <1>2, <1>4, <2>2, <2>4, <2>5, CalmReplaces
  <1> QED
    BY <1>5, <1>6

LEMMA KeepsRolledBack ==
    ASSUME SessionInv, UNCHANGED budget, NEW t \in Threads, RolledBack(t)
    PROVE  SessionInv'
  <1> USE DEF spools, session
  <1>1. Busy(t) /\ Top(t).job = "rollback" /\ Top(t).at = "conclude" /\ Return(t)
    BY DEF RolledBack, At
  <1>2. CallOk(Top(t)) /\ SessionsOk
    BY <1>1, TopCall
  <1>3. Top(t).s \in Made /\ Top(t).s \notin results
    <2>1. Top(t).s \in Made /\ phase[Top(t).s] = "none"
      BY <1>1, <1>2 DEF CallOk
    <2> QED
      BY <1>2, <2>1 DEF SessionsOk, SessionOk, Made
  <1>4. Tabled
    BY <1>1, <1>2, <1>3, TableSteps DEF RolledBack, CallOk
  <1>5. Calm
    BY DEF Calm, RolledBack
  <1> QED
    BY <1>1, <1>4, <1>5, CalmReturns

LEMMA KeepsRetried ==
    ASSUME SessionInv, UNCHANGED budget, NEW t \in Threads, Retried(t)
    PROVE  SessionInv'
  <1> USE DEF spools, session
  <1>1. Busy(t) /\ Top(t).job = "retry" /\ Top(t).at = "conclude"
    BY DEF Retried, At
  <1>2. PICK c \in CallTypes : c = Top(t)
    BY <1>1, TopCall
  <1>3. CallOk(c) /\ c.at = "conclude" /\ c.job = "retry"
    BY <1>1, <1>2, TopCall
  <1>4. Calm
    BY DEF Calm, Retried
  <1>5. Tabled
    <2>1. registry' = registry \/ (c.status = "settled" /\ Unpublish(c.s))
      BY <1>2 DEF Retried
    <2> QED
      BY <1>3, <2>1, TableSteps DEF CallOk
  <1>6. CASE Return(t)
    BY <1>1, <1>4, <1>5, <1>6, CalmReturns
  <1>7. CASE GoTo(t, "visit")
    <2>1. PICK d \in CallTypes : d = [c EXCEPT !.at = "visit"]
      BY Updated
    <2>2. d.job = c.job /\ d.s = c.s /\ d.at = "visit" /\ d.rest = c.rest
      BY <2>1, Updated
    <2>4. CallOk(d)
      BY <1>3, <2>2 DEF CallOk, Wiping, Holders, Users
    <2>5. Replace(t, d)
      BY <1>2, <1>7, <2>1 DEF GoTo
    <2> QED
      BY <1>1, <1>2, <1>4, <1>5, <2>2, <2>4, <2>5, CalmReplaces
  <1> QED
    BY <1>6, <1>7 DEF Retried

LEMMA KeepsEscape ==
    ASSUME SessionInv, UNCHANGED budget, NEW t \in Threads, Escape(t)
    PROVE  SessionInv'
  <1> USE DEF spools, session
  <1>1. Busy(t) /\ Top(t).at # "park"
    BY DEF Escape, Interrupted
  <1>2. PICK c \in CallTypes : c = Top(t)
    BY <1>1, TopCall
  <1>3. /\ CallOk(c) /\ c.at # "park" /\ SessionsOk /\ None \notin Sessions
        /\ c.job \in {"retry", "rollback"} \cup Holders /\ c.s \in Sessions \cup {None}
    BY <1>1, <1>2, TopCall, Updated
  <1>4. Calm
    BY DEF Calm, Escape
  <1>5. Tabled
    <2>1. \/ registry' = registry
          \/ Publish(c.s) /\ c.job # "retry"
      BY <1>2 DEF Escape
    <2>2. c.job # "retry" => c.s \in Made
      BY <1>3 DEF CallOk
    <2>3. c.job # "retry" => c.s \notin results
      <3>1. CASE c.job \in Holders
        BY <1>3, <3>1 DEF CallOk
      <3>2. CASE c.job = "rollback"
        <4>1. phase[c.s] = "none" /\ c.s \in Sessions
          BY <1>3, <2>2, <3>2 DEF CallOk, Made
        <4> QED
          BY <1>3, <4>1 DEF SessionsOk, SessionOk
      <3> QED
        BY <1>3, <3>1, <3>2
    <2> QED
      BY <2>1, <2>2, <2>3, TableSteps
  <1>6. CASE c.job = "del"
    <2>1. PICK d \in CallTypes : d = [c EXCEPT !.at = "park"]
      BY Updated
    <2>2. d.job = c.job /\ d.s = c.s /\ d.at = "park" /\ d.rest = c.rest
      BY <2>1, Updated
    <2>4. CallOk(d)
      BY <1>3, <1>6, <2>2 DEF CallOk, Wiping, Holders, Users
    <2>5. Replace(t, d)
      BY <1>2, <1>6, <2>1 DEF GoTo, Escape
    <2> QED
      BY <1>1, <1>2, <1>4, <1>5, <2>2, <2>4, <2>5, CalmReplaces
  <1>7. CASE c.job = "finish" /\ phase[c.s] = "active"
    <2>0. c.s \in Sessions /\ None # "failed"
      BY <1>3, <1>7, ThreadsAssumption DEF CallOk
    <2>1. PICK d \in CallTypes : d = Call("fail", c.s, "failed")
      BY <2>0, Typed DEF Holders, Terminal
    <2>2. d.job = "fail" /\ d.s = c.s /\ d.at = "lock" /\ d.rest = <<>> /\ d.want = "failed"
      BY <2>0, <2>1, Typed DEF Holders, Terminal
    <2>4. CallOk(d)
      BY <1>3, <1>7, <2>0, <2>2 DEF CallOk, Wiping, Holders, Users
    <2>5. Replace(t, d)
      BY <1>2, <1>7, <2>1 DEF Escape
    <2> QED
      BY <1>1, <1>2, <1>4, <1>5, <1>7, <2>2, <2>4, <2>5, CalmReplaces DEF Holders
  <1>8. CASE c.job # "del" /\ Return(t)
    BY <1>1, <1>2, <1>4, <1>5, <1>8, CalmReturns
  <1> QED
    BY <1>2, <1>6, <1>7, <1>8 DEF Escape

-----------------------------------------------------------------------------
(* The actions of a caller that change a session *)

LEMMA Assembled ==
    ASSUME UNCHANGED budget, DataTypes', registry' \in Seq(Sessions), stack' \in [Threads -> Seq(CallTypes)],
           Numbered', SessionsOk', CallsOk', OneHolder', Listed', Kept'
    PROVE  SessionInv'
  BY SameBounds DEF SessionInv, SessionTypes

\* Private bytes that come to a session whose connection is open.
LEMMA Privately ==
    ASSUME SessionInv, NEW s \in Sessions, reach[s] = "held", s \in writer,
           payload' = [payload EXCEPT ![s] = "private"],
           UNCHANGED <<phase, intent, reach, writer, named, pinned, settled, results, budget, registry>>
    PROVE  /\ DataTypes' /\ Numbered' /\ SessionsOk' /\ Listed' /\ registry' \in Seq(Sessions)
           /\ \A d \in CallTypes : CallOk(d) => CallOk(d)'
           /\ (\A x : DelOf(x) => DelOf(x)') => Kept'
  <1>1. Sessions' = Sessions /\ CallTypes' = CallTypes
    BY SameBounds
  <1>2. SessionTypes /\ DataTypes /\ SessionsOk /\ SessionOk(s) /\ Listed /\ Kept
    BY DEF SessionInv, SessionTypes, SessionsOk
  <1>3. payload[s] # "none" /\ payload[s] # "zero" /\ s \notin settled /\ s \in pinned
    BY <1>2 DEF SessionOk, Fresh
  <1>4. \A x \in Sessions : payload'[x] = IF x = s THEN "private" ELSE payload[x]
    BY <1>2 DEF DataTypes
  <1>5. Made' = Made
    BY <1>1, <1>3, <1>4 DEF Made
  <1>6. DataTypes'
    BY <1>1, <1>2 DEF DataTypes
  <1>7. Numbered'
    BY <1>1, <1>5 DEF SessionInv, Numbered
  <1>8. SessionsOk'
    BY <1>1, <1>2, <1>3, <1>4 DEF SessionsOk, SessionOk, Fresh
  <1>9. registry' \in Seq(Sessions) /\ Distinct' /\ \A x : InTable(x)' <=> InTable(x)
    BY <1>2, SameTable DEF Listed
  <1>10. Listed'
    BY <1>2, <1>5, <1>9 DEF Listed
  <1>11. ASSUME NEW d \in CallTypes, CallOk(d) PROVE CallOk(d)'
    <2>1. d.at \in {"unpin", "run"} => d.s # s
      BY <1>3, <1>11 DEF CallOk
    <2>2. d.at \in {"unpin", "run"} => payload'[d.s] = "zero"
      <3>1. ASSUME d.at \in {"unpin", "run"} PROVE d.s \in Sessions /\ payload[d.s] = "zero"
        <4>1. d.s # None
          BY <1>11, <3>1 DEF CallOk
        <4> QED
          BY <1>11, <3>1, <4>1 DEF CallOk, Made
      <3> QED
        BY <1>4, <2>1, <3>1
    <2> QED
      BY <1>5, <1>11, <2>2 DEF CallOk
  <1>12. ASSUME \A x : DelOf(x) => DelOf(x)' PROVE Kept'
    BY <1>1, <1>2, <1>4, <1>9, <1>12 DEF Kept
  <1> QED
    BY <1>6, <1>7, <1>8, <1>9, <1>10, <1>11, <1>12

LEMMA SameCalls ==
    ASSUME SessionInv, UNCHANGED <<budget, stack>>, \A d \in CallTypes : CallOk(d) => CallOk(d)'
    PROVE  CallsOk' /\ OneHolder' /\ stack' \in [Threads -> Seq(CallTypes)] /\ \A x : DelOf(x)' <=> DelOf(x)
  <1>1. SessionTypes /\ CallsOk /\ OneHolder
    BY DEF SessionInv
  <1>2. CallsOk'
    <2> SUFFICES ASSUME NEW u \in Threads, NEW i \in 1..Len(stack[u]) PROVE CallOk(stack[u][i])'
      BY DEF CallsOk
    <2>1. stack[u][i] \in CallTypes /\ CallOk(stack[u][i])
      BY <1>1, StackType DEF CallsOk
    <2>2. PICK d \in CallTypes : d = stack[u][i]
      BY <2>1
    <2>3. CallOk(d)' /\ stack'[u][i] = d
      BY <2>1, <2>2
    <2> QED
      BY <2>3
  <1> QED
    BY <1>1, <1>2 DEF OneHolder, SessionTypes, DelOf

LEMMA KeepsConsume ==
    ASSUME SessionInv, UNCHANGED budget, NEW t \in Threads, NEW s \in Sessions, Consume(t, s)
    PROVE  SessionInv'
  <1> USE DEF spools, session
  <1>1. reach[s] = "held" /\ s \in writer /\ UNCHANGED stack
    BY DEF Consume, Usable, Mine
  <1>2. /\ DataTypes' /\ Numbered' /\ SessionsOk' /\ Listed' /\ registry' \in Seq(Sessions)
        /\ \A d \in CallTypes : CallOk(d) => CallOk(d)'
        /\ (\A x : DelOf(x) => DelOf(x)') => Kept'
    BY <1>1, Privately DEF Consume
  <1> QED
    BY <1>1, <1>2, SameCalls, Assembled

LEMMA KeepsUseFails ==
    ASSUME SessionInv, UNCHANGED budget, NEW t \in Threads, NEW s \in Sessions, UseFails(t, s)
    PROVE  SessionInv'
  <1> USE DEF spools, session
  <1>0. Mine(t, s) /\ phase[s] = "active" /\ UNCHANGED registry
    BY DEF UseFails, Usable
  <1>1. PICK c \in CallTypes : c = Call("fail", s, "failed")
    BY Typed DEF Holders, Terminal
  <1>2. c.job = "fail" /\ c.s = s /\ c.at = "lock" /\ c.rest = <<>> /\ c.want = "failed"
    BY <1>1, Typed DEF Holders, Terminal
  <1>3. CallOk(c)
    <2>1. s \notin results /\ None # s /\ None # "failed"
      BY <1>0, ThreadsAssumption DEF SessionInv, SessionsOk, SessionOk, Sessions
    <2> QED
      BY <1>0, <1>2, <2>1, MineAlone DEF CallOk, Wiping, Holders, Users
  <1>4. stack' = [stack EXCEPT ![t] = Append(@, c)]
    BY <1>0, <1>1, StartStack DEF UseFails, Mine
  <1>5. CASE payload' = payload
    <2>1. Calm
      BY <1>5 DEF Calm, UseFails
    <2> QED
      BY <1>0, <1>2, <1>3, <1>4, <2>1, CalmPushes, MineAlone
  <1>6. CASE s \in writer /\ payload' = [payload EXCEPT ![s] = "private"]
    <2>1. reach[s] = "held"
      BY <1>0 DEF Mine
    <2>2. /\ DataTypes' /\ Numbered' /\ SessionsOk' /\ Listed' /\ registry' \in Seq(Sessions)
          /\ \A d \in CallTypes : CallOk(d) => CallOk(d)'
          /\ (\A x : DelOf(x) => DelOf(x)') => Kept'
      BY <1>6, <2>1, Privately DEF UseFails
    <2>3. CallsOk' /\ OneHolder' /\ stack' \in [Threads -> Seq(CallTypes)] /\ \A x : DelOf(x) => DelOf(x)'
      BY <1>0, <1>2, <1>3, <1>4, <2>2, CallsPushed, MineAlone DEF SessionInv
    <2> QED
      BY <2>2, <2>3, Assembled
  <1> QED
    BY <1>5, <1>6 DEF UseFails

\* Only the reach of a session changes, and no call holds it.
LEMMA Reached ==
    ASSUME SessionInv, NEW s \in Sessions, NEW where \in {"garbage", "collected"},
           reach[s] \in {"held", "garbage"}, where = "collected" => reach[s] = "garbage",
           reach' = [reach EXCEPT ![s] = where],
           UNCHANGED <<phase, intent, payload, writer, named, pinned, settled, results, budget, registry>>
    PROVE  /\ DataTypes' /\ Numbered' /\ SessionsOk' /\ Listed' /\ registry' \in Seq(Sessions)
           /\ \A d \in CallTypes : CallOk(d) /\ (d.job \in Users => d.s # s) => CallOk(d)'
           /\ (\A x : DelOf(x) => DelOf(x)') /\ (where = "garbage" \/ DelOf(s)') => Kept'
  <1>1. Sessions' = Sessions /\ CallTypes' = CallTypes
    BY SameBounds
  <1>2. SessionTypes /\ DataTypes /\ SessionsOk /\ SessionOk(s) /\ Listed /\ Kept
    BY DEF SessionInv, SessionTypes, SessionsOk
  <1>3. payload[s] # "none" /\ phase[s] # "none"
    BY <1>2 DEF SessionOk, Fresh
  <1>4. \A x \in Sessions : reach'[x] = IF x = s THEN where ELSE reach[x]
    BY <1>2 DEF DataTypes
  <1>5. Made' = Made
    BY <1>1 DEF Made
  <1>6. DataTypes'
    BY <1>1, <1>2 DEF DataTypes
  <1>7. Numbered'
    BY <1>1, <1>5 DEF SessionInv, Numbered
  <1>8. SessionsOk'
    BY <1>1, <1>2, <1>3, <1>4 DEF SessionsOk, SessionOk, Fresh
  <1>9. registry' \in Seq(Sessions) /\ Distinct' /\ \A x : InTable(x)' <=> InTable(x)
    BY <1>2, SameTable DEF Listed
  <1>10. Listed'
    BY <1>2, <1>5, <1>9 DEF Listed
  <1>11. ASSUME NEW d \in CallTypes, CallOk(d), d.job \in Users => d.s # s PROVE CallOk(d)'
    <2>1. d.job # "retry" => d.s \in Sessions
      BY <1>11 DEF CallOk, Made
    <2>2. d.job \in Users => reach'[d.s] = "held"
      BY <1>4, <1>11, <2>1 DEF CallOk, Users
    <2>3. d.job \in {"del", "rollback"} => reach'[d.s] = "collected"
      BY <1>2, <1>4, <1>11, <2>1 DEF CallOk
    <2> QED
      BY <1>5, <1>11, <2>2, <2>3 DEF CallOk
  <1>12. ASSUME \A x : DelOf(x) => DelOf(x)', where = "garbage" \/ DelOf(s)' PROVE Kept'
    <2> SUFFICES ASSUME NEW x \in Sessions, payload[x] = "private"
                 PROVE  reach'[x] \in {"held", "garbage"} \/ InTable(x)' \/ DelOf(x)'
      BY <1>1 DEF Kept
    <2>1. reach[x] \in {"held", "garbage"} \/ InTable(x) \/ DelOf(x)
      BY <1>2 DEF Kept
    <2>2. CASE x = s
      BY <1>4, <1>12, <2>2
    <2>3. CASE x # s
      BY <1>4, <1>9, <1>12, <2>1, <2>3
    <2> QED
      BY <2>2, <2>3
  <1> QED
    BY <1>6, <1>7, <1>8, <1>9, <1>10, <1>11, <1>12

LEMMA KeepsDrop ==
    ASSUME SessionInv, UNCHANGED budget, NEW t \in Threads, NEW s \in Sessions, Drop(t, s)
    PROVE  SessionInv'
  <1> USE DEF spools, session
  <1>0. Mine(t, s) /\ UNCHANGED stack /\ reach[s] = "held"
    BY DEF Drop, Mine
  <1>1. /\ DataTypes' /\ Numbered' /\ SessionsOk' /\ Listed' /\ registry' \in Seq(Sessions)
        /\ \A d \in CallTypes : CallOk(d) /\ (d.job \in Users => d.s # s) => CallOk(d)'
        /\ (\A x : DelOf(x) => DelOf(x)') => Kept'
    BY <1>0, Reached DEF Drop
  <1>2. CallsOk'
    <2> SUFFICES ASSUME NEW u \in Threads, NEW i \in 1..Len(stack[u]) PROVE CallOk(stack[u][i])'
      BY <1>0 DEF CallsOk
    <2>1. stack[u][i] \in CallTypes /\ CallOk(stack[u][i])
      BY StackType DEF CallsOk, SessionInv
    <2>2. PICK d \in CallTypes : d = stack[u][i]
      BY <2>1
    <2>3. d.job \in Users => d.s # s
      BY <1>0, <2>2 DEF Mine, Users
    <2>4. CallOk(d)' /\ stack'[u][i] = d
      BY <1>0, <1>1, <2>1, <2>2, <2>3
    <2> QED
      BY <2>4
  <1>3. OneHolder' /\ stack' \in [Threads -> Seq(CallTypes)] /\ \A x : DelOf(x)' <=> DelOf(x)
    BY <1>0, SameBounds DEF SessionInv, OneHolder, SessionTypes, DelOf
  <1> QED
    BY <1>1, <1>2, <1>3, Assembled

\* The collector finds a session that nobody holds, in whatever call it interrupts.
LEMMA KeepsCollect ==
    ASSUME SessionInv, UNCHANGED budget, NEW t \in Threads, NEW s \in Sessions, Collect(t, s)
    PROVE  SessionInv'
  <1> USE DEF spools, session
  <1>0. reach[s] = "garbage" /\ UNCHANGED registry
    BY DEF Collect
  <1>1. /\ DataTypes' /\ Numbered' /\ SessionsOk' /\ Listed' /\ registry' \in Seq(Sessions)
        /\ \A d \in CallTypes : CallOk(d) /\ (d.job \in Users => d.s # s) => CallOk(d)'
        /\ (\A x : DelOf(x) => DelOf(x)') /\ DelOf(s)' => Kept'
    BY <1>0, Reached DEF Collect
  <1>2. \A d \in CallTypes : CallOk(d) /\ d.job \in Holders => d.s # s
    BY <1>0 DEF CallOk, Holders, Users
  <1>3. \A d \in CallTypes : CallOk(d) => CallOk(d)'
    BY <1>1, <1>2 DEF Holders, Users
  <1>4. Wanted(s) \in Terminal /\ Wanted(s) # None /\ None \notin Sessions
    <2>1. Wanted(s) \in Terminal /\ Wanted(s) # None
      BY ThreadsAssumption DEF SessionInv, SessionTypes, DataTypes, Wanted, Terminal
    <2>2. None \notin Sessions
      BY ThreadsAssumption DEF Sessions
    <2> QED
      BY <2>1, <2>2
  <1>5. PICK c \in CallTypes :
           /\ stack' = [stack EXCEPT ![t] = Append(@, c)]
           /\ c.job = "del" /\ c.s = s /\ c.rest = <<>>
           /\ \/ c.at = "lock" /\ c.want # None /\ Unterminated(s)
              \/ c.at = "park"
    <2>1. CASE Unterminated(s)
      <3>1. PICK c \in CallTypes : c = Call("del", s, Wanted(s))
        BY <1>4, Typed DEF Holders
      <3>2. c.job = "del" /\ c.s = s /\ c.rest = <<>> /\ c.at = "lock" /\ c.want # None
        BY <1>4, <3>1, Typed DEF Holders
      <3>3. stack' = [stack EXCEPT ![t] = Append(@, c)]
        BY <2>1, <3>1 DEF Collect
      <3> QED
        BY <2>1, <3>2, <3>3
    <2>2. CASE ~Unterminated(s)
      <3>1. Call("del", s, None) \in CallTypes
        BY Typed DEF Holders
      <3>2. PICK c0 \in CallTypes : c0 = Call("del", s, None)
        BY <3>1
      <3>3. PICK c \in CallTypes : c = [c0 EXCEPT !.at = "park"]
        BY Updated
      <3>4. c0.job = "del" /\ c0.s = s /\ c0.rest = <<>>
        BY <3>2, Typed DEF Holders
      <3>5. c.job = "del" /\ c.s = s /\ c.rest = <<>> /\ c.at = "park"
        BY <3>3, <3>4, Updated
      <3>6. stack' = [stack EXCEPT ![t] = Append(@, c)]
        BY <2>2, <3>2, <3>3 DEF Collect
      <3> QED
        BY <3>5, <3>6
    <2> QED
      BY <2>1, <2>2
  <1>6. CallOk(c)'
    <2>1. phase[s] # "none" /\ s \in Made
      BY <1>0 DEF SessionInv, SessionsOk, SessionOk, Fresh, Made
    <2>2. reach'[s] = "collected" /\ UNCHANGED <<phase, results>> /\ Made' = Made
      BY SameBounds DEF Collect, SessionInv, SessionTypes, DataTypes, Made
    <2>3. Unterminated(s) => s \notin results
      BY DEF Unterminated, SessionInv, SessionsOk, SessionOk
    <2> QED
      BY <1>4, <1>5, <2>1, <2>2, <2>3 DEF CallOk, Wiping, Holders, Users
  <1>7. /\ CallsOk' /\ OneHolder' /\ stack' \in [Threads -> Seq(CallTypes)]
        /\ \A x : DelOf(x) => DelOf(x)'
        /\ DelOf(c.s)'
    BY <1>2, <1>3, <1>5, <1>6, CallsPushed DEF SessionInv
  <1>8. DelOf(s)'
    BY <1>5, <1>7
  <1> QED
    BY <1>1, <1>7, <1>8, Assembled

-----------------------------------------------------------------------------
(* The steps of a cleanup *)

\* The innermost call of t changes only where it is, and what it found out.
Moves(c, d) == d.job = c.job /\ d.s = c.s /\ d.want = c.want /\ d.rest = c.rest

LEMMA KeepsCloseWriter ==
    ASSUME SessionInv, UNCHANGED budget, NEW t \in Threads, CloseWriter(t)
    PROVE  SessionInv'
  <1> USE DEF spools, session
  <1>1. Busy(t) /\ Top(t).at = "close"
    BY DEF CloseWriter, At
  <1>2. PICK c \in CallTypes : c = Top(t)
    BY <1>1, TopCall
  <1>3. /\ CallOk(c) /\ c.at = "close" /\ SessionTypes /\ DataTypes /\ SessionsOk /\ Listed /\ Kept
        /\ UNCHANGED <<payload, named, pinned, settled, phase, intent, reach, results, registry>>
    BY <1>1, <1>2, TopCall DEF CloseWriter, SessionInv, SessionTypes
  <1>4. PICK d \in CallTypes :
          /\ Replace(t, d) /\ Moves(c, d)
          /\ \/ d.at = "conclude" /\ writer' = writer /\ (d.status = "settled" => c.s \in settled)
             \/ d.at = "wipe" /\ writer' = writer \ {c.s}
    <2>1. CASE Conclude(t, "settled") /\ writer' = writer /\ c.s \in settled
      <3>1. PICK d \in CallTypes : d = [c EXCEPT !.at = "conclude", !.status = "settled"]
        BY DEF CallTypes
      <3>2. d.at = "conclude" /\ Moves(c, d)
        BY <3>1 DEF CallTypes, Moves
      <3> QED
        BY <1>2, <2>1, <3>1, <3>2 DEF Conclude
    <2>2. CASE Conclude(t, "writer_live") /\ writer' = writer
      <3>1. PICK d \in CallTypes : d = [c EXCEPT !.at = "conclude", !.status = "writer_live"]
        BY DEF CallTypes
      <3>2. d.at = "conclude" /\ Moves(c, d) /\ d.status # "settled"
        BY <3>1 DEF CallTypes, Moves
      <3> QED
        BY <1>2, <2>2, <3>1, <3>2 DEF Conclude
    <2>3. CASE GoTo(t, "wipe") /\ writer' = writer \ {c.s}
      <3>1. PICK d \in CallTypes : d = [c EXCEPT !.at = "wipe"]
        BY Updated
      <3>2. d.at = "wipe" /\ Moves(c, d)
        BY <3>1, Updated DEF Moves
      <3> QED
        BY <1>2, <2>3, <3>1, <3>2 DEF GoTo
    <2> QED
      BY <1>2, <2>1, <2>2, <2>3 DEF CloseWriter
  <1>5. Sessions' = Sessions /\ CallTypes' = CallTypes /\ Made' = Made /\ writer' \subseteq writer
    BY <1>3, <1>4, SameBounds DEF Made
  <1>6. DataTypes' /\ Numbered' /\ SessionsOk'
    <2>1. DataTypes'
      BY <1>3, <1>5 DEF DataTypes
    <2>2. Numbered'
      BY <1>5 DEF SessionInv, Numbered
    <2>3. SessionsOk'
      BY <1>3, <1>5 DEF SessionsOk, SessionOk, Fresh
    <2> QED
      BY <2>1, <2>2, <2>3
  <1>7. \A e \in CallTypes : CallOk(e) => CallOk(e)'
    BY <1>3, <1>5 DEF CallOk
  <1>8. CallOk(d)'
    BY <1>3, <1>4, <1>5, <1>7 DEF CallOk, Moves, Wiping, Holders, Users
  <1>9. /\ CallsOk' /\ OneHolder' /\ stack' \in [Threads -> Seq(CallTypes)]
        /\ \A x : DelOf(x) => DelOf(x)'
    BY <1>1, <1>2, <1>4, <1>7, <1>8, CallsReplaced DEF Harmless, SessionInv, Moves
  <1>10. registry' \in Seq(Sessions) /\ Distinct' /\ \A x : InTable(x)' <=> InTable(x)
    BY <1>3, SameTable DEF Listed
  <1>11. Listed' /\ Kept'
    BY <1>3, <1>5, <1>9, <1>10 DEF Listed, Kept
  <1> QED
    BY <1>6, <1>9, <1>10, <1>11, Assembled

\* How far a wipe comes: bytes only go, and only of a session whose connection is closed.
LEMMA Wiped ==
    ASSUME SessionInv, NEW s \in Sessions, s \in Made, s \notin writer,
           NEW how_far, WipeReaches(s, how_far),
           how_far \in {"nothing", "truncated", "renamed", "synced"},
           UNCHANGED <<phase, intent, reach, writer, pinned, settled, results, budget, registry>>
    PROVE  /\ DataTypes' /\ Numbered' /\ SessionsOk' /\ Listed' /\ registry' \in Seq(Sessions)
           /\ \A d \in CallTypes : CallOk(d) => CallOk(d)'
           /\ (\A x : DelOf(x) => DelOf(x)') => Kept'
           /\ Made' = Made
           /\ how_far = "synced" => payload'[s] = "zero"
  <1>1. Sessions' = Sessions /\ CallTypes' = CallTypes
    BY SameBounds
  <1>2. SessionTypes /\ DataTypes /\ SessionsOk /\ SessionOk(s) /\ Listed /\ Kept
    BY DEF SessionInv, SessionTypes, SessionsOk
  <1>3. payload' = payload \/ payload' = [payload EXCEPT ![s] = "zero"]
    BY DEF WipeReaches
  <1>4. \A x \in Sessions : payload'[x] = payload[x] \/ (x = s /\ payload'[x] = "zero")
    BY <1>2, <1>3 DEF DataTypes
  <1>5. Made' = Made
    BY <1>1, <1>4 DEF Made
  <1>6. DataTypes'
    <2>1. named' \subseteq Sessions
      BY <1>2 DEF WipeReaches, DataTypes
    <2> QED
      BY <1>1, <1>2, <1>3, <2>1 DEF DataTypes
  <1>7. Numbered'
    BY <1>1, <1>5 DEF SessionInv, Numbered
  <1>8. SessionsOk'
    <2> SUFFICES ASSUME NEW x \in Sessions PROVE SessionOk(x)'
      BY <1>1 DEF SessionsOk
    <2>1. SessionOk(x)
      BY <1>2 DEF SessionsOk
    <2>2. CASE payload'[x] = payload[x]
      BY <2>1, <2>2 DEF SessionOk, Fresh
    <2>3. CASE x = s /\ payload'[x] = "zero"
      BY <2>1, <2>3 DEF SessionOk, Fresh
    <2> QED
      BY <1>4, <2>2, <2>3
  <1>9. registry' \in Seq(Sessions) /\ Distinct' /\ \A x : InTable(x)' <=> InTable(x)
    BY <1>2, SameTable DEF Listed
  <1>10. Listed'
    BY <1>2, <1>5, <1>9 DEF Listed
  <1>11. ASSUME NEW d \in CallTypes, CallOk(d) PROVE CallOk(d)'
    <2>1. d.at \in {"unpin", "run"} => payload'[d.s] = "zero"
      <3>1. ASSUME d.at \in {"unpin", "run"} PROVE d.s \in Sessions /\ payload[d.s] = "zero"
        <4>1. d.s # None
          BY <1>11, <3>1 DEF CallOk
        <4> QED
          BY <1>11, <3>1, <4>1 DEF CallOk, Made
      <3> QED
        BY <1>4, <3>1
    <2> QED
      BY <1>5, <1>11, <2>1 DEF CallOk
  <1>12. ASSUME \A x : DelOf(x) => DelOf(x)' PROVE Kept'
    <2> SUFFICES ASSUME NEW x \in Sessions, payload'[x] = "private"
                 PROVE  reach'[x] \in {"held", "garbage"} \/ InTable(x)' \/ DelOf(x)'
      BY <1>1 DEF Kept
    <2>1. payload[x] = "private"
      BY <1>4
    <2> QED
      BY <1>2, <1>9, <1>12, <2>1 DEF Kept
  <1>13. how_far = "synced" => payload'[s] = "zero"
    BY <1>2 DEF WipeReaches, DataTypes
  <1> QED
    BY <1>5, <1>6, <1>7, <1>8, <1>9, <1>10, <1>11, <1>12, <1>13

\* The bytes are overwritten only once the writer is closed.
LEMMA KeepsWipe ==
    ASSUME SessionInv, UNCHANGED budget, NEW t \in Threads, Wipe(t)
    PROVE  SessionInv'
  <1> USE DEF spools, session
  <1>1. Busy(t) /\ Top(t).at = "wipe"
    BY DEF Wipe, At
  <1>2. PICK c \in CallTypes : c = Top(t)
    BY <1>1, TopCall
  <1>3. /\ CallOk(c) /\ c.at = "wipe"
        /\ UNCHANGED <<phase, intent, reach, writer, pinned, settled, results, budget, registry>>
    BY <1>1, <1>2, TopCall DEF Wipe
  <1>4. PICK how_far \in {"nothing", "truncated", "renamed", "synced"} :
          /\ WipeReaches(c.s, how_far)
          /\ IF how_far = "synced" \/ (c.inWipe /\ c.s \in pinned /\ payload'[c.s] = "zero")
             THEN GoTo(t, "unpin")
             ELSE Conclude(t, "wipe_pending")
    BY <1>2 DEF Wipe
  <1>5. c.s \in Made /\ c.s \in Sessions /\ c.s \notin writer
    BY <1>3 DEF CallOk, Wiping, Made
  <1>6. /\ DataTypes' /\ Numbered' /\ SessionsOk' /\ Listed' /\ registry' \in Seq(Sessions)
        /\ \A d \in CallTypes : CallOk(d) => CallOk(d)'
        /\ (\A x : DelOf(x) => DelOf(x)') => Kept'
        /\ Made' = Made
        /\ how_far = "synced" => payload'[c.s] = "zero"
    BY <1>3, <1>4, <1>5, Wiped
  <1>7. PICK d \in CallTypes :
          /\ Replace(t, d) /\ Moves(c, d)
          /\ \/ d.at = "conclude" /\ d.status # "settled"
             \/ d.at = "unpin" /\ payload'[c.s] = "zero"
    <2>1. CASE GoTo(t, "unpin") /\ payload'[c.s] = "zero"
      <3>1. PICK d \in CallTypes : d = [c EXCEPT !.at = "unpin"]
        BY Updated
      <3>2. d.at = "unpin" /\ Moves(c, d)
        BY <3>1, Updated DEF Moves
      <3> QED
        BY <1>2, <2>1, <3>1, <3>2 DEF GoTo
    <2>2. CASE Conclude(t, "wipe_pending")
      <3>1. PICK d \in CallTypes : d = [c EXCEPT !.at = "conclude", !.status = "wipe_pending"]
        BY DEF CallTypes
      <3>2. d.at = "conclude" /\ Moves(c, d) /\ d.status # "settled"
        BY <3>1 DEF CallTypes, Moves
      <3> QED
        BY <1>2, <2>2, <3>1, <3>2 DEF Conclude
    <2> QED
      BY <1>4, <1>6, <2>1, <2>2
  <1>8. CallOk(c)'
    BY <1>3, <1>6
  <1>9. CallOk(d)'
    BY <1>3, <1>7, <1>8 DEF CallOk, Moves, Wiping, Holders, Users
  <1>10. /\ CallsOk' /\ OneHolder' /\ stack' \in [Threads -> Seq(CallTypes)]
         /\ \A x : DelOf(x) => DelOf(x)'
    BY <1>1, <1>2, <1>6, <1>7, <1>9, CallsReplaced DEF Harmless, SessionInv, Moves
  <1> QED
    BY <1>6, <1>10, Assembled

\* A protected call is made again after an interrupt, and its wipe starts over.
LEMMA KeepsDefer ==
    ASSUME SessionInv, UNCHANGED budget, NEW t \in Threads, Defer(t)
    PROVE  SessionInv'
  <1> USE DEF spools, session
  <1>1. Busy(t)
    BY DEF Defer, Interrupted
  <1>2. PICK c \in CallTypes : c = Top(t)
    BY <1>1, TopCall
  <1>3. /\ CallOk(c)
        /\ UNCHANGED <<phase, intent, reach, writer, pinned, settled, results, budget, registry>>
    BY <1>1, <1>2, TopCall DEF Defer
  <1>4. CASE c.at \in {"close", "unpin", "run"} /\ UNCHANGED <<payload, named>> /\ Replace(t, [c EXCEPT !.control = TRUE])
    <2>1. PICK d \in CallTypes : d = [c EXCEPT !.control = TRUE]
      BY DEF CallTypes
    <2>2. Moves(c, d) /\ d.at = c.at /\ d.status = c.status
      BY <2>1 DEF CallTypes, Moves
    <2>3. CallOk(d)
      BY <1>3, <2>2 DEF CallOk, Moves
    <2>4. Calm
      BY <1>3, <1>4 DEF Calm
    <2>5. Tabled
      BY <1>3, TableSteps
    <2> QED
      BY <1>1, <1>2, <1>4, <2>1, <2>2, <2>3, <2>4, <2>5, CalmReplaces DEF Moves
  <1>5. CASE /\ c.at = "wipe" /\ Replace(t, [c EXCEPT !.control = TRUE, !.inWipe = TRUE])
             /\ \E how_far \in {"nothing", "truncated", "renamed"} : WipeReaches(c.s, how_far)
    <2>1. PICK d \in CallTypes : d = [c EXCEPT !.control = TRUE, !.inWipe = TRUE]
      BY DEF CallTypes
    <2>2. Moves(c, d) /\ d.at = c.at /\ d.status = c.status
      BY <2>1 DEF CallTypes, Moves
    <2>3. c.s \in Made /\ c.s \in Sessions /\ c.s \notin writer
      BY <1>3, <1>5 DEF CallOk, Wiping, Made
    <2>4. /\ DataTypes' /\ Numbered' /\ SessionsOk' /\ Listed' /\ registry' \in Seq(Sessions)
          /\ \A e \in CallTypes : CallOk(e) => CallOk(e)'
          /\ (\A x : DelOf(x) => DelOf(x)') => Kept'
      BY <1>3, <1>5, <2>3, Wiped
    <2>5. CallOk(d)
      BY <1>3, <2>2 DEF CallOk, Moves
    <2>6. CallOk(d)'
      BY <2>4, <2>5
    <2>7. SessionTypes /\ CallsOk /\ OneHolder /\ Harmless(t) /\ Replace(t, d)
      BY <1>5, <2>1, <2>4 DEF SessionInv, Harmless
    <2>8. d.job = Top(t).job /\ d.s = Top(t).s
      BY <1>2, <2>2 DEF Moves
    <2>9. /\ CallsOk' /\ OneHolder' /\ stack' \in [Threads -> Seq(CallTypes)]
          /\ \A x : DelOf(x) => DelOf(x)' \/ (Top(t).job = "del" /\ Top(t).s = x /\ ~(d.job = "del" /\ d.s = x))
      BY <1>1, <2>6, <2>7, <2>8, CallsReplaced
    <2>10. \A x : DelOf(x) => DelOf(x)'
      BY <2>8, <2>9
    <2> QED
      BY <2>4, <2>9, <2>10, Assembled
  <1> QED
    BY <1>2, <1>4, <1>5 DEF Defer

LEMMA KeepsUnpin ==
    ASSUME SessionInv, UNCHANGED budget, NEW t \in Threads, Unpin(t)
    PROVE  SessionInv'
  <1> USE DEF spools, session
  <1>1. Busy(t) /\ Top(t).at = "unpin"
    BY DEF Unpin, At
  <1>2. PICK c \in CallTypes : c = Top(t)
    BY <1>1, TopCall
  <1>3. /\ CallOk(c) /\ c.at = "unpin" /\ SessionTypes /\ DataTypes /\ SessionsOk /\ Listed /\ Kept
        /\ UNCHANGED <<writer, payload, named, settled, phase, intent, reach, results, registry>>
        /\ pinned' = pinned \ {c.s}
    BY <1>1, <1>2, TopCall DEF Unpin, SessionInv, SessionTypes
  <1>4. PICK d \in CallTypes : d = [c EXCEPT !.at = "run"]
    BY Updated
  <1>5. Replace(t, d) /\ Moves(c, d) /\ d.at = "run"
    BY <1>2, <1>4, Updated DEF Unpin, GoTo, Moves
  <1>6. c.s \notin writer /\ payload[c.s] = "zero"
    BY <1>3 DEF CallOk, Wiping
  <1>7. Sessions' = Sessions /\ CallTypes' = CallTypes /\ Made' = Made
    BY <1>3, SameBounds DEF Made
  <1>8. DataTypes' /\ Numbered' /\ SessionsOk'
    <2>1. DataTypes'
      BY <1>3, <1>7 DEF DataTypes
    <2>2. Numbered'
      BY <1>7 DEF SessionInv, Numbered
    <2>3. SessionsOk'
      BY <1>3, <1>6, <1>7 DEF SessionsOk, SessionOk, Fresh
    <2> QED
      BY <2>1, <2>2, <2>3
  <1>9. \A e \in CallTypes : CallOk(e) => CallOk(e)'
    BY <1>3, <1>7 DEF CallOk
  <1>10. CallOk(d)'
    BY <1>3, <1>5, <1>6, <1>7, <1>9 DEF CallOk, Moves, Wiping, Holders, Users
  <1>11. /\ CallsOk' /\ OneHolder' /\ stack' \in [Threads -> Seq(CallTypes)]
         /\ \A x : DelOf(x) => DelOf(x)'
    BY <1>1, <1>2, <1>5, <1>9, <1>10, CallsReplaced DEF Harmless, SessionInv, Moves
  <1>12. registry' \in Seq(Sessions) /\ Distinct' /\ \A x : InTable(x)' <=> InTable(x)
    BY <1>3, SameTable DEF Listed
  <1>13. Listed' /\ Kept'
    BY <1>3, <1>7, <1>11, <1>12 DEF Listed, Kept
  <1> QED
    BY <1>8, <1>11, <1>12, <1>13, Assembled

LEMMA KeepsSettle ==
    ASSUME SessionInv, UNCHANGED budget, NEW t \in Threads, Settle(t)
    PROVE  SessionInv'
  <1> USE DEF spools, session
  <1>1. Busy(t) /\ Top(t).at = "run"
    BY DEF Settle, At
  <1>2. PICK c \in CallTypes : c = Top(t)
    BY <1>1, TopCall
  <1>3. /\ CallOk(c) /\ c.at = "run" /\ SessionTypes /\ DataTypes /\ SessionsOk /\ Listed /\ Kept
        /\ UNCHANGED <<writer, payload, named, pinned, phase, intent, reach, results, registry>>
        /\ settled' = settled \cup {c.s}
    BY <1>1, <1>2, TopCall DEF Settle, SessionInv, SessionTypes
  <1>4. PICK unclean \in BOOLEAN :
           Replace(t, [c EXCEPT !.at = "conclude", !.status = "settled", !.unclean = unclean])
    BY <1>2 DEF Settle
  <1>14. PICK d \in CallTypes : d = [c EXCEPT !.at = "conclude", !.status = "settled", !.unclean = unclean]
    BY DEF CallTypes
  <1>5. Replace(t, d) /\ Moves(c, d) /\ d.at = "conclude"
    BY <1>4, <1>14 DEF CallTypes, Moves
  <1>6. payload[c.s] = "zero" /\ c.s \notin pinned /\ c.s \in Made /\ c.s \in Sessions
    BY <1>3 DEF CallOk, Wiping, Made
  <1>7. Sessions' = Sessions /\ CallTypes' = CallTypes /\ Made' = Made
    BY <1>3, SameBounds DEF Made
  <1>8. DataTypes' /\ Numbered' /\ SessionsOk'
    <2>1. DataTypes'
      BY <1>3, <1>6, <1>7 DEF DataTypes
    <2>2. Numbered'
      BY <1>7 DEF SessionInv, Numbered
    <2>3. SessionsOk'
      BY <1>3, <1>6, <1>7 DEF SessionsOk, SessionOk, Fresh
    <2> QED
      BY <2>1, <2>2, <2>3
  <1>9. \A e \in CallTypes : CallOk(e) => CallOk(e)'
    BY <1>3, <1>7 DEF CallOk
  <1>10. CallOk(d)'
    BY <1>3, <1>5, <1>6, <1>7, <1>9 DEF CallOk, Moves, Wiping, Holders, Users
  <1>11. /\ CallsOk' /\ OneHolder' /\ stack' \in [Threads -> Seq(CallTypes)]
         /\ \A x : DelOf(x) => DelOf(x)'
    BY <1>1, <1>2, <1>5, <1>9, <1>10, CallsReplaced DEF Harmless, SessionInv, Moves
  <1>12. registry' \in Seq(Sessions) /\ Distinct' /\ \A x : InTable(x)' <=> InTable(x)
    BY <1>3, SameTable DEF Listed
  <1>13. Listed' /\ Kept'
    BY <1>3, <1>7, <1>11, <1>12 DEF Listed, Kept
  <1> QED
    BY <1>8, <1>11, <1>12, <1>13, Assembled

-----------------------------------------------------------------------------
(* What the holders of a session make of its cleanup *)

LEMMA KeepsTerminated ==
    ASSUME SessionInv, UNCHANGED budget, NEW t \in Threads, Terminated(t)
    PROVE  SessionInv'
  <1> USE DEF spools, session
  <1>1. Busy(t) /\ Top(t).at = "conclude" /\ Top(t).job \in Holders
    BY DEF Terminated, At, Holders
  <1>2. PICK c \in CallTypes : c = Top(t)
    BY <1>1, TopCall
  <1>3. /\ CallOk(c) /\ c.at = "conclude" /\ c.job \in Holders
        /\ SessionTypes /\ DataTypes /\ SessionsOk /\ Listed /\ Kept
        /\ UNCHANGED <<writer, payload, named, pinned, settled, reach>>
    BY <1>1, <1>2, TopCall DEF Terminated, SessionInv, SessionTypes
  <1>4. c.s \in Made /\ c.s \in Sessions /\ c.s \notin results /\ c.want # None /\ c.want \in Terminal
    <2>1. c.want \in {None} \cup Terminal
      BY DEF CallTypes
    <2>2. c.s \in Made
      BY <1>3 DEF CallOk, Holders
    <2> QED
      BY <1>3, <2>1, <2>2 DEF CallOk, Made
  <1>5. PICK s \in Sessions : s = c.s
    BY <1>4
  <1>6. PICK p \in {"none", "active", "cleanup_pending", "cleanup_parked"} \cup Terminal, w \in {None} \cup Terminal :
          /\ phase' = [phase EXCEPT ![s] = p] /\ intent' = [intent EXCEPT ![s] = w]
          /\ p # "none" /\ p # "active"
          /\ \/ /\ c.status = "settled" /\ s \in settled /\ Unpublish(s)
                /\ intent[s] # None \/ p = c.want
             \/ c.status # "settled" /\ Publish(s)
    <2>1. intent[s] \in {None} \cup Terminal
      BY <1>3 DEF DataTypes
    <2>2. CASE c.status = "settled"
      <3>1. /\ Unpublish(s) /\ intent' = [intent EXCEPT ![s] = None]
            /\ phase' = [phase EXCEPT ![s] = IF intent[s] # None THEN intent[s] ELSE c.want]
        BY <1>2, <1>5, <2>2 DEF Terminated
      <3>2. s \in settled
        BY <1>3, <1>5, <2>2 DEF CallOk
      <3>3. (IF intent[s] # None THEN intent[s] ELSE c.want) \in Terminal
        BY <1>4, <2>1
      <3> QED
        BY <2>2, <3>1, <3>2, <3>3 DEF Terminal
    <2>3. CASE c.status # "settled"
      <3>1. /\ Publish(s) /\ phase' = [phase EXCEPT ![s] = "cleanup_pending"]
            /\ intent' = [intent EXCEPT ![s] = IF @ # None THEN @ ELSE c.want]
        BY <1>2, <1>5, <2>3 DEF Terminated
      <3>2. (IF intent[s] # None THEN intent[s] ELSE c.want) \in {None} \cup Terminal
        BY <1>4, <2>1
      <3> QED
        BY <2>3, <3>1, <3>2
    <2> QED
      BY <2>2, <2>3
  <1>7. \/ results' = results
        \/ results' = results \cup {s} /\ c.job = "finish" /\ c.status = "settled"
    BY <1>2, <1>5 DEF Terminated
  <1>8. Sessions' = Sessions /\ CallTypes' = CallTypes /\ Made' = Made
    BY <1>3, SameBounds DEF Made
  <1>9. /\ \A x \in Sessions : phase'[x] = IF x = s THEN p ELSE phase[x]
        /\ \A x \in Sessions : intent'[x] = IF x = s THEN w ELSE intent[x]
        /\ results \subseteq results' /\ results' \subseteq results \cup {s}
    BY <1>3, <1>6, <1>7 DEF DataTypes
  <1>10. s \in results' => s \in settled /\ p = "finished"
    <2>1. c.job = "finish" => intent[s] = None /\ c.want = "finished"
      BY <1>3, <1>5 DEF CallOk, SessionsOk, SessionOk
    <2> QED
      BY <1>4, <1>5, <1>6, <1>7, <2>1
  <1>11. DataTypes' /\ Numbered' /\ SessionsOk'
    <2>1. DataTypes'
      BY <1>3, <1>6, <1>7, <1>8 DEF DataTypes
    <2>2. Numbered'
      BY <1>8 DEF SessionInv, Numbered
    <2>3. SessionsOk'
      <3> SUFFICES ASSUME NEW x \in Sessions PROVE SessionOk(x)'
        BY <1>8 DEF SessionsOk
      <3>1. SessionOk(x)
        BY <1>3 DEF SessionsOk
      <3>2. CASE x # s
        BY <1>3, <1>9, <3>1, <3>2 DEF SessionOk, Fresh
      <3>3. CASE x = s
        <4>1. payload[x] # "none"
          BY <1>4, <1>5, <3>3 DEF Made
        <4> QED
          BY <1>3, <1>6, <1>9, <1>10, <3>1, <3>3, <4>1 DEF SessionOk, Fresh
      <3> QED
        BY <3>2, <3>3
    <2> QED
      BY <2>1, <2>2, <2>3
  <1>12. ASSUME NEW e \in CallTypes, CallOk(e), e.job \in Holders => e.s # s PROVE CallOk(e)'
    <2>1. e.job # "retry" => e.s \in Sessions
      BY <1>12 DEF CallOk, Made
    <2>2. e.job = "rollback" => e.s # s
      <3>1. c.job \in Users => reach[s] = "held"
        BY <1>3, <1>5 DEF CallOk
      <3>2. c.job = "del" => phase[s] # "none"
        BY <1>3, <1>5 DEF CallOk
      <3> QED
        BY <1>3, <1>12, <3>1, <3>2 DEF CallOk, Holders, Users
    <2>3. e.job # "retry" => e.s # s
      <3>1. e.job \in {"retry", "rollback"} \cup Holders
        BY Updated
      <3> QED
        BY <1>12, <2>2, <3>1
    <2>4. e.job # "retry" => phase'[e.s] = phase[e.s] /\ (e.s \in results' <=> e.s \in results)
      BY <1>9, <2>1, <2>3
    <2>5. "retry" \notin Holders /\ "retry" \notin Users
      BY DEF Holders, Users
    <2> QED
      BY <1>3, <1>8, <1>12, <2>4, <2>5 DEF CallOk
  <1>13. Harmless(t)
    BY <1>2, <1>3, <1>5, <1>12 DEF Harmless
  <1>14. registry' \in Seq(Sessions) /\ Distinct' /\ Listed'
         /\ \A x : InTable(x) /\ payload[x] = "private" => InTable(x)'
    <2>1. CASE Unpublish(s) /\ s \in settled
      <3>1. registry' \in Seq(Sessions) /\ Distinct' /\ \A x : InTable(x)' <=> (InTable(x) /\ x # s)
        BY <1>3, <2>1, Unpublished DEF Listed
      <3>2. payload[s] = "zero"
        BY <1>3, <2>1 DEF SessionsOk, SessionOk
      <3> QED
        BY <1>3, <1>8, <1>9, <3>1, <3>2 DEF Listed
    <2>2. CASE Publish(s) /\ c.status # "settled"
      <3>1. registry' \in Seq(Sessions) /\ Distinct' /\ \A x : InTable(x)' <=> (InTable(x) \/ x = s)
        BY <1>3, <2>2, Published DEF Listed
      <3>2. results' = results
        BY <1>7, <2>2
      <3> QED
        BY <1>3, <1>4, <1>5, <1>8, <3>1, <3>2 DEF Listed
    <2> QED
      BY <1>6, <2>1, <2>2
  <1>15. /\ CallsOk' /\ OneHolder' /\ stack' \in [Threads -> Seq(CallTypes)]
         /\ \A x : DelOf(x) => DelOf(x)'
    <2>1. CASE c.job = "del"
      <3>1. PICK d \in CallTypes : d = [c EXCEPT !.at = "park"]
        BY Updated
      <3>2. Moves(c, d) /\ d.at = "park"
        BY <3>1, Updated DEF Moves
      <3>3. Replace(t, d)
        BY <1>2, <2>1, <3>1 DEF Terminated, GoTo
      <3>4. CallOk(d)'
        <4>1. reach[c.s] = "collected"
          BY <1>3, <2>1 DEF CallOk
        <4> QED
          BY <1>3, <1>4, <1>5, <1>6, <1>8, <1>9, <2>1, <3>2, <4>1, TopCall, <1>1 DEF CallOk, Moves, Wiping, Holders, Users
      <3> QED
        BY <1>1, <1>2, <1>13, <2>1, <3>2, <3>3, <3>4, CallsReplaced DEF SessionInv, Moves
    <2>2. CASE c.job # "del"
      <3>1. Return(t)
        BY <1>2, <2>2 DEF Terminated
      <3> QED
        BY <1>1, <1>2, <1>13, <2>2, <3>1, CallsReturned DEF SessionInv
    <2> QED
      BY <2>1, <2>2
  <1>16. Kept'
    BY <1>3, <1>8, <1>14, <1>15 DEF Kept
  <1> QED
    BY <1>11, <1>14, <1>15, <1>16, Assembled

LEMMA KeepsPark ==
    ASSUME SessionInv, UNCHANGED budget, NEW t \in Threads, Park(t)
    PROVE  SessionInv'
  <1> USE DEF spools, session
  <1>1. Busy(t) /\ Top(t).at = "park" /\ Return(t)
    BY DEF Park, At
  <1>2. PICK c \in CallTypes : c = Top(t)
    BY <1>1, TopCall
  <1>3. /\ CallOk(c) /\ c.job = "del" /\ c.job \in Holders
        /\ SessionTypes /\ DataTypes /\ SessionsOk /\ Listed /\ Kept
        /\ UNCHANGED <<writer, payload, named, pinned, settled, reach, intent, results>>
    BY <1>1, <1>2, TopCall DEF Park, SessionInv, SessionTypes, CallOk, Holders
  <1>4. c.s \in Made /\ c.s \in Sessions
    BY <1>3 DEF CallOk, Made
  <1>5. PICK s \in Sessions : s = c.s
    BY <1>4
  <1>6. CASE s \in settled /\ registry' = registry /\ phase' = phase
    <2>1. Calm /\ Tabled
      BY <1>3, <1>6, TableSteps DEF Calm
    <2>2. payload[s] = "zero"
      BY <1>3, <1>6 DEF SessionsOk, SessionOk
    <2> QED
      BY <1>1, <1>2, <1>5, <2>1, <2>2, CalmReturns
  <1>7. CASE s \notin settled /\ Publish(s) /\ phase' = [phase EXCEPT ![s] = "cleanup_parked"]
    <2>1. s \notin results
      BY <1>3, <1>7 DEF SessionsOk, SessionOk
    <2>2. Sessions' = Sessions /\ CallTypes' = CallTypes /\ Made' = Made
      BY <1>3, SameBounds DEF Made
    <2>3. \A x \in Sessions : phase'[x] = IF x = s THEN "cleanup_parked" ELSE phase[x]
      BY <1>3, <1>7 DEF DataTypes
    <2>4. DataTypes' /\ Numbered' /\ SessionsOk'
      <3>1. DataTypes'
        BY <1>3, <1>7, <2>2 DEF DataTypes
      <3>2. Numbered'
        BY <2>2 DEF SessionInv, Numbered
      <3>3. payload[s] # "none"
        BY <1>4, <1>5 DEF Made
      <3>4. SessionsOk'
        BY <1>3, <2>1, <2>2, <2>3, <3>3 DEF SessionsOk, SessionOk, Fresh
      <3> QED
        BY <3>1, <3>2, <3>4
    <2>5. ASSUME NEW e \in CallTypes, CallOk(e), e.job \in Holders => e.s # s PROVE CallOk(e)'
      <3>1. e.job # "retry" => e.s \in Sessions
        BY <2>5 DEF CallOk, Made
      <3>2. e.job = "rollback" => e.s # s
        BY <1>3, <1>5, <2>5 DEF CallOk
      <3>3. e.job # "retry" => e.s # s
        <4>1. e.job \in {"retry", "rollback"} \cup Holders
          BY Updated
        <4> QED
          BY <2>5, <3>2, <4>1
      <3>4. e.job # "retry" => phase'[e.s] = phase[e.s]
        BY <2>3, <3>1, <3>3
      <3> QED
        BY <1>3, <2>2, <2>5, <3>4 DEF CallOk
    <2>6. Harmless(t)
      BY <1>2, <1>3, <1>5, <2>5 DEF Harmless
    <2>7. /\ CallsOk' /\ OneHolder' /\ stack' \in [Threads -> Seq(CallTypes)]
          /\ \A x : DelOf(x) => DelOf(x)' \/ x = s
      BY <1>1, <1>2, <1>5, <2>6, CallsReturned DEF SessionInv
    <2>8. registry' \in Seq(Sessions) /\ Distinct' /\ \A x : InTable(x)' <=> (InTable(x) \/ x = s)
      BY <1>3, <1>7, Published DEF Listed
    <2>9. Listed'
      BY <1>3, <1>4, <1>5, <2>1, <2>2, <2>8 DEF Listed
    <2>10. Kept'
      BY <1>3, <2>2, <2>7, <2>8 DEF Kept
    <2> QED
      BY <2>4, <2>7, <2>8, <2>9, <2>10, Assembled
  <1> QED
    BY <1>2, <1>5, <1>6, <1>7 DEF Park

-----------------------------------------------------------------------------
(* A session is made *)

\* The next session is one nobody knows of.
LEMMA Next1 ==
    ASSUME SessionInv, made < budget.sessions
    PROVE  /\ made \in Nat /\ made + 1 \in Sessions /\ Made = 1..made /\ made + 1 \notin Made
  <1>1. PICK n \in 0..budget.sessions : Made = 1..n
    BY DEF SessionInv, Numbered
  <1>2. n \in Nat /\ budget.sessions \in Nat
    BY DEF SessionInv, SessionTypes, DataTypes
  <1>3. made = Cardinality(Made)
    BY DEF made, Made
  <1>4. Cardinality(1..n) = n
    BY <1>2, FS_Interval
  <1>5. made = n
    BY <1>1, <1>3, <1>4
  <1> QED
    BY <1>1, <1>2, <1>5 DEF Sessions

LEMMA KeepsOpen ==
    ASSUME SessionInv, UNCHANGED budget, NEW t \in Threads, Open(t)
    PROVE  SessionInv'
  <1> USE DEF spools, session
  <1>1. Busy(t) /\ Top(t).at = "open"
    BY DEF Open, At
  <1>2. Top(t).job = "retry" /\ CallOk(Top(t)) /\ SessionTypes /\ DataTypes /\ SessionsOk /\ Listed /\ Kept
    BY <1>1, TopCall DEF CallOk, SessionInv, SessionTypes
  <1>3. CASE Return(t) /\ UNCHANGED <<writer, payload, named, pinned, phase, reach>>
    <2>1. Calm
      BY <1>3 DEF Calm, Open
    <2>2. Tabled
      BY TableSteps DEF Open
    <2> QED
      BY <1>1, <1>2, <1>3, <2>1, <2>2, CalmReturns
  <1>4. CASE ~(Return(t) /\ UNCHANGED <<writer, payload, named, pinned, phase, reach>>)
    <2>0. made < budget.sessions
      BY <1>4 DEF Open
    <2>1. PICK n \in Nat, s \in Sessions : s = n + 1 /\ s = made + 1 /\ Made = 1..n /\ s \notin Made
      BY <2>0, Next1
    <2>2. /\ writer' = writer \cup {s} /\ named' = named \cup {s} /\ pinned' = pinned \cup {s}
          /\ payload' = [payload EXCEPT ![s] = "blank"]
          /\ UNCHANGED <<settled, intent, results, registry>>
          /\ \/ /\ phase' = [phase EXCEPT ![s] = "active"]
                /\ reach' = [reach EXCEPT ![s] = "held"]
                /\ Return(t)
             \/ /\ reach' = [reach EXCEPT ![s] = "collected"]
                /\ Replace(t, Call("rollback", s, None))
                /\ phase' = phase
      BY <1>4, <2>1 DEF Open
    <2>3. SessionOk(s) /\ payload[s] = "none" /\ Fresh(s)
      BY <1>2, <2>1 DEF SessionsOk, SessionOk, Made
    <2>4. Sessions' = Sessions /\ CallTypes' = CallTypes
      BY SameBounds
    <2>5. \A x \in Sessions : payload'[x] = IF x = s THEN "blank" ELSE payload[x]
      BY <1>2, <2>2 DEF DataTypes
    <2>6. Made' = Made \cup {s}
      BY <2>1, <2>4, <2>5 DEF Made
    <2>7. \A x \in Sessions : x # s => phase'[x] = phase[x] /\ reach'[x] = reach[x]
      BY <1>2, <2>2 DEF DataTypes
    <2>8. \/ phase'[s] = "active" /\ reach'[s] = "held"
          \/ phase'[s] = "none" /\ reach'[s] = "collected"
      BY <1>2, <2>2, <2>3 DEF DataTypes, Fresh
    <2>9. DataTypes'
      BY <1>2, <2>1, <2>2, <2>4 DEF DataTypes
    <2>10. Numbered'
      <3>1. Made' = 1..(n + 1) /\ n + 1 \in 0..budget.sessions
        <4>1. s \in 1..budget.sessions /\ budget.sessions \in Nat
          BY <1>2, <2>1 DEF Sessions, DataTypes
        <4>2. 1..(n + 1) = (1..n) \cup {n + 1}
          BY <2>1
        <4> QED
          BY <2>1, <2>6, <4>1, <4>2
      <3> QED
        BY <3>1 DEF Numbered
    <2>11. SessionsOk'
      <3> SUFFICES ASSUME NEW x \in Sessions PROVE SessionOk(x)'
        BY <2>4 DEF SessionsOk
      <3>1. SessionOk(x)
        BY <1>2 DEF SessionsOk
      <3>2. CASE x # s
        BY <2>2, <2>5, <2>7, <3>1, <3>2 DEF SessionOk, Fresh
      <3>3. CASE x = s
        BY <2>2, <2>3, <2>5, <2>8, <3>3 DEF SessionOk, Fresh
      <3> QED
        BY <3>2, <3>3
    <2>12. ASSUME NEW e \in CallTypes, CallOk(e) PROVE CallOk(e)'
      <3>1. e.s # s
        BY <2>1, <2>3, <2>4, <2>12, ThreadsAssumption DEF CallOk, Sessions
      <3>2. e.s # None => e.s \in Sessions /\ payload'[e.s] = payload[e.s] /\ phase'[e.s] = phase[e.s] /\ reach'[e.s] = reach[e.s]
        BY <2>5, <2>7, <2>12, <3>1 DEF CallOk, Made
      <3>3. e.s = None => e.job = "retry" /\ e.at \notin {"unpin", "run", "wipe"} /\ e.at # "conclude"
        BY <2>12 DEF CallOk
      <3>4. "retry" \notin Holders /\ "retry" \notin Users
        BY DEF Holders, Users
      <3> QED
        BY <2>2, <2>6, <2>12, <3>1, <3>2, <3>3, <3>4 DEF CallOk, Wiping
    <2>13. Harmless(t)
      BY <2>12 DEF Harmless
    <2>14. /\ CallsOk' /\ OneHolder' /\ stack' \in [Threads -> Seq(CallTypes)]
           /\ \A x : DelOf(x) => DelOf(x)'
      <3>1. CASE Return(t)
        BY <1>1, <1>2, <2>13, <3>1, CallsReturned DEF SessionInv
      <3>2. CASE Replace(t, Call("rollback", s, None)) /\ reach'[s] = "collected" /\ phase'[s] = "none"
        <4>1. PICK d \in CallTypes : d = Call("rollback", s, None)
          BY Typed
        <4>2. d.job = "rollback" /\ d.s = s /\ d.at = "lock" /\ d.rest = <<>>
          BY <4>1, Typed
        <4>3. CallOk(d)'
          BY <2>1, <2>6, <3>2, <4>2, ThreadsAssumption DEF CallOk, Wiping, Holders, Users, Sessions
        <4> QED
          BY <1>1, <1>2, <2>13, <3>2, <4>1, <4>2, <4>3, CallsReplaced DEF SessionInv, Holders
      <3> QED
        BY <2>2, <2>3, <2>7, <2>8, <3>1, <3>2 DEF Fresh, DataTypes
    <2>15. registry' \in Seq(Sessions) /\ Distinct' /\ \A x : InTable(x)' <=> InTable(x)
      BY <1>2, <2>2, SameTable DEF Listed
    <2>16. Listed'
      BY <1>2, <2>2, <2>6, <2>15 DEF Listed
    <2>17. Kept'
      BY <1>2, <2>4, <2>5, <2>7, <2>14, <2>15 DEF Kept
    <2> QED
      BY <2>9, <2>10, <2>11, <2>14, <2>15, <2>16, <2>17, Assembled
  <1> QED
    BY <1>3, <1>4

-----------------------------------------------------------------------------
(* The theorems *)

LEMMA SessionInvStart ==
    ASSUME Init
    PROVE  SessionInv
  <1> USE DEF Init
  <1>1. budget \in [sessions : Nat, faults : Nat, interrupts : Nat] /\ budget.sessions \in Nat
    BY BudgetsAssumption
  <1>2. SessionTypes
    <2>1. DataTypes
      BY <1>1 DEF DataTypes
    <2>2. registry \in Seq(Sessions) /\ stack \in [Threads -> Seq(CallTypes)]
      OBVIOUS
    <2> QED
      BY <2>1, <2>2 DEF SessionTypes
  <1>3. Numbered
    <2>1. Made = 1..0 /\ 0 \in 0..budget.sessions
      BY <1>1 DEF Made
    <2> QED
      BY <2>1 DEF Numbered
  <1>4. SessionsOk
    BY DEF SessionsOk, SessionOk, Fresh
  <1>5. CallsOk /\ OneHolder
    BY DEF CallsOk, OneHolder
  <1>6. Listed /\ Kept
    BY DEF Listed, Distinct, InTable, Kept
  <1> QED
    BY <1>2, <1>3, <1>4, <1>5, <1>6 DEF SessionInv

LEMMA SessionInvStutters ==
    ASSUME SessionInv, UNCHANGED vars
    PROVE  SessionInv'
  <1> USE DEF spools, session
  <1>1. Calm /\ registry' = registry /\ stack' = stack
    BY DEF vars, Calm
  <1>2. /\ DataTypes' /\ Numbered' /\ SessionsOk'
        /\ \A d \in CallTypes : CallOk(d) => CallOk(d)'
        /\ UNCHANGED <<budget, Made, payload, reach, results>>
    BY <1>1, CalmKeeps
  <1>3. CallsOk' /\ OneHolder' /\ stack' \in [Threads -> Seq(CallTypes)] /\ \A x : DelOf(x)' <=> DelOf(x)
    BY <1>1, <1>2, SameCalls
  <1>4. registry' \in Seq(Sessions) /\ Distinct' /\ \A x : InTable(x)' <=> InTable(x)
    BY <1>1, <1>2, SameTable DEF SessionInv, Listed
  <1>5. Sessions' = Sessions
    BY <1>2, SameBounds
  <1>6. Listed' /\ Kept'
    BY <1>2, <1>3, <1>4, <1>5 DEF SessionInv, Listed, Kept
  <1> QED
    BY <1>2, <1>3, <1>4, <1>6, Assembled

\* Every step of every thread keeps the invariant.
LEMMA SessionInvSteps ==
    ASSUME SessionInv, [Next]_vars
    PROVE  SessionInv'
  <1>1. ASSUME UNCHANGED budget, NEW t \in Threads, Work(t) PROVE SessionInv'
    BY <1>1, KeepsAcquire, KeepsCloseWriter, KeepsWipe, KeepsUnpin, KeepsSettle, KeepsTerminated, KeepsPark,
       KeepsRolledBack, KeepsVisit, KeepsRetried, KeepsOpen DEF Work
  <1>2. ASSUME UNCHANGED budget, NEW t \in Threads, NEW s \in Sessions, Use(t, s) PROVE SessionInv'
    BY <1>2, KeepsConsume, KeepsUseFails, KeepsFinish, KeepsExit, KeepsDrop, KeepsCollect DEF Use
  <1>3. ASSUME UNCHANGED budget, NEW t \in Threads, Prepare(t) \/ Defer(t) \/ Escape(t) PROVE SessionInv'
    BY <1>3, KeepsPrepare, KeepsDefer, KeepsEscape
  <1>4. CASE UNCHANGED vars
    BY <1>4, SessionInvStutters
  <1> QED
    BY <1>1, <1>2, <1>3, <1>4 DEF Next

\* The invariant of the quality sessions, for any number of threads, sessions, failures and
\* interrupts, and wherever the collector runs: what each call in progress knows of its
\* session when it goes on, one holder of a session at a time, a table without doubles, and
\* somebody who will wipe whatever private bytes there are.
THEOREM SessionsHold == Spec => []SessionInv
  <1>1. Init => SessionInv
    BY SessionInvStart
  <1>2. SessionInv /\ [Next]_vars => SessionInv'
    BY SessionInvSteps
  <1> QED
    BY <1>1, <1>2, PTL DEF Spec

\* Private bytes in a spool have somebody who will wipe them and the descriptor to do it
\* through, whatever fails or is interrupted meanwhile.
THEOREM BytesAreOwned == Spec => []BytesStayOwned
  <1>1. SessionInv => BytesStayOwned
    <2> SUFFICES ASSUME SessionInv, NEW s \in Sessions, payload[s] = "private"
                 PROVE  /\ s \in pinned
                        /\ \/ reach[s] \in {"held", "garbage"}
                           \/ s \in ToSet(registry)
                           \/ \E c \in Calls : c.job = "del" /\ c.s = s
      BY DEF BytesStayOwned
    <2>1. s \in pinned
      BY DEF SessionInv, SessionsOk, SessionOk
    <2>2. reach[s] \in {"held", "garbage"} \/ InTable(s) \/ DelOf(s)
      BY DEF SessionInv, Kept
    <2>3. InTable(s) => s \in ToSet(registry)
      BY TableSet DEF SessionInv
    <2>4. DelOf(s) => \E c \in Calls : c.job = "del" /\ c.s = s
      BY DEF DelOf, Calls
    <2> QED
      BY <2>1, <2>2, <2>3, <2>4
  <1> QED
    BY <1>1, SessionsHold, PTL

\* A spool is wiped only after its writer is closed, and finish returns a result only when
\* nothing is left to clean up.
THEOREM ResultsAreClean == Spec => []ResultIsClean
  <1>1. SessionInv => ResultIsClean
    <2> SUFFICES ASSUME SessionInv, NEW s \in Sessions
                 PROVE  /\ payload[s] = "zero" => s \notin writer
                        /\ s \in results => /\ phase[s] = "finished" /\ payload[s] = "zero"
                                            /\ s \in settled /\ s \notin pinned /\ s \notin ToSet(registry)
      BY DEF ResultIsClean
    <2>1. SessionOk(s)
      BY DEF SessionInv, SessionsOk
    <2>2. s \in results => s \notin ToSet(registry)
      BY TableSet DEF SessionInv, Listed
    <2> QED
      BY <2>1, <2>2 DEF SessionOk
  <1> QED
    BY <1>1, SessionsHold, PTL
=============================================================================
