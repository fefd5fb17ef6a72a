-------------------------- MODULE FirstCopiesProofs --------------------------
(***************************************************************************)
(* FirstCopiesAreProcessed of SessionNetwork, for any channels and frames  *)
(* and for a network that loses and reorders, but repeats nothing.         *)
(*                                                                         *)
(* A whole ordered frame exists once: in the network, ahead of the loop    *)
(* (Coming), or in what was processed.  So the reorder buffer never holds  *)
(* the frame at hand, the counter of a channel never moves by more than    *)
(* one, and all frames it has passed were processed.                       *)
(***************************************************************************)
EXTENDS SessionProofs

Whole(f) == f.kind = "ordered" /\ ~f.split

Coming == {b \in 1 .. Len(frames) : pos <= b}

Travelling(i) == network[i].frames

EachOnce ==
  /\ \A i, j \in 1 .. Len(network) :
       \A a \in 1 .. Len(Travelling(i)), b \in 1 .. Len(Travelling(j)) :
          Whole(Travelling(i)[a]) /\ Travelling(i)[a] = Travelling(j)[b] => i = j /\ a = b
  /\ \A i \in 1 .. Len(network) : \A a \in 1 .. Len(Travelling(i)) :
       Whole(Travelling(i)[a]) =>
         /\ Travelling(i)[a] \notin ToSet(processed)
         /\ \A b \in Coming : frames[b] # Travelling(i)[a]
  /\ \A a, b \in Coming : Whole(frames[a]) /\ frames[a] = frames[b] => a = b
  /\ \A a \in Coming : Whole(frames[a]) => frames[a] \notin ToSet(processed)

(* The client has counted every whole ordered frame it sent.               *)
Counted(f) == Whole(f) => f.idx < order_index[f.ch]

AllCounted ==
  /\ \A i \in 1 .. Len(network) : \A a \in 1 .. Len(Travelling(i)) : Counted(Travelling(i)[a])
  /\ \A b \in Coming : Counted(frames[b])
  /\ \A f \in ToSet(processed) : f \in SentFrame => Counted(f)

Logged == \A i \in 1 .. Len(network) : Travelling(i) = log[network[i].num + 1]

Handled ==
  \A i \in 1 .. Len(accepted) : \A f \in ToSet(log[accepted[i] + 1]) :
     Whole(f) => f \in ToSet(processed) \/ \E b \in Coming : f = frames[b]

PassedAreProcessed ==
  \A c \in Channels : \A m \in 0 .. ordered_next[c] - 1 :
     \E g \in ToSet(processed) : g \in SentFrame /\ Whole(g) /\ g.ch = c /\ g.idx = m

FirstCopiesInv ==
  /\ resends \in Nat /\ duplicates \in Nat
  /\ NothingRepeated => EachOnce /\ AllCounted /\ Logged /\ Handled /\ PassedAreProcessed

-----------------------------------------------------------------------------
(* The indices a client gives to the ordered frames of a datagram.         *)
LEMMA BeforeMonotonic ==
  ASSUME NEW choice, NEW k \in Int, NEW l \in Int, k <= l, NEW kind, NEW c
  PROVE  Before(choice, k, kind, c) <= Before(choice, l, kind, c)
<1>. DEFINE few == {j \in 1 .. k : choice[j][1] = kind /\ choice[j][2] = c}
            more == {j \in 1 .. l : choice[j][1] = kind /\ choice[j][2] = c}
<1>1. few \in SUBSET more /\ more \in SUBSET (1 .. l)
  OBVIOUS
<1>2. IsFiniteSet(1 .. l)
  BY FS_Interval
<1>. HIDE DEF few, more
<1>3. IsFiniteSet(more)
  BY <1>1, <1>2, FS_Subset
<1>4. Cardinality(few) <= Cardinality(more)
  BY <1>1, <1>3, FS_Subset
<1>. QED  BY <1>4 DEF Before, few, more

(* It grows by one at each ordered frame of the channel.                   *)
LEMMA BeforeNext ==
  ASSUME NEW choice, NEW k \in Nat \ {0}, NEW kind, NEW c,
         choice[k][1] = kind, choice[k][2] = c
  PROVE  Before(choice, k, kind, c) = Before(choice, k - 1, kind, c) + 1
<1>. DEFINE few == {j \in 1 .. k - 1 : choice[j][1] = kind /\ choice[j][2] = c}
            more == {j \in 1 .. k : choice[j][1] = kind /\ choice[j][2] = c}
<1>1. more = few \cup {k} /\ k \notin few /\ few \in SUBSET (1 .. k - 1)
  OBVIOUS
<1>2. IsFiniteSet(1 .. k - 1)
  BY FS_Interval
<1>. HIDE DEF few, more
<1>3. IsFiniteSet(few)
  BY <1>1, <1>2, FS_Subset
<1>4. Cardinality(more) = Cardinality(few) + 1
  BY <1>1, <1>3, FS_AddElement
<1>. QED  BY <1>4 DEF Before, few, more

(* So the indices of a new datagram are new, and below the next index.     *)
LEMMA FreshIndex ==
  ASSUME ClientTyped, NEW n \in 1 .. MaxFrames, NEW choice \in [1 .. n -> Offers],
         \A c \in Channels : order_index[c] + Before(choice, n, "ordered", c) <= IndexMod,
         NEW i \in 1 .. n, NEW c \in Channels,
         Whole(FrameOf(choice, i)), FrameOf(choice, i).ch = c
  PROVE  /\ FrameOf(choice, i).idx = order_index[c] + Before(choice, i - 1, "ordered", c)
         /\ order_index[c] <= FrameOf(choice, i).idx
         /\ FrameOf(choice, i).idx < order_index[c] + Before(choice, n, "ordered", c)
         /\ Before(choice, i, "ordered", c) = Before(choice, i - 1, "ordered", c) + 1
<1>. DEFINE a == Before(choice, i - 1, "ordered", c)
            b == Before(choice, i, "ordered", c)
            z == Before(choice, n, "ordered", c)
<1>1. n \in Nat \ {0} /\ i \in Nat \ {0} /\ i <= n
  BY NetworkAssumption
<1>2. choice[i][1] = "ordered" /\ choice[i][2] = c
  BY DEF FrameOf, Whole
<1>3. a \in Nat /\ b \in Nat /\ z \in Nat
  BY <1>1, BeforeType
<1>4. b = a + 1
  BY <1>1, <1>2, BeforeNext
<1>5. b <= z
  BY <1>1, BeforeMonotonic
<1>6. order_index[c] \in Nat
  BY DEF ClientTyped
<1>7. FrameOf(choice, i).idx = (order_index[c] + a) % IndexMod
  BY <1>2 DEF FrameOf, WithoutOrder
<1>8. order_index[c] + z <= IndexMod
  OBVIOUS
<1>. HIDE DEF a, b, z
<1>9. order_index[c] + a \in Nat /\ order_index[c] + a < IndexMod
  BY <1>3, <1>4, <1>5, <1>6, <1>8, Widths
<1>10. FrameOf(choice, i).idx = order_index[c] + a
  BY <1>7, <1>9, ModuloSmall, Widths
<1>11. /\ order_index[c] <= order_index[c] + a
       /\ order_index[c] + a < order_index[c] + z
  BY <1>3, <1>4, <1>5, <1>6
<1>. QED  BY <1>4, <1>10, <1>11 DEF a, b, z

(* No two ordered frames of one datagram are the same.                     *)
LEMMA FreshApart ==
  ASSUME ClientTyped, NEW n \in 1 .. MaxFrames, NEW choice \in [1 .. n -> Offers],
         \A c \in Channels : order_index[c] + Before(choice, n, "ordered", c) <= IndexMod,
         NEW i \in 1 .. n, NEW j \in 1 .. n, i < j,
         Whole(FrameOf(choice, i)), FrameOf(choice, i) = FrameOf(choice, j)
  PROVE  FALSE
<1>. DEFINE c == FrameOf(choice, i).ch
            B(k) == Before(choice, k, "ordered", c)
<1>1. c \in Channels
  BY NetworkAssumption DEF FrameOf, Offers
<1>2. FrameOf(choice, j).ch = c /\ Whole(FrameOf(choice, j))
  OBVIOUS
<1>. HIDE DEF c
<1>3. i \in Nat \ {0} /\ j \in Nat \ {0} /\ i <= j - 1
  BY NetworkAssumption
<1>4. FrameOf(choice, i).idx = order_index[c] + B(i - 1) /\ B(i) = B(i - 1) + 1
  BY <1>1, FreshIndex DEF c
<1>5. FrameOf(choice, j).idx = order_index[c] + B(j - 1)
  BY <1>1, <1>2, FreshIndex
<1>6. B(i) <= B(j - 1)
  BY <1>3, BeforeMonotonic
<1>7. B(i) \in Nat /\ B(i - 1) \in Nat /\ B(j - 1) \in Nat /\ order_index[c] \in Nat
  BY <1>1, <1>3, BeforeType DEF ClientTyped
<1>. HIDE DEF B
<1>. QED  BY <1>4, <1>5, <1>6, <1>7

-----------------------------------------------------------------------------
(* A sequence without one of its elements keeps the others in order.       *)
LEMMA RemoveAtElements ==
  ASSUME NEW S, NEW s \in Seq(S), NEW i \in 1 .. Len(s)
  PROVE  /\ Len(RemoveAt(s, i)) = Len(s) - 1
         /\ \A j \in 1 .. Len(s) - 1 : RemoveAt(s, i)[j] = s[IF j < i THEN j ELSE j + 1]
<1>. DEFINE u == SubSeq(s, 1, i - 1)
            v == SubSeq(s, i + 1, Len(s))
<1>0. Len(s) \in Nat
  BY LenProperties
<1>1. u \in Seq(S) /\ Len(u) = i - 1 /\ \A j \in 1 .. i - 1 : u[j] = s[j]
  BY <1>0, PrefixType
<1>2. \A j \in i + 1 .. Len(s) : s[j] \in S
  BY <1>0, ElementOfSeq
<1>3. /\ v \in Seq(S)
      /\ Len(v) = IF i + 1 <= Len(s) THEN Len(s) - (i + 1) + 1 ELSE 0
      /\ \A j \in 1 .. Len(s) - (i + 1) + 1 : v[j] = s[i + 1 + j - 1]
  BY <1>0, <1>2, SubSeqProperties
<1>. HIDE DEF u, v
<1>4. Len(v) = Len(s) - i /\ \A j \in 1 .. Len(s) - i : v[j] = s[i + j]
  BY <1>0, <1>3
<1>5. /\ Len(u \o v) = Len(s) - 1
      /\ \A j \in 1 .. Len(s) - 1 : (u \o v)[j] = IF j <= i - 1 THEN u[j] ELSE v[j - (i - 1)]
  <2>1. /\ Len(u \o v) = Len(u) + Len(v)
        /\ \A j \in 1 .. Len(u) + Len(v) : (u \o v)[j] =
              IF j <= Len(u) THEN u[j] ELSE v[j - Len(u)]
    BY <1>1, <1>3, ConcatProperties
  <2>2. Len(u) + Len(v) = Len(s) - 1
    BY <1>0, <1>1, <1>4
  <2>. QED  BY <1>1, <2>1, <2>2
<1>6. RemoveAt(s, i) = u \o v
  BY DEF RemoveAt, u, v
<1>7. ASSUME NEW j \in 1 .. Len(s) - 1
      PROVE  (u \o v)[j] = s[IF j < i THEN j ELSE j + 1]
  <2>1. CASE j < i
    BY <1>0, <1>1, <1>5, <2>1
  <2>2. CASE ~(j < i)
    <3>1. j - (i - 1) \in 1 .. Len(s) - i /\ i + (j - (i - 1)) = j + 1
      BY <1>0, <2>2
    <3>2. (u \o v)[j] = v[j - (i - 1)]
      BY <1>0, <1>5, <2>2
    <3>3. v[j - (i - 1)] = s[i + (j - (i - 1))]
      BY <1>4, <3>1
    <3>. QED  BY <3>1, <3>2, <3>3, <2>2, <1>0
  <2>. QED  BY <2>1, <2>2
<1>. QED  BY <1>5, <1>6, <1>7

(* What is left of the network when a datagram has left it.                *)
LEMMA NetworkShrinks ==
  ASSUME ClientTyped, NEW i \in 1 .. Len(network), network' = RemoveAt(network, i),
         NEW j \in 1 .. Len(network')
  PROVE  \E k \in 1 .. Len(network) \ {i} :
           network'[j] = network[k] /\ k = (IF j < i THEN j ELSE j + 1)
<1>1. network \in Seq(Datagram) /\ Len(network) \in Nat
  BY LenProperties DEF ClientTyped
<1>2. Len(network') = Len(network) - 1 /\ network'[j] = network[IF j < i THEN j ELSE j + 1]
  BY <1>1, RemoveAtElements
<1>. DEFINE k == IF j < i THEN j ELSE j + 1
<1>3. k \in 1 .. Len(network) \ {i}
  BY <1>1, <1>2
<1>. QED  BY <1>2, <1>3

(* Between two datagrams nothing is ahead of the loop.                     *)
LEMMA NoneComing == ServerTyped /\ pos = 0 => Coming = {}
BY EmptySeq DEF ServerTyped, Coming

(* Datagrams carry frames.                                                 *)
LEMMA TravellingType ==
  ASSUME ClientTyped, NEW i \in 1 .. Len(network)
  PROVE  /\ Travelling(i) \in Seq(SentFrame) \ {<<>>}
         /\ \A a \in 1 .. Len(Travelling(i)) : Travelling(i)[a] \in SentFrame
<1>1. network[i] \in Datagram
  BY ElementOfSeq DEF ClientTyped
<1>2. Travelling(i) \in Seq(SentFrame) \ {<<>>}
  BY <1>1 DEF Datagram, Travelling
<1>. QED  BY <1>2, ElementOfSeq

(* Frames are on a channel and have an index.                              *)
LEMMA FrameFields ==
  ASSUME NEW f \in SentFrame
  PROVE  f.ch \in Channels /\ f.idx \in Nat
BY Widths DEF SentFrame, Frame

(* The invariant holds initially.                                          *)
LEMMA FirstInitially == Init => FirstCopiesInv
<1>. SUFFICES ASSUME Init PROVE FirstCopiesInv
  OBVIOUS
<1>. USE DEF Init, SessionInit
<1>1. EachOnce /\ AllCounted /\ Logged /\ Handled
  BY DEF EachOnce, AllCounted, Logged, Handled, Coming, ToSet
<1>2. PassedAreProcessed
  BY DEF PassedAreProcessed
<1>. QED  BY <1>1, <1>2 DEF FirstCopiesInv

(* New frames have indices no frame had before.                            *)
LEMMA FirstSendNew ==
  ASSUME SessionInv, NumbersInv, FirstCopiesInv, SendNew, NothingRepeated'
  PROVE  (EachOnce /\ AllCounted /\ Logged /\ Handled /\ PassedAreProcessed)'
<1>. USE DEF Travelling, Whole
<1>0. ClientTyped /\ ServerTyped /\ pos = 0 /\ UNCHANGED <<sessionVars, resends, duplicates>>
  BY DEF SessionInv, SendNew, CanSend
<1>1. PICK n \in 1 .. MaxFrames : \E choice \in [1 .. n -> Offers] :
        /\ Send([i \in 1 .. n |-> FrameOf(choice, i)])
        /\ order_index' = [c \in Channels |->
                             order_index[c] + Before(choice, n, "ordered", c)]
  BY DEF SendNew
<1>2. PICK choice \in [1 .. n -> Offers] :
        /\ Send([i \in 1 .. n |-> FrameOf(choice, i)])
        /\ order_index' = [c \in Channels |->
                             order_index[c] + Before(choice, n, "ordered", c)]
  BY <1>1
<1>. DEFINE fs == [i \in 1 .. n |-> FrameOf(choice, i)]
            top == Len(network) + 1
<1>3. n \in Nat \ {0} /\ Len(network) \in Nat /\ Len(log) \in Nat
  BY <1>0, NetworkAssumption, LenProperties DEF ClientTyped
<1>4. fs \in Seq(SentFrame) \ {<<>>} /\ Len(fs) = n /\ \A i \in 1 .. n : fs[i] = FrameOf(choice, i)
  BY <1>0, <1>3, FrameOfType
<1>5. \A c \in Channels : /\ Before(choice, n, "ordered", c) \in Nat
                          /\ order_index[c] \in Nat
                          /\ order_index[c] <= order_index'[c]
                          /\ order_index[c] + Before(choice, n, "ordered", c) <= IndexMod
  <2>1. \A c \in Channels : Before(choice, n, "ordered", c) \in Nat /\ order_index[c] \in Nat
    BY <1>0, <1>3, BeforeType DEF ClientTyped
  <2>2. \A c \in Channels : order_index'[c] <= IndexMod
    BY DEF NothingRepeated
  <2>. QED  BY <1>2, <2>1, <2>2
<1>6. Len(log') = Len(log) + 1 /\ Len(log) < NumberMod /\ NothingRepeated
  <2>1. Len(log') = Len(log) + 1 /\ Len(log') < NumberMod
    BY <1>0, <1>2, AppendProperties DEF Send, ClientTyped, NothingRepeated
  <2>2. \A c \in Channels : order_index[c] <= IndexMod
    BY <1>5, Widths
  <2>. QED  BY <1>0, <1>3, <2>1, <2>2, Widths DEF NothingRepeated
<1>7. EachOnce /\ AllCounted /\ Logged /\ Handled /\ PassedAreProcessed
  BY <1>6 DEF FirstCopiesInv
<1>. DEFINE d == [num |-> Len(log), frames |-> fs]
<1>8. network' = Append(network, d) /\ log' = Append(log, fs)
  BY <1>2, <1>3, <1>6, ModuloSmall, Widths DEF Send
<1>. HIDE DEF fs
<1>9. /\ Len(network') = top
      /\ network'[top].frames = fs /\ network'[top].num = Len(log)
      /\ \A i \in 1 .. Len(network) : network'[i] = network[i] /\ Travelling(i)' = Travelling(i)
      /\ log'[Len(log) + 1] = fs
      /\ \A k \in 1 .. Len(log) : log'[k] = log[k]
  <2>1. d \in Datagram
    BY <1>3, <1>4, <1>6, Widths DEF Datagram
  <2>2. /\ Len(network') = top /\ network'[top] = d
        /\ \A i \in 1 .. Len(network) : network'[i] = network[i]
    BY <1>0, <1>8, <2>1, AppendProperties DEF ClientTyped
  <2>3. log'[Len(log) + 1] = fs /\ \A k \in 1 .. Len(log) : log'[k] = log[k]
    BY <1>0, <1>4, <1>8, AppendProperties DEF ClientTyped
  <2>. QED  BY <2>2, <2>3 
<1>10. ASSUME NEW a \in 1 .. n, Whole(fs[a])
       PROVE  /\ fs[a].ch \in Channels /\ fs[a].idx \in Nat
              /\ order_index[fs[a].ch] <= fs[a].idx
              /\ fs[a].idx < order_index'[fs[a].ch]
  <2>1. fs[a] = FrameOf(choice, a) /\ fs[a] \in SentFrame
    BY <1>3, <1>4, ElementOfSeq
  <2>2. fs[a].ch \in Channels /\ fs[a].idx \in Nat
    BY <2>1, FrameFields
  <2>3. order_index'[fs[a].ch] = order_index[fs[a].ch] + Before(choice, n, "ordered", fs[a].ch)
    BY <1>2, <2>2
  <2>4. Whole(FrameOf(choice, a)) /\ FrameOf(choice, a).ch = fs[a].ch
    BY <1>10, <2>1
  <2>5. \A c \in Channels : order_index[c] + Before(choice, n, "ordered", c) <= IndexMod
    BY <1>5
  <2>6. /\ order_index[fs[a].ch] <= FrameOf(choice, a).idx
        /\ FrameOf(choice, a).idx < order_index[fs[a].ch] + Before(choice, n, "ordered", fs[a].ch)
    BY <1>0, <2>2, <2>4, <2>5, FreshIndex
  <2>. QED  BY <2>1, <2>2, <2>3, <2>6
<1>11. ASSUME NEW a \in 1 .. n, NEW b \in 1 .. n, Whole(fs[a]), fs[a] = fs[b]
       PROVE  a = b
  <2>1. fs[a] = FrameOf(choice, a) /\ fs[b] = FrameOf(choice, b)
    BY <1>4
  <2>2. ~(a < b)
    BY <1>0, <1>5, <1>11, <2>1, FreshApart
  <2>3. ~(b < a)
    BY <1>0, <1>5, <1>11, <2>1, FreshApart
  <2>. QED  BY <1>3, <2>2, <2>3
<1>12. ASSUME NEW a \in 1 .. n, Whole(fs[a]), NEW g \in SentFrame, Counted(g), fs[a] = g
       PROVE  FALSE
  BY <1>5, <1>10, <1>12, FrameFields DEF Counted
<1>13. ASSUME NEW g \in SentFrame, Counted(g) PROVE Counted(g)'
  <2>1. g.ch \in Channels /\ g.idx \in Nat
    BY FrameFields
  <2>2. order_index'[g.ch] \in Nat
    BY <1>2, <1>5, <2>1
  <2>. QED  BY <1>5, <1>13, <2>1, <2>2 DEF Counted
<1>14. Coming' = {} /\ Coming = {}
  BY <1>0, NoneComing DEF sessionVars, Coming
<1>15. EachOnce'
  <2>1. ASSUME NEW i \in 1 .. top, NEW j \in 1 .. top,
               NEW a \in 1 .. Len(Travelling(i)'), NEW b \in 1 .. Len(Travelling(j)'),
               Whole(Travelling(i)'[a]), Travelling(i)'[a] = Travelling(j)'[b]
        PROVE  i = j /\ a = b
    <3>1. CASE i # top /\ j # top
      <4>1. i \in 1 .. Len(network) /\ j \in 1 .. Len(network)
        BY <1>3, <3>1
      <4>2. network'[i] = network[i] /\ network'[j] = network[j]
        BY <1>9, <4>1
      <4>. QED  BY <1>7, <2>1, <4>1, <4>2 DEF EachOnce
    <3>2. CASE i = top /\ j # top
      <4>1. j \in 1 .. Len(network) /\ Travelling(j)' = Travelling(j) /\ Travelling(i)' = fs
        BY <1>3, <1>9, <3>2
      <4>2. Travelling(j)[b] \in SentFrame /\ Counted(Travelling(j)[b])
        BY <1>0, <1>7, <4>1, TravellingType DEF AllCounted
      <4>. QED  BY <1>4, <1>12, <2>1, <4>1, <4>2
    <3>3. CASE i # top /\ j = top
      <4>1. i \in 1 .. Len(network) /\ Travelling(i)' = Travelling(i) /\ Travelling(j)' = fs
        BY <1>3, <1>9, <3>3
      <4>2. Travelling(i)[a] \in SentFrame /\ Counted(Travelling(i)[a])
        BY <1>0, <1>7, <4>1, TravellingType DEF AllCounted
      <4>. QED  BY <1>4, <1>12, <2>1, <4>1, <4>2
    <3>4. CASE i = top /\ j = top
      BY <1>4, <1>9, <1>11, <2>1, <3>4
    <3>. QED  BY <3>1, <3>2, <3>3, <3>4
  <2>2. ASSUME NEW i \in 1 .. top, NEW a \in 1 .. Len(Travelling(i)'), Whole(Travelling(i)'[a])
        PROVE  Travelling(i)'[a] \notin ToSet(processed)
    <3>1. CASE i # top
      <4>1. i \in 1 .. Len(network)
        BY <1>3, <3>1
      <4>. QED  BY <1>7, <1>9, <2>2, <4>1 DEF EachOnce
    <3>2. CASE i = top
      <4>1. fs[a] \in SentFrame
        BY <1>4, <1>9, <2>2, <3>2, ElementOfSeq
      <4>. QED  BY <1>4, <1>7, <1>9, <1>12, <2>2, <3>2, <4>1 DEF AllCounted
    <3>. QED  BY <3>1, <3>2
  <2>3. processed' = processed
    BY <1>0 DEF sessionVars
  <2>4. \A i, j \in 1 .. Len(network') :
          \A a \in 1 .. Len(Travelling(i)'), b \in 1 .. Len(Travelling(j)') :
             Whole(Travelling(i)'[a]) /\ Travelling(i)'[a] = Travelling(j)'[b] => i = j /\ a = b
    BY <1>9, <2>1
  <2>5. \A i \in 1 .. Len(network') : \A a \in 1 .. Len(Travelling(i)') :
          Whole(Travelling(i)'[a]) =>
            /\ Travelling(i)'[a] \notin ToSet(processed')
            /\ \A b \in Coming' : frames'[b] # Travelling(i)'[a]
    BY <1>9, <1>14, <2>2, <2>3
  <2>. QED  BY <1>14, <2>4, <2>5 DEF EachOnce
<1>16. AllCounted'
  <2>1. ASSUME NEW i \in 1 .. top, NEW a \in 1 .. Len(Travelling(i)')
        PROVE  Counted(Travelling(i)[a])'
    <3>1. CASE i # top
      <4>1. i \in 1 .. Len(network) /\ Travelling(i)' = Travelling(i)
        BY <1>3, <1>9, <3>1
      <4>2. Travelling(i)[a] \in SentFrame /\ Counted(Travelling(i)[a])
        BY <1>0, <1>7, <2>1, <4>1, TravellingType DEF AllCounted
      <4>. QED  BY <1>13, <4>1, <4>2 DEF Counted
    <3>2. CASE i = top
      <4>1. Travelling(i)' = fs /\ a \in 1 .. n
        BY <1>4, <1>9, <2>1, <3>2
      <4>. QED  BY <1>10, <4>1 DEF Counted
    <3>. QED  BY <3>1, <3>2
  <2>2. \A f \in ToSet(processed') : f \in SentFrame => Counted(f)'
    BY <1>0, <1>7, <1>13 DEF AllCounted, sessionVars
  <2>. QED  BY <1>9, <1>14, <2>1, <2>2 DEF AllCounted
<1>17. Logged'
  <2>. SUFFICES ASSUME NEW i \in 1 .. top PROVE Travelling(i)' = log'[network'[i].num + 1]
    BY <1>9 DEF Logged
  <2>1. CASE i = top
    BY <1>9, <2>1
  <2>2. CASE i # top
    <3>1. i \in 1 .. Len(network)
      BY <1>3, <2>2
    <3>2. network[i] \in SentSoFar
      BY <1>6, <3>1, ElementOfSeq DEF NumbersInv
    <3>3. network[i].num + 1 \in 1 .. Len(log)
      BY <1>3, <3>2, Widths DEF SentSoFar, Datagram
    <3>. QED  BY <1>7, <1>9, <3>1, <3>3 DEF Logged
  <2>. QED  BY <2>1, <2>2
<1>18. Handled'
  <2>. SUFFICES ASSUME NEW i \in 1 .. Len(accepted), NEW f \in ToSet(log'[accepted[i] + 1]), Whole(f)
                PROVE  f \in ToSet(processed)
    BY <1>0 DEF Handled, sessionVars
  <2>1. accepted[i] + 1 \in 1 .. Len(log)
    BY <1>0, <1>3, <1>6, AcceptedFacts DEF NumbersInv
  <2>. QED  BY <1>7, <1>9, <1>14, <2>1 DEF Handled
<1>19. PassedAreProcessed'
  BY <1>0, <1>7 DEF PassedAreProcessed, sessionVars
<1>. QED  BY <1>15, <1>16, <1>17, <1>18, <1>19

(* A datagram leaves the network: its frames are ahead of the loop, all    *)
(* but a tiny one at the end, or it is late and they are gone.             *)
LEMMA ReachedFacts ==
  ASSUME NEW fs \in Seq(SentFrame) \ {<<>>}
  PROVE  /\ \A b \in 1 .. Len(Reached(fs)) : b \in 1 .. Len(fs) /\ Reached(fs)[b] = fs[b]
         /\ \A a \in 1 .. Len(fs) : Whole(fs[a]) => a \in 1 .. Len(Reached(fs))
<1>1. Len(fs) \in Nat \ {0} /\ Len(fs) - 1 \in 0 .. Len(fs)
  BY EmptySeq
<1>2. CASE fs[Len(fs)].kind = "tiny" /\ ~fs[Len(fs)].split
  <2>1. Reached(fs) = SubSeq(fs, 1, Len(fs) - 1)
    BY <1>2 DEF Reached
  <2>2. /\ Len(Reached(fs)) = Len(fs) - 1
        /\ \A b \in 1 .. Len(fs) - 1 : Reached(fs)[b] = fs[b]
    <3>1. /\ Len(SubSeq(fs, 1, Len(fs) - 1)) = Len(fs) - 1
          /\ \A b \in 1 .. Len(fs) - 1 : SubSeq(fs, 1, Len(fs) - 1)[b] = fs[b]
      BY <1>1, PrefixType
    <3>. QED  BY <2>1, <3>1
  <2>3. ~Whole(fs[Len(fs)])
    BY <1>2 DEF Whole
  <2>. QED  BY <1>1, <2>2, <2>3
<1>3. CASE ~(fs[Len(fs)].kind = "tiny" /\ ~fs[Len(fs)].split)
  BY <1>3 DEF Reached
<1>. QED  BY <1>2, <1>3

(* What is left of the network is a part of it, with no frame twice.       *)
LEMMA NetworkPart ==
  ASSUME ClientTyped, NEW i \in 1 .. Len(network), network' = RemoveAt(network, i),
         EachOnce, AllCounted, Logged
  PROVE  /\ \A j \in 1 .. Len(network') :
              \E k \in 1 .. Len(network) \ {i} : network'[j] = network[k]
         /\ \A j, l \in 1 .. Len(network') :
              \A a \in 1 .. Len(network'[j].frames), b \in 1 .. Len(network'[l].frames) :
                 Whole(network'[j].frames[a]) /\ network'[j].frames[a] = network'[l].frames[b]
                   => j = l /\ a = b
<1>. USE DEF Travelling
<1>1. Len(network) \in Nat /\ Len(network') = Len(network) - 1
  BY LenProperties, RemoveAtElements DEF ClientTyped
<1>2. ASSUME NEW j \in 1 .. Len(network'), NEW l \in 1 .. Len(network'),
             NEW a \in 1 .. Len(network'[j].frames), NEW b \in 1 .. Len(network'[l].frames),
             Whole(network'[j].frames[a]), network'[j].frames[a] = network'[l].frames[b]
      PROVE  j = l /\ a = b
  <2>1. PICK k \in 1 .. Len(network) : network'[j] = network[k] /\ k = (IF j < i THEN j ELSE j + 1)
    BY NetworkShrinks
  <2>2. PICK m \in 1 .. Len(network) : network'[l] = network[m] /\ m = (IF l < i THEN l ELSE l + 1)
    BY NetworkShrinks
  <2>3. k = m /\ a = b
    <3>1. \A u \in 1 .. Len(network[k].frames), v \in 1 .. Len(network[m].frames) :
            Whole(network[k].frames[u]) /\ network[k].frames[u] = network[m].frames[v]
              => k = m /\ u = v
      BY DEF EachOnce
    <3>. QED  BY <1>2, <2>1, <2>2, <3>1
  <2>4. j \in Nat /\ l \in Nat /\ i \in Nat
    BY <1>1
  <2>5. CASE j < i
    <3>1. k = j
      BY <2>1, <2>5
    <3>. QED  BY <2>2, <2>3, <2>4, <2>5, <3>1
  <2>6. CASE ~(j < i)
    <3>1. k = j + 1
      BY <2>1, <2>6
    <3>. QED  BY <2>2, <2>3, <2>4, <2>6, <3>1
  <2>. QED  BY <1>2, <2>3, <2>5, <2>6
<1>3. ASSUME NEW j \in 1 .. Len(network')
      PROVE  \E k \in 1 .. Len(network) \ {i} : network'[j] = network[k]
  BY NetworkShrinks
<1>. QED  BY <1>2, <1>3

(* A loss changes nothing but that.                                        *)
LEMMA FirstLose ==
  ASSUME SessionInv, FirstCopiesInv, Lose, NothingRepeated
  PROVE  (EachOnce /\ AllCounted /\ Logged /\ Handled /\ PassedAreProcessed)'
<1>. USE DEF Travelling, Whole
<1>0. /\ ClientTyped
      /\ EachOnce /\ AllCounted /\ Logged /\ Handled /\ PassedAreProcessed
      /\ UNCHANGED <<log, order_index, frames, pos, processed, accepted, ordered_next>>
  BY DEF SessionInv, FirstCopiesInv, Lose, sessionVars
<1>1. PICK i \in 1 .. Len(network) : network' = RemoveAt(network, i)
  BY DEF Lose
<1>2. \A j \in 1 .. Len(network') : \E k \in 1 .. Len(network) : network'[j] = network[k]
  BY <1>0, <1>1, NetworkPart
<1>3. EachOnce'
  <2>1. \A j, l \in 1 .. Len(network') :
          \A a \in 1 .. Len(network'[j].frames), b \in 1 .. Len(network'[l].frames) :
             Whole(network'[j].frames[a]) /\ network'[j].frames[a] = network'[l].frames[b]
               => j = l /\ a = b
    BY <1>0, <1>1, NetworkPart
  <2>2. Coming' = Coming
    BY <1>0 DEF Coming
  <2>3. ASSUME NEW j \in 1 .. Len(network'), NEW a \in 1 .. Len(network'[j].frames),
               Whole(network'[j].frames[a])
        PROVE  /\ network'[j].frames[a] \notin ToSet(processed)
               /\ \A b \in Coming : frames[b] # network'[j].frames[a]
    <3>1. PICK k \in 1 .. Len(network) : network'[j] = network[k]
      BY <1>2
    <3>2. /\ network[k].frames[a] \notin ToSet(processed)
          /\ \A b \in Coming : frames[b] # network[k].frames[a]
      BY <1>0, <2>3, <3>1 DEF EachOnce
    <3>. QED  BY <3>1, <3>2
  <2>4. /\ \A a, b \in Coming : Whole(frames[a]) /\ frames[a] = frames[b] => a = b
        /\ \A a \in Coming : Whole(frames[a]) => frames[a] \notin ToSet(processed)
    BY <1>0 DEF EachOnce
  <2>5. processed' = processed /\ frames' = frames
    BY <1>0
  <2>. QED  BY <2>1, <2>2, <2>3, <2>4, <2>5 DEF EachOnce
<1>4. AllCounted'
  <2>1. \A j \in 1 .. Len(network') : \A a \in 1 .. Len(network'[j].frames) :
          Counted(network[j].frames[a])'
    BY <1>0, <1>2 DEF AllCounted, Counted
  <2>2. Coming' = Coming /\ \A b \in Coming : Counted(frames[b])'
    BY <1>0 DEF AllCounted, Counted, Coming
  <2>3. \A f \in ToSet(processed') : f \in SentFrame => Counted(f)'
    BY <1>0 DEF AllCounted, Counted
  <2>. QED  BY <2>1, <2>2, <2>3 DEF AllCounted
<1>5. Logged'
  BY <1>0, <1>2 DEF Logged
<1>6. Handled' /\ PassedAreProcessed'
  BY <1>0 DEF Handled, PassedAreProcessed, Coming
<1>. QED  BY <1>3, <1>4, <1>5, <1>6

(* A delivered datagram is ahead of the loop, or late and gone.            *)
LEMMA FirstDeliver ==
  ASSUME SessionInv, NumbersInv, FirstCopiesInv, Deliver, NothingRepeated'
  PROVE  (EachOnce /\ AllCounted /\ Logged /\ Handled /\ PassedAreProcessed)'
<1>. USE DEF Travelling, Whole
<1>1. PICK i \in 1 .. Len(network) :
        /\ process_packet(network[i].num, network[i].frames)
        /\ \/ network' = RemoveAt(network, i) /\ UNCHANGED duplicates
           \/ duplicates' = duplicates + 1
        /\ UNCHANGED <<log, order_index, sequence_index, resends>>
  BY DEF Deliver
<1>2. network' = RemoveAt(network, i) /\ NothingRepeated
  BY <1>1 DEF NothingRepeated, FirstCopiesInv
<1>3. /\ ClientTyped /\ ServerTyped
      /\ EachOnce /\ AllCounted /\ Logged /\ Handled /\ PassedAreProcessed
  BY <1>2 DEF SessionInv, FirstCopiesInv
<1>. DEFINE num == network[i].num
            fs == network[i].frames
<1>4. /\ pos = 0
      /\ UNCHANGED <<ordered_next, processed>>
      /\ \/ UNCHANGED <<accepted, frames, pos>>
         \/ accepted' = Append(accepted, num) /\ frames' = Reached(fs)
  BY <1>1 DEF process_packet
<1>5. Coming = {} /\ (UNCHANGED <<frames, pos>> => Coming' = {})
  BY <1>3, <1>4, NoneComing DEF Coming
<1>6. /\ \A j \in 1 .. Len(network') :
           \E k \in 1 .. Len(network) \ {i} : network'[j] = network[k]
      /\ \A j, l \in 1 .. Len(network') :
           \A a \in 1 .. Len(network'[j].frames), b \in 1 .. Len(network'[l].frames) :
              Whole(network'[j].frames[a]) /\ network'[j].frames[a] = network'[l].frames[b]
                => j = l /\ a = b
  BY <1>2, <1>3, NetworkPart
<1>7. fs \in Seq(SentFrame) \ {<<>>}
  BY <1>3, TravellingType
<1>8. Logged' /\ PassedAreProcessed'
  BY <1>1, <1>3, <1>4, <1>6 DEF Logged, PassedAreProcessed
<1>. HIDE DEF num, fs
<1>9. CASE UNCHANGED <<accepted, frames, pos>>
  <2>1. EachOnce'
    <3>1. \A j \in 1 .. Len(network') : \A a \in 1 .. Len(network'[j].frames) :
            Whole(network'[j].frames[a]) => network'[j].frames[a] \notin ToSet(processed)
      BY <1>3, <1>6 DEF EachOnce
    <3>2. Coming' = {} /\ processed' = processed
      BY <1>4, <1>5, <1>9
    <3>. QED  BY <1>6, <3>1, <3>2 DEF EachOnce
  <2>2. AllCounted'
    <3>1. \A j \in 1 .. Len(network') : \A a \in 1 .. Len(network'[j].frames) :
            Counted(network[j].frames[a])'
      BY <1>1, <1>3, <1>6 DEF AllCounted, Counted
    <3>2. Coming' = {}
      BY <1>5, <1>9
    <3>3. \A f \in ToSet(processed') : f \in SentFrame => Counted(f)'
      BY <1>1, <1>3, <1>4 DEF AllCounted, Counted
    <3>. QED  BY <3>1, <3>2, <3>3 DEF AllCounted
  <2>3. Handled'
    BY <1>1, <1>3, <1>4, <1>5, <1>9 DEF Handled
  <2>. QED  BY <1>8, <2>1, <2>2, <2>3
<1>10. CASE accepted' = Append(accepted, num) /\ frames' = Reached(fs)
  <2>1. \A b \in Coming' : b \in 1 .. Len(fs) /\ frames'[b] = fs[b]
    BY <1>7, <1>10, ReachedFacts DEF Coming
  <2>2. ASSUME NEW a \in 1 .. Len(fs), Whole(fs[a]) PROVE \E b \in Coming' : fs[a] = frames'[b]
    <3>1. a \in 1 .. Len(Reached(fs)) /\ Reached(fs)[a] = fs[a]
      BY <1>7, <2>2, ReachedFacts
    <3>2. Len(frames') \in Nat
      BY <1>7, <1>10, ReachedType, LenProperties
    <3>3. pos' = IF Reached(fs) = <<>> THEN 0 ELSE 1
      <4>1. accepted' # accepted
        BY <1>3, <1>10, AppendProperties DEF ServerTyped
      <4>. QED  BY <1>1, <4>1 DEF process_packet, fs
    <3>4. a \in Coming'
      BY <1>10, <3>1, <3>3 DEF Coming
    <3>. QED  BY <1>10, <3>1, <3>4
  <2>3. EachOnce'
    <3>1. ASSUME NEW j \in 1 .. Len(network'), NEW a \in 1 .. Len(network'[j].frames),
                 Whole(network'[j].frames[a])
          PROVE  /\ network'[j].frames[a] \notin ToSet(processed)
                 /\ \A b \in Coming' : frames'[b] # network'[j].frames[a]
      <4>1. PICK k \in 1 .. Len(network) \ {i} : network'[j] = network[k]
        BY <1>6
      <4>2. \A b \in 1 .. Len(fs) : fs[b] # network[k].frames[a]
        BY <1>3, <3>1, <4>1 DEF EachOnce, fs
      <4>. QED  BY <1>3, <2>1, <3>1, <4>1, <4>2 DEF EachOnce
    <3>2. \A a, b \in Coming' : Whole(frames'[a]) /\ frames'[a] = frames'[b] => a = b
      <4>1. \A a, b \in 1 .. Len(fs) : Whole(fs[a]) /\ fs[a] = fs[b] => a = b
        BY <1>3 DEF EachOnce, fs
      <4>. QED  BY <2>1, <4>1
    <3>3. \A a \in Coming' : Whole(frames'[a]) => frames'[a] \notin ToSet(processed)
      <4>1. \A a \in 1 .. Len(fs) : Whole(fs[a]) => fs[a] \notin ToSet(processed)
        BY <1>3 DEF EachOnce, fs
      <4>. QED  BY <2>1, <4>1
    <3>. QED  BY <1>4, <1>6, <3>1, <3>2, <3>3 DEF EachOnce
  <2>4. AllCounted'
    <3>1. \A b \in Coming' : Counted(frames[b])'
      <4>1. \A a \in 1 .. Len(fs) : Counted(fs[a])
        BY <1>3 DEF AllCounted, fs
      <4>. QED  BY <1>1, <2>1, <4>1 DEF Counted
    <3>2. \A j \in 1 .. Len(network') : \A a \in 1 .. Len(network'[j].frames) :
            Counted(network[j].frames[a])'
      BY <1>1, <1>3, <1>6 DEF AllCounted, Counted
    <3>3. \A f \in ToSet(processed') : f \in SentFrame => Counted(f)'
      BY <1>1, <1>3, <1>4 DEF AllCounted, Counted
    <3>. QED  BY <3>1, <3>2, <3>3 DEF AllCounted
  <2>5. Handled'
    <3>. SUFFICES ASSUME NEW j \in 1 .. Len(accepted'), NEW f \in ToSet(log[accepted'[j] + 1]), Whole(f)
                  PROVE  f \in ToSet(processed) \/ \E b \in Coming' : f = frames'[b]
      BY <1>1, <1>4 DEF Handled
    <3>1. num \in 0 .. NumberMod - 1
      <4>1. network[i] \in Datagram
        BY <1>3, ElementOfSeq DEF ClientTyped
      <4>. QED  BY <4>1 DEF Datagram, num
    <3>2. /\ Len(accepted') = Len(accepted) + 1 /\ Len(accepted) \in Nat
          /\ accepted'[Len(accepted) + 1] = num
          /\ \A k \in 1 .. Len(accepted) : accepted'[k] = accepted[k]
      BY <1>3, <1>10, <3>1, AppendProperties, LenProperties DEF ServerTyped
    <3>3. CASE j = Len(accepted) + 1
      <4>1. f \in ToSet(fs)
        BY <1>3, <3>2, <3>3 DEF Logged, num, fs
      <4>2. PICK a \in 1 .. Len(fs) : f = fs[a]
        BY <1>7, <4>1, LenProperties DEF ToSet
      <4>. QED  BY <2>2, <4>2
    <3>4. CASE j # Len(accepted) + 1
      <4>1. j \in 1 .. Len(accepted)
        BY <3>2, <3>4
      <4>. QED  BY <1>3, <1>5, <3>2, <4>1 DEF Handled
    <3>. QED  BY <3>3, <3>4
  <2>. QED  BY <1>8, <2>3, <2>4, <2>5
<1>. QED  BY <1>4, <1>9, <1>10

(* One turn of the loop: the frame at hand is no longer coming, and a      *)
(* whole ordered one is processed from then on.                            *)
LEMMA NextFrameComing ==
  ASSUME ServerTyped, pos # 0, NextFrame
  PROVE  /\ Coming' = Coming \ {pos} /\ pos \in Coming
         /\ \A b \in Coming' : frames'[b] = frames[b]
<1>1. frames \in Seq(SentFrame) /\ Len(frames) \in Nat /\ pos \in 1 .. Len(frames)
  BY AtHand, LenProperties DEF ServerTyped
<1>2. CASE pos = Len(frames)
  <2>1. Coming' = {}
    BY <1>2, EmptySeq DEF NextFrame, Coming
  <2>2. Coming = {pos}
    BY <1>1, <1>2 DEF Coming
  <2>. QED  BY <2>1, <2>2
<1>3. CASE pos # Len(frames)
  BY <1>1, <1>3 DEF NextFrame, Coming
<1>. QED  BY <1>2, <1>3

(* A frame that is in the reorder buffer has been processed.               *)
LEMMA BufferedMeansProcessed ==
  ASSUME Buffered, NEW f \in SentFrame, Whole(f), KeyOf(f) \in DOMAIN oof
  PROVE  f \in ToSet(processed)
<1>. DEFINE g == Last(oof[KeyOf(f)])
<1>1. /\ g.kind = "ordered" /\ ~g.split /\ KeyOf(g) = KeyOf(f)
      /\ g \in ToSet(processed)
      /\ oof[KeyOf(f)] \in Seq(SentFrame) /\ oof[KeyOf(f)] # <<>>
  BY DEF Buffered
<1>2. g \in SentFrame
  BY <1>1, EmptySeq, ElementOfSeq DEF Last
<1>. HIDE DEF g
<1>3. g = f
  BY <1>1, <1>2, SameKeySameFrame DEF Whole
<1>. QED  BY <1>1, <1>3

(* What a turn of the loop does to the counters and the processed frames.  *)
LEMMA TurnFacts ==
  ASSUME SessionInv, PassedAreProcessed, process_frame,
         NEW f, f = frames[pos],
         Whole(f) => f \notin ToSet(processed)
  PROVE  /\ f \in SentFrame
         /\ PassedAreProcessed'
         /\ \/ UNCHANGED <<frames, pos, processed>>
            \/ /\ NextFrame
               /\ ToSet(processed') \in {ToSet(processed), ToSet(processed) \cup {f}}
               /\ Whole(f) => f \in ToSet(processed')
<1>0. /\ ServerTyped /\ Buffered /\ pos # 0
      /\ ordered_next \in [Channels -> Nat]
  BY DEF SessionInv, process_frame, ServerTyped
<1>1. f \in SentFrame /\ f \in Frame
  BY <1>0, AtHand DEF SentFrame
<1>2. f.ch \in Channels /\ f.idx \in Nat
  BY <1>1, FrameFields
<1>3. <<f>> \in Seq(Frame \cup {Garbage}) /\ ToSet(<<f>>) = {f}
  BY <1>1 DEF ToSet
<1>4. ASSUME process_data(<<f>>) PROVE ToSet(processed') = ToSet(processed) \cup {f}
  BY <1>0, <1>3, <1>4, ProcessDataStep
<1>5. ASSUME Whole(f), ordered_next[f.ch] > f.idx PROVE FALSE
  <2>1. f.idx \in 0 .. ordered_next[f.ch] - 1
    BY <1>0, <1>2, <1>5
  <2>2. PICK g \in ToSet(processed) : g \in SentFrame /\ Whole(g) /\ g.ch = f.ch /\ g.idx = f.idx
    BY <1>2, <2>1 DEF PassedAreProcessed
  <2>3. g = f
    BY <1>1, <1>5, <2>2, SameKeySameFrame DEF Whole, KeyOf
  <2>. QED  BY <1>5, <2>2, <2>3
<1>6. ASSUME ordered_next' = ordered_next, ToSet(processed) \subseteq ToSet(processed')
      PROVE  PassedAreProcessed'
  BY <1>6 DEF PassedAreProcessed, Whole
<1>7. CASE Unhandled(f)
  BY <1>1, <1>6, <1>7 DEF Unhandled, Whole
<1>8. CASE PlainFrame(f)
  <2>1. process_data(<<f>>) /\ NextFrame /\ ordered_next' = ordered_next
    BY <1>8 DEF PlainFrame
  <2>. QED  BY <1>1, <1>4, <1>6, <2>1
<1>9. CASE SequencedAborts(f)
  BY <1>1, <1>6, <1>9 DEF SequencedAborts
<1>10. CASE SequencedFrame(f)
  <2>1. /\ NextFrame /\ ordered_next' = ordered_next /\ ~Whole(f)
        /\ process_data(<<f>>) \/ UNCHANGED processed
    BY <1>10 DEF SequencedFrame, Whole
  <2>. QED  BY <1>1, <1>4, <1>6, <2>1
<1>11. CASE OrderedInTurn(f)
  <2>1. Whole(f) /\ ordered_next[f.ch] = f.idx /\ NextFrame
    BY <1>11 DEF OrderedInTurn, Whole
  <2>2. KeyOf(f) \notin DOMAIN oof
    BY <1>0, <1>1, <2>1, BufferedMeansProcessed
  <2>3. /\ ordered_next' = [ordered_next EXCEPT ![f.ch] = @ + 1 + Len(<<>>)]
        /\ process_data(<<f>> \o <<>> \o <<f>>)
    BY <1>11, <2>2 DEF OrderedInTurn
  <2>4. ordered_next' = [ordered_next EXCEPT ![f.ch] = f.idx + 1]
    <3>1. Len(<<>>) = 0
      OBVIOUS
    <3>2. ordered_next[f.ch] + 1 + 0 = f.idx + 1
      BY <1>2, <2>1
    <3>. QED  BY <2>3, <3>1, <3>2
  <2>5. <<f>> \o <<>> \o <<f>> = <<f>> \o <<f>>
    BY <1>3, ConcatEmptySeq
  <2>6. <<f>> \o <<f>> \in Seq(Frame \cup {Garbage}) /\ ToSet(<<f>> \o <<f>>) = {f}
    <3>. DEFINE s == <<f>> \o <<f>>
    <3>1. Len(<<f>>) = 1 /\ <<f>>[1] = f
      OBVIOUS
    <3>2. /\ s \in Seq(Frame \cup {Garbage})
          /\ Len(s) = Len(<<f>>) + Len(<<f>>)
          /\ \A i \in 1 .. Len(<<f>>) + Len(<<f>>) :
               s[i] = IF i <= Len(<<f>>) THEN <<f>>[i] ELSE <<f>>[i - Len(<<f>>)]
      BY <1>3, ConcatProperties
    <3>. HIDE DEF s
    <3>3. Len(s) = 2 /\ s[1] = f /\ s[2] = f
      BY <3>1, <3>2
    <3>4. DOMAIN s = 1 .. 2
      BY <3>2, <3>3, LenProperties
    <3>5. ToSet(s) = {f}
      BY <3>3, <3>4 DEF ToSet
    <3>. QED  BY <3>2, <3>5 DEF s
  <2>7. ToSet(processed') = ToSet(processed) \cup {f}
    BY <1>0, <2>3, <2>5, <2>6, ProcessDataStep
  <2>8. PassedAreProcessed'
    <3>. SUFFICES ASSUME NEW c \in Channels, NEW m \in 0 .. ordered_next'[c] - 1
                  PROVE  \E g \in ToSet(processed') :
                           g \in SentFrame /\ Whole(g) /\ g.ch = c /\ g.idx = m
      BY DEF PassedAreProcessed, Whole
    <3>1. CASE c = f.ch /\ m = f.idx
      BY <1>1, <2>1, <2>7, <3>1
    <3>2. CASE ~(c = f.ch /\ m = f.idx)
      <4>1. m \in 0 .. ordered_next[c] - 1
        BY <1>0, <1>2, <2>1, <2>4, <3>2
      <4>2. PICK g \in ToSet(processed) : g \in SentFrame /\ Whole(g) /\ g.ch = c /\ g.idx = m
        BY <4>1 DEF PassedAreProcessed
      <4>. QED  BY <2>7, <4>2
    <3>. QED  BY <3>1, <3>2
  <2>. QED  BY <1>1, <2>1, <2>7, <2>8
<1>12. CASE OrderedLate(f)
  BY <1>5, <1>12 DEF OrderedLate, Whole
<1>13. CASE OrderedEarly(f)
  <2>1. process_data(<<f>>) /\ NextFrame /\ ordered_next' = ordered_next
    BY <1>13 DEF OrderedEarly
  <2>. QED  BY <1>1, <1>4, <1>6, <2>1
<1>14. CASE OrderedClash(f)
  <2>1. Whole(f) /\ KeyOf(f) \in DOMAIN oof
    BY <1>14 DEF OrderedClash, Whole
  <2>. QED  BY <1>0, <1>1, <2>1, BufferedMeansProcessed
<1>. QED  BY <1>7, <1>8, <1>9, <1>10, <1>11, <1>12, <1>13, <1>14 DEF process_frame

(* A turn of the loop keeps all parts of the invariant.                    *)
LEMMA FirstFrame ==
  ASSUME SessionInv, FirstCopiesInv, ProcessFrame, NothingRepeated
  PROVE  (EachOnce /\ AllCounted /\ Logged /\ Handled /\ PassedAreProcessed)'
<1>. USE DEF Travelling, Whole
<1>0. /\ ServerTyped /\ pos # 0 /\ process_frame
      /\ EachOnce /\ AllCounted /\ Logged /\ Handled /\ PassedAreProcessed
      /\ UNCHANGED <<network, log, order_index, accepted>>
  BY DEF SessionInv, FirstCopiesInv, ProcessFrame, process_frame, networkVars, numberVars
<1>. DEFINE f == frames[pos]
<1>1. pos \in Coming
  BY <1>0, AtHand DEF Coming
<1>2. Whole(f) => f \notin ToSet(processed)
  BY <1>0, <1>1 DEF EachOnce
<1>3. /\ f \in SentFrame
      /\ PassedAreProcessed'
      /\ \/ UNCHANGED <<frames, pos, processed>>
         \/ /\ NextFrame
            /\ ToSet(processed') \in {ToSet(processed), ToSet(processed) \cup {f}}
            /\ Whole(f) => f \in ToSet(processed')
  BY <1>0, <1>2, TurnFacts
<1>. HIDE DEF f
<1>4. Logged'
  BY <1>0 DEF Logged
<1>5. CASE UNCHANGED <<frames, pos, processed>>
  <2>1. Coming' = Coming
    BY <1>5 DEF Coming
  <2>2. EachOnce'
    BY <1>0, <1>5, <2>1 DEF EachOnce
  <2>3. AllCounted'
    BY <1>0, <1>5, <2>1 DEF AllCounted, Counted
  <2>4. Handled'
    BY <1>0, <1>5, <2>1 DEF Handled
  <2>. QED  BY <1>3, <1>4, <2>2, <2>3, <2>4
<1>6. CASE /\ NextFrame
           /\ ToSet(processed') \in {ToSet(processed), ToSet(processed) \cup {f}}
           /\ Whole(f) => f \in ToSet(processed')
  <2>1. /\ Coming' = Coming \ {pos}
        /\ \A b \in Coming' : frames'[b] = frames[b]
    BY <1>0, <1>6, NextFrameComing
  <2>2. EachOnce'
    <3>1. ASSUME NEW i \in 1 .. Len(network), NEW a \in 1 .. Len(network[i].frames),
                 Whole(network[i].frames[a])
          PROVE  /\ network[i].frames[a] \notin ToSet(processed')
                 /\ \A b \in Coming' : frames'[b] # network[i].frames[a]
      <4>1. /\ network[i].frames[a] \notin ToSet(processed)
            /\ \A b \in Coming : frames[b] # network[i].frames[a]
        BY <1>0, <3>1 DEF EachOnce
      <4>. QED  BY <1>1, <1>6, <2>1, <4>1 DEF f
    <3>2. \A a, b \in Coming' : Whole(frames'[a]) /\ frames'[a] = frames'[b] => a = b
      BY <1>0, <2>1 DEF EachOnce
    <3>3. ASSUME NEW a \in Coming', Whole(frames'[a]) PROVE frames'[a] \notin ToSet(processed')
      <4>1. frames'[a] = frames[a] /\ a \in Coming /\ a # pos
        BY <2>1
      <4>2. frames[a] \notin ToSet(processed) /\ frames[a] # f
        BY <1>0, <1>1, <3>3, <4>1 DEF EachOnce, f
      <4>. QED  BY <1>6, <4>1, <4>2
    <3>4. \A i, j \in 1 .. Len(network) :
            \A a \in 1 .. Len(network[i].frames), b \in 1 .. Len(network[j].frames) :
               Whole(network[i].frames[a]) /\ network[i].frames[a] = network[j].frames[b]
                 => i = j /\ a = b
      BY <1>0 DEF EachOnce
    <3>. QED  BY <1>0, <3>1, <3>2, <3>3, <3>4 DEF EachOnce
  <2>3. AllCounted'
    <3>1. \A b \in Coming' : Counted(frames[b])'
      BY <1>0, <2>1 DEF AllCounted, Counted
    <3>2. \A g \in ToSet(processed') : g \in SentFrame => Counted(g)'
      BY <1>0, <1>1, <1>6 DEF AllCounted, Counted, f
    <3>3. \A i \in 1 .. Len(network') : \A a \in 1 .. Len(network'[i].frames) :
            Counted(network[i].frames[a])'
      BY <1>0 DEF AllCounted, Counted
    <3>. QED  BY <3>1, <3>2, <3>3 DEF AllCounted
  <2>4. Handled'
    <3>. SUFFICES ASSUME NEW i \in 1 .. Len(accepted), NEW g \in ToSet(log[accepted[i] + 1]), Whole(g)
                  PROVE  g \in ToSet(processed') \/ \E b \in Coming' : g = frames'[b]
      BY <1>0 DEF Handled
    <3>1. g \in ToSet(processed) \/ \E b \in Coming : g = frames[b]
      BY <1>0 DEF Handled
    <3>2. CASE g \in ToSet(processed)
      BY <1>6, <3>2
    <3>3. ASSUME NEW b \in Coming, g = frames[b]
          PROVE  g \in ToSet(processed') \/ \E k \in Coming' : g = frames'[k]
      <4>1. CASE b = pos
        BY <1>6, <3>3, <4>1 DEF f
      <4>2. CASE b # pos
        BY <2>1, <3>3, <4>2
      <4>. QED  BY <4>1, <4>2
    <3>. QED  BY <3>1, <3>2, <3>3
  <2>. QED  BY <1>3, <1>4, <2>2, <2>3, <2>4
<1>. QED  BY <1>3, <1>5, <1>6

(* Every step keeps the invariant.                                         *)
LEMMA FirstCopiesStep ==
  SessionInv /\ NumbersInv /\ FirstCopiesInv /\ [Next]_vars => FirstCopiesInv'
<1>. SUFFICES ASSUME SessionInv, NumbersInv, FirstCopiesInv, [Next]_vars PROVE FirstCopiesInv'
  OBVIOUS
<1>1. resends' \in Nat /\ duplicates' \in Nat
  BY DEF FirstCopiesInv, Next, SendNew, SendAgain, Deliver, Lose, ProcessFrame, OtherTraffic,
         networkVars, vars
<1>. SUFFICES ASSUME NothingRepeated'
              PROVE  (EachOnce /\ AllCounted /\ Logged /\ Handled /\ PassedAreProcessed)'
  BY <1>1 DEF FirstCopiesInv
<1>2. CASE SendNew
  BY <1>2, FirstSendNew
<1>3. CASE SendAgain
  <2>1. resends' = resends + 1 /\ resends \in Nat
    BY <1>3 DEF SendAgain, FirstCopiesInv
  <2>. QED  BY <2>1 DEF NothingRepeated
<1>4. CASE Deliver
  BY <1>4, FirstDeliver
<1>5. CASE Lose
  <2>1. NothingRepeated
    BY <1>5 DEF Lose, NothingRepeated
  <2>. QED  BY <1>5, <2>1, FirstLose
<1>6. CASE ProcessFrame
  <2>1. NothingRepeated
    BY <1>6 DEF ProcessFrame, networkVars, NothingRepeated
  <2>. QED  BY <1>6, <2>1, FirstFrame
<1>7. CASE OtherTraffic \/ UNCHANGED vars
  <2>1. UNCHANGED <<network, log, order_index, resends, duplicates, frames, pos, processed,
                    accepted, ordered_next>>
    BY <1>7 DEF OtherTraffic, ReceiveElsewhere, networkVars, vars, sessionVars
  <2>2. NothingRepeated
    BY <2>1 DEF NothingRepeated
  <2>3. Coming' = Coming
    BY <2>1 DEF Coming
  <2>4. EachOnce /\ AllCounted /\ Logged /\ Handled /\ PassedAreProcessed
    BY <2>2 DEF FirstCopiesInv
  <2>5. EachOnce'
    <3>1. \A i \in 1 .. Len(network') : \A a \in 1 .. Len(network'[i].frames) :
            Whole(network'[i].frames[a]) =>
              /\ network'[i].frames[a] \notin ToSet(processed')
              /\ \A b \in Coming' : frames'[b] # network'[i].frames[a]
      BY <2>1, <2>3, <2>4 DEF EachOnce, Travelling
    <3>2. \A i, j \in 1 .. Len(network') :
            \A a \in 1 .. Len(network'[i].frames), b \in 1 .. Len(network'[j].frames) :
               Whole(network'[i].frames[a]) /\ network'[i].frames[a] = network'[j].frames[b]
                 => i = j /\ a = b
      BY <2>1, <2>4 DEF EachOnce, Travelling
    <3>3. /\ \A a, b \in Coming' : Whole(frames'[a]) /\ frames'[a] = frames'[b] => a = b
          /\ \A a \in Coming' : Whole(frames'[a]) => frames'[a] \notin ToSet(processed')
      BY <2>1, <2>3, <2>4 DEF EachOnce
    <3>. QED  BY <3>1, <3>2, <3>3 DEF EachOnce, Travelling, Whole
  <2>6. AllCounted'
    BY <2>1, <2>3, <2>4 DEF AllCounted, Counted, Travelling, Whole
  <2>7. Logged' /\ Handled' /\ PassedAreProcessed'
    BY <2>1, <2>3, <2>4 DEF Logged, Handled, PassedAreProcessed, Travelling, Whole
  <2>. QED  BY <2>5, <2>6, <2>7
<1>. QED  BY <1>2, <1>3, <1>4, <1>5, <1>6, <1>7 DEF Next

(* In whatever order datagrams come, every whole ordered frame of one that *)
(* is accepted is processed, as long as none is repeated: the branches for *)
(* late and for buffered frames take none that is new.                     *)
THEOREM NoFirstCopyIsDropped == Spec => []FirstCopiesAreProcessed
<1>1. SessionInv /\ FirstCopiesInv => FirstCopiesAreProcessed
  <2>. SUFFICES ASSUME SessionInv, FirstCopiesInv, NothingRepeated, pos = 0,
                       NEW i \in 1 .. Len(accepted), NEW f \in ToSet(log[accepted[i] + 1]),
                       f.kind = "ordered", ~f.split
                PROVE  f \in ToSet(processed)
    BY DEF FirstCopiesAreProcessed
  <2>1. Coming = {}
    BY NoneComing DEF SessionInv
  <2>. QED  BY <2>1 DEF FirstCopiesInv, Handled, Whole
<1>2. Spec => []FirstCopiesInv
  BY FirstInitially, FirstCopiesStep, SessionInvariant, NumbersInvariant, PTL DEF Spec
<1>. QED  BY <1>1, <1>2, SessionInvariant, PTL
=============================================================================
