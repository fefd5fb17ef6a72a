---------------------------- MODULE InOrderProofs ----------------------------
(***************************************************************************)
(* What SessionNetwork promises of a network that keeps the order, loses   *)
(* nothing and repeats nothing by itself, for any channels, frames, widths *)
(* of the numbers and retransmissions by the client.                       *)
(*                                                                         *)
(* On such a network everything is a matter of places in the log: the      *)
(* datagrams that were taken are its beginning, the network is the rest.   *)
(* An ordered frame that is still to come has all frames with smaller      *)
(* indices before it, processed or coming sooner (Ladder).  So the one at  *)
(* hand is the one wanted next, or late.                                   *)
(***************************************************************************)
EXTENDS FirstCopiesProofs, WellFoundedInduction

(* The network, and a client without sequenced frames and fragments.       *)
GoodNetwork ==
  /\ ~MayReorder /\ ~MayLose /\ ~MayDuplicate
  /\ "sequenced" \notin Kinds
  /\ Splits \subseteq {FALSE}

Taken == Len(accepted)

Queue ==
  /\ Len(log) = Taken + Len(network)
  /\ next_expected_seq = Taken % NumberMod
  /\ \A i \in 1 .. Len(network) :
        /\ network[i].num = (Taken + (i - 1)) % NumberMod
        /\ network[i].frames = log[Taken + i]
  /\ pos # 0 => Taken > 0 /\ frames = Reached(log[Taken])

(* What the client has sent.                                               *)
SentInv ==
  \A k \in 1 .. Len(log) :
     /\ Len(log[k]) <= MaxFrames
     /\ \A a \in 1 .. Len(log[k]) :
           /\ log[k][a].kind # "sequenced" /\ ~log[k][a].split
           /\ Counted(log[k][a])
           /\ log[k][a].kind \in WithoutOrder => log[k][a].idx = (k - 1) * MaxFrames + a

(* The frame in one place comes sooner than another.                       *)
Sooner(l, x, k, a) == l < k \/ (l = k /\ x < a)

(* The places of the ordered frames that are still to be processed.        *)
Waiting(k, a) ==
  /\ log[k][a].kind = "ordered"
  /\ Taken < k \/ (k = Taken /\ pos # 0 /\ pos <= a)

Comes(c, m, k, a) ==
  \E l \in 1 .. Len(log) : \E x \in 1 .. Len(log[l]) :
     Waiting(l, x) /\ Sooner(l, x, k, a) /\ log[l][x].ch = c /\ log[l][x].idx = m

Ladder ==
  \A k \in 1 .. Len(log) : \A a \in 1 .. Len(log[k]) :
     Waiting(k, a) =>
       \A m \in 0 .. log[k][a].idx - 1 :
          m < ordered_next[log[k][a].ch] \/ Comes(log[k][a].ch, m, k, a)

(* So does what the client sends next.                                     *)
NextRung ==
  \A c \in Channels : \A m \in 0 .. IndexMod - 1 :
     m < order_index[c] => m < ordered_next[c] \/ Comes(c, m, Len(log) + 1, 1)

(* The last ordered frame of a channel was the one before the next.        *)
Places(s, c) == {i \in 1 .. Len(s) : IsOrdered(s[i], c)}

InOrder(s, c) ==
  \A j \in Places(s, c) :
     /\ (\A k \in Places(s, c) : j <= k) => s[j].idx = 0
     /\ \A i \in Places(s, c) :
          i < j /\ (\A k \in Places(s, c) : k <= i \/ j <= k) => s[j].idx - s[i].idx \in {0, 1}

LastBefore(s, c, n) ==
  /\ Places(s, c) = {} => n = 0
  /\ \A i \in Places(s, c) : (\A k \in Places(s, c) : k <= i) => s[i].idx = n - 1

Outcome ==
  /\ \A i \in 1 .. Len(processed) : processed[i] \in SentFrame
  /\ \A c \in Channels :
        InOrder(processed, c) /\ LastBefore(processed, c, ordered_next[c])

(* Frames without order are numbered by their places.                      *)
PlainPast ==
  \A i \in 1 .. Len(processed) :
     processed[i].kind \in WithoutOrder =>
        processed[i].idx <= IF pos = 0 THEN Taken * MaxFrames
                            ELSE (Taken - 1) * MaxFrames + (pos - 1)

PlainHandled ==
  \A k \in 1 .. Taken : \A a \in 1 .. Len(log[k]) :
     log[k][a].kind \in WithoutOrder =>
        \/ log[k][a] \in ToSet(processed)
        \/ k = Taken /\ a \in Coming
        \/ log[k][a].kind = "tiny" /\ a = Len(log[k])

InOrderInv ==
  /\ Queue
  /\ SentInv
  /\ Undisturbed
  /\ Ladder
  /\ NextRung
  /\ Outcome
  /\ PlainPast /\ PlainOnce
  /\ PlainHandled
-----------------------------------------------------------------------------
(* A set of naturals has a least element.                                  *)
LEMMA LeastElement ==
  ASSUME NEW S, S \subseteq Nat, S # {}
  PROVE  \E x \in S : \A y \in S : x <= y
<1>1. IsWellFoundedOn(OpToRel(<, Nat), Nat)
  BY NatLessThanWellFounded
<1>2. PICK x \in S : \A y \in S : <<y, x>> \notin OpToRel(<, Nat)
  BY <1>1, WFMin
<1>3. ASSUME NEW y \in S PROVE x <= y
  <2>1. <<y, x>> \notin OpToRel(<, Nat)
    BY <1>2
  <2>2. ~(y < x)
    BY <2>1 DEF OpToRel
  <2>. QED  BY <2>2
<1>. QED  BY <1>3

(* The number after a number.                                              *)
LEMMA ModuloNext ==
  ASSUME NEW x \in Nat, NEW n \in Nat \ {0}
  PROVE  ((x % n) + 1) % n = (x + 1) % n
<1>. DEFINE q == x \div n
            r == x % n
<1>1. x = n * q + r /\ r \in 0 .. n - 1 /\ q \in Nat
  OBVIOUS
<1>. HIDE DEF q, r
<1>2. CASE r + 1 < n
  <2>1. x + 1 = n * q + (r + 1)
    BY <1>1
  <2>2. (x + 1) % n = r + 1
    BY <1>1, <1>2, <2>1
  <2>3. (r + 1) % n = r + 1
    BY <1>1, <1>2
  <2>. QED  BY <2>2, <2>3 DEF r
<1>3. CASE r + 1 = n
  <2>1. x + 1 = n * (q + 1)
    BY <1>1, <1>3
  <2>2. (x + 1) % n = 0
    BY <1>1, <2>1
  <2>3. (r + 1) % n = 0
    BY <1>1, <1>3
  <2>. QED  BY <2>2, <2>3 DEF r
<1>. QED  BY <1>1, <1>2, <1>3

(* The count of ordered frames goes through every number.                  *)
LEMMA BeforeReaches ==
  ASSUME NEW choice, NEW n \in Nat, NEW kind, NEW c,
         NEW v \in Nat, v < Before(choice, n, kind, c)
  PROVE  \E j \in 1 .. n : /\ choice[j][1] = kind /\ choice[j][2] = c
                           /\ Before(choice, j - 1, kind, c) = v
<1>. DEFINE B(k) == Before(choice, k, kind, c)
            above == {k \in 0 .. n : v < B(k)}
<1>0. above \subseteq Nat /\ n \in above
  OBVIOUS
<1>1. PICK x \in above : \A y \in above : x <= y
  <2>. HIDE DEF above
  <2>. QED  BY <1>0, LeastElement
<1>2. x \in 0 .. n /\ v < B(x)
  BY <1>1
<1>3. x # 0
  <2>1. {j \in 1 .. 0 : choice[j][1] = kind /\ choice[j][2] = c} = {}
    OBVIOUS
  <2>2. B(0) = 0
    BY <2>1, FS_EmptySet DEF Before
  <2>. QED  BY <1>2, <2>2
<1>4. x - 1 \in 0 .. n /\ x \in 1 .. n /\ x \in Nat \ {0}
  BY <1>2, <1>3
<1>5. B(x) \in Nat /\ B(x - 1) \in Nat
  BY <1>4, BeforeType
<1>6. B(x - 1) <= v
  <2>1. x - 1 \notin above
    BY <1>1, <1>4
  <2>. QED  BY <1>4, <1>5, <2>1
<1>. HIDE DEF above
<1>7. CASE choice[x][1] = kind /\ choice[x][2] = c
  <2>1. B(x) = B(x - 1) + 1
    BY <1>4, <1>7, BeforeNext
  <2>2. B(x - 1) = v
    BY <1>2, <1>5, <1>6, <2>1
  <2>. QED  BY <1>4, <1>7, <2>2
<1>8. CASE ~(choice[x][1] = kind /\ choice[x][2] = c)
  <2>1. {j \in 1 .. x : choice[j][1] = kind /\ choice[j][2] = c}
          = {j \in 1 .. x - 1 : choice[j][1] = kind /\ choice[j][2] = c}
    BY <1>4, <1>8
  <2>2. B(x) = B(x - 1)
    BY <2>1 DEF Before
  <2>. QED  BY <1>2, <1>5, <1>6, <2>2
<1>. QED  BY <1>7, <1>8

-----------------------------------------------------------------------------
(* What was processed, with one frame more.                                *)
LEMMA PlacesAppended ==
  ASSUME NEW S, NEW s \in Seq(S), NEW f \in S, NEW c
  PROVE  /\ Len(Append(s, f)) = Len(s) + 1 /\ Len(s) \in Nat
         /\ Append(s, f)[Len(s) + 1] = f
         /\ \A i \in 1 .. Len(s) : Append(s, f)[i] = s[i]
         /\ Places(s, c) \subseteq 1 .. Len(s)
         /\ Places(Append(s, f), c) =
              Places(s, c) \cup (IF IsOrdered(f, c) THEN {Len(s) + 1} ELSE {})
<1>1. /\ Len(Append(s, f)) = Len(s) + 1 /\ Len(s) \in Nat
      /\ Append(s, f)[Len(s) + 1] = f
      /\ \A i \in 1 .. Len(s) : Append(s, f)[i] = s[i]
  BY AppendProperties, LenProperties
<1>. DEFINE t == Append(s, f)
<1>. HIDE DEF t
<1>2. \A i \in 1 .. Len(s) + 1 : IsOrdered(t[i], c) <=>
         (i \in 1 .. Len(s) /\ IsOrdered(s[i], c)) \/ (i = Len(s) + 1 /\ IsOrdered(f, c))
  BY <1>1 DEF t
<1>3. Places(t, c) = Places(s, c) \cup (IF IsOrdered(f, c) THEN {Len(s) + 1} ELSE {})
  BY <1>1, <1>2 DEF Places, t
<1>. QED  BY <1>1, <1>3 DEF Places, t

(* A frame of another channel, or without order, does not count.           *)
LEMMA AppendOther ==
  ASSUME NEW S, NEW s \in Seq(S), NEW f \in S, NEW c, ~IsOrdered(f, c),
         NEW n, InOrder(s, c), LastBefore(s, c, n)
  PROVE  InOrder(Append(s, f), c) /\ LastBefore(Append(s, f), c, n)
<1>. DEFINE t == Append(s, f)
<1>1. Places(t, c) = Places(s, c) /\ \A i \in Places(s, c) : t[i] = s[i]
  <2>1. /\ Places(s, c) \subseteq 1 .. Len(s)
        /\ Places(t, c) = Places(s, c) \cup {}
        /\ \A i \in 1 .. Len(s) : t[i] = s[i]
    <3>1. (IF IsOrdered(f, c) THEN {Len(s) + 1} ELSE {}) = {}
      OBVIOUS
    <3>2. Places(t, c) = Places(s, c) \cup (IF IsOrdered(f, c) THEN {Len(s) + 1} ELSE {})
      BY PlacesAppended
    <3>3. Places(s, c) \subseteq 1 .. Len(s) /\ \A i \in 1 .. Len(s) : t[i] = s[i]
      BY PlacesAppended
    <3>. QED  BY <3>1, <3>2, <3>3
  <2>. QED  BY <2>1
<1>. HIDE DEF t
<1>. QED  BY <1>1 DEF InOrder, LastBefore, t

(* One that is wanted next, or was the last one, keeps the order.          *)
LEMMA AppendOrdered ==
  ASSUME NEW S, NEW s \in Seq(S), NEW f \in S, NEW c, IsOrdered(f, c),
         NEW n \in Nat, InOrder(s, c), LastBefore(s, c, n),
         f.idx \in Nat, f.idx \in {n - 1, n}
  PROVE  InOrder(Append(s, f), c) /\ LastBefore(Append(s, f), c, f.idx + 1)
<1>. DEFINE t == Append(s, f)
            top == Len(s) + 1
<1>1. /\ Places(t, c) = Places(s, c) \cup {top}
      /\ top \in Nat /\ t[top] = f
      /\ \A i \in Places(s, c) : i \in Nat /\ i < top /\ t[i] = s[i]
  <2>1. /\ Len(s) \in Nat /\ Places(s, c) \subseteq 1 .. Len(s)
        /\ Places(t, c) = Places(s, c) \cup {top}
        /\ t[top] = f /\ \A i \in 1 .. Len(s) : t[i] = s[i]
    BY PlacesAppended DEF t, top
  <2>2. top \in Nat /\ \A i \in 1 .. Len(s) : i \in Nat /\ i < top
    BY <2>1
  <2>. QED  BY <2>1, <2>2
<1>. HIDE DEF t, top
<1>2. LastBefore(t, c, f.idx + 1)
  BY <1>1 DEF LastBefore
<1>3. ASSUME NEW j \in Places(t, c)
      PROVE  /\ (\A k \in Places(t, c) : j <= k) => t[j].idx = 0
             /\ \A i \in Places(t, c) :
                  i < j /\ (\A k \in Places(t, c) : k <= i \/ j <= k)
                    => t[j].idx - t[i].idx \in {0, 1}
  <2>1. CASE j = top
    <3>1. (\A k \in Places(t, c) : j <= k) => t[j].idx = 0
      <4>. SUFFICES ASSUME \A k \in Places(t, c) : j <= k PROVE f.idx = 0
        BY <1>1, <2>1
      <4>1. ASSUME NEW k \in Places(s, c) PROVE FALSE
        BY <1>1, <2>1, <4>1
      <4>. QED  BY <4>1 DEF LastBefore
    <3>2. ASSUME NEW i \in Places(t, c), i < j, \A k \in Places(t, c) : k <= i \/ j <= k
          PROVE  t[j].idx - t[i].idx \in {0, 1}
      <4>1. i \in Places(s, c)
        BY <1>1, <2>1, <3>2
      <4>2. \A k \in Places(s, c) : k <= i
        BY <1>1, <2>1, <3>2
      <4>3. t[i].idx = n - 1
        BY <1>1, <4>1, <4>2 DEF LastBefore
      <4>. QED  BY <1>1, <2>1, <4>3
    <3>. QED  BY <3>1, <3>2
  <2>2. CASE j # top
    <3>1. j \in Places(s, c) /\ t[j] = s[j] /\ j < top
      BY <1>1, <1>3, <2>2
    <3>2. (\A k \in Places(t, c) : j <= k) => t[j].idx = 0
      BY <1>1, <3>1 DEF InOrder
    <3>3. ASSUME NEW i \in Places(t, c), i < j, \A k \in Places(t, c) : k <= i \/ j <= k
          PROVE  t[j].idx - t[i].idx \in {0, 1}
      <4>1. i \in Places(s, c) /\ t[i] = s[i]
        BY <1>1, <3>1, <3>3
      <4>. QED  BY <1>1, <3>1, <3>3, <4>1 DEF InOrder
    <3>. QED  BY <3>2, <3>3
  <2>. QED  BY <2>1, <2>2
<1>4. InOrder(t, c)
  BY <1>3 DEF InOrder
<1>. QED  BY <1>2, <1>4 DEF t
-----------------------------------------------------------------------------
(* The sequences of frames in the log.                                     *)
LEMMA LogType ==
  ASSUME ClientTyped
  PROVE  /\ Len(log) \in Nat
         /\ \A k \in 1 .. Len(log) :
              /\ log[k] \in Seq(SentFrame) \ {<<>>}
              /\ Len(log[k]) \in Nat \ {0}
              /\ \A a \in 1 .. Len(log[k]) : log[k][a] \in SentFrame
<1>1. Len(log) \in Nat
  BY LenProperties DEF ClientTyped
<1>2. ASSUME NEW k \in 1 .. Len(log)
      PROVE  log[k] \in Seq(SentFrame) \ {<<>>}
  BY <1>2, ElementOfSeq DEF ClientTyped
<1>3. ASSUME NEW k \in 1 .. Len(log)
      PROVE  /\ Len(log[k]) \in Nat \ {0}
             /\ \A a \in 1 .. Len(log[k]) : log[k][a] \in SentFrame
  BY <1>2, EmptySeq, LenProperties, ElementOfSeq
<1>. QED  BY <1>1, <1>2, <1>3

(* The index of an ordered frame has its width.                            *)
LEMMA OrderedIndex ==
  ASSUME NEW f \in SentFrame, f.kind = "ordered"
  PROVE  f.idx \in 0 .. IndexMod - 1
BY Widths DEF SentFrame, Frame, WithoutOrder

(* Frames that do not wait any more have been passed, so that nothing is   *)
(* missing from the ladder.                                                *)
LEMMA LadderKept ==
  ASSUME ClientTyped, Ladder, NextRung,
         UNCHANGED <<log, order_index>>,
         ordered_next \in [Channels -> Nat], ordered_next' \in [Channels -> Nat],
         \A c \in Channels : ordered_next[c] <= ordered_next'[c],
         \A k \in 1 .. Len(log) : \A a \in 1 .. Len(log[k]) : Waiting(k, a)' => Waiting(k, a),
         \A k \in 1 .. Len(log) : \A a \in 1 .. Len(log[k]) :
            Waiting(k, a) /\ ~Waiting(k, a)' => log[k][a].idx < ordered_next'[log[k][a].ch]
  PROVE  Ladder' /\ NextRung'
<1>1. ASSUME NEW c \in Channels, NEW m \in Nat, NEW k, NEW a,
             m < ordered_next[c] \/ Comes(c, m, k, a)
      PROVE  m < ordered_next'[c] \/ Comes(c, m, k, a)'
  <2>1. CASE m < ordered_next[c]
    BY <2>1
  <2>2. CASE Comes(c, m, k, a)
    <3>1. PICK l \in 1 .. Len(log) : \E x \in 1 .. Len(log[l]) :
             Waiting(l, x) /\ Sooner(l, x, k, a) /\ log[l][x].ch = c /\ log[l][x].idx = m
      BY <2>2 DEF Comes
    <3>2. PICK x \in 1 .. Len(log[l]) :
             Waiting(l, x) /\ Sooner(l, x, k, a) /\ log[l][x].ch = c /\ log[l][x].idx = m
      BY <3>1
    <3>3. CASE Waiting(l, x)'
      BY <3>2, <3>3 DEF Comes, Sooner
    <3>4. CASE ~Waiting(l, x)'
      BY <3>2, <3>4
    <3>. QED  BY <3>3, <3>4
  <2>. QED  BY <1>1, <2>1, <2>2
<1>2. Ladder'
  <2>. SUFFICES ASSUME NEW k \in 1 .. Len(log), NEW a \in 1 .. Len(log[k]), Waiting(k, a)',
                       NEW m \in 0 .. log[k][a].idx - 1
                PROVE  m < ordered_next'[log[k][a].ch] \/ Comes(log[k][a].ch, m, k, a)'
    BY DEF Ladder
  <2>1. log[k][a].ch \in Channels /\ log[k][a].idx \in Nat
    BY LogType, FrameFields
  <2>2. Waiting(k, a)
    OBVIOUS
  <2>3. m < ordered_next[log[k][a].ch] \/ Comes(log[k][a].ch, m, k, a)
    BY <2>2 DEF Ladder
  <2>. QED  BY <1>1, <2>1, <2>3
<1>3. NextRung'
  <2>. SUFFICES ASSUME NEW c \in Channels, NEW m \in 0 .. IndexMod - 1, m < order_index[c]
                PROVE  m < ordered_next'[c] \/ Comes(c, m, Len(log) + 1, 1)'
    BY DEF NextRung
  <2>1. m < ordered_next[c] \/ Comes(c, m, Len(log) + 1, 1)
    BY DEF NextRung
  <2>. QED  BY <1>1, <2>1
<1>. QED  BY <1>2, <1>3

(* A new datagram, in which each ordered frame has its predecessors before *)
(* it, among those the client has counted or in the datagram itself.       *)
LEMMA LadderGrows ==
  ASSUME ClientTyped, ServerTyped, Queue, Ladder, NextRung,
         NEW fs \in Seq(SentFrame) \ {<<>>}, log' = Append(log, fs),
         UNCHANGED sessionVars, pos = 0,
         \A a \in 1 .. Len(fs) : fs[a].kind = "ordered" =>
            \A m \in 0 .. fs[a].idx - 1 :
               \/ m < order_index[fs[a].ch]
               \/ \E x \in 1 .. Len(fs) : /\ x < a /\ fs[x].kind = "ordered"
                                          /\ fs[x].ch = fs[a].ch /\ fs[x].idx = m,
         \A c \in Channels : \A m \in 0 .. IndexMod - 1 : m < order_index'[c] =>
            \/ m < order_index[c]
            \/ \E x \in 1 .. Len(fs) : fs[x].kind = "ordered" /\ fs[x].ch = c /\ fs[x].idx = m
  PROVE  Ladder' /\ NextRung'
<1>. SUFFICES ASSUME NEW top, top = Len(log) + 1 PROVE Ladder' /\ NextRung'
  OBVIOUS
<1>1. /\ Len(log') = top /\ log'[top] = fs /\ Len(log) \in Nat
      /\ \A k \in 1 .. Len(log) : log'[k] = log[k]
  BY AppendProperties, LogType DEF ClientTyped
<1>2. /\ Taken' = Taken /\ Taken \in Nat /\ Taken <= Len(log)
      /\ pos' = pos /\ ordered_next' = ordered_next
  <2>1. Taken' = Taken /\ pos' = pos /\ ordered_next' = ordered_next
    BY DEF sessionVars, Taken
  <2>2. Len(log) = Taken + Len(network)
    BY DEF Queue
  <2>3. Len(network) \in Nat /\ Taken \in Nat
    BY LenProperties DEF ClientTyped, ServerTyped, Taken
  <2>. QED  BY <2>1, <2>2, <2>3
<1>3. ASSUME NEW k \in 1 .. Len(log), NEW a \in 1 .. Len(log[k])
      PROVE  Waiting(k, a)' <=> Waiting(k, a)
  BY <1>1, <1>2 DEF Waiting
<1>4. ASSUME NEW a \in 1 .. Len(fs), fs[a].kind = "ordered"
      PROVE  Waiting(top, a)'
  BY <1>1, <1>2, <1>4 DEF Waiting
<1>5. ASSUME NEW c, NEW m, NEW k, NEW a, NEW l, NEW b, Comes(c, m, k, a),
             k <= top, k = l => a <= b, k <= l, l \in Int, k \in Int, a \in Int, b \in Int
      PROVE  Comes(c, m, l, b)'
  <2>1. PICK j \in 1 .. Len(log) : \E x \in 1 .. Len(log[j]) :
           Waiting(j, x) /\ Sooner(j, x, k, a) /\ log[j][x].ch = c /\ log[j][x].idx = m
    BY <1>5 DEF Comes
  <2>2. PICK x \in 1 .. Len(log[j]) :
           Waiting(j, x) /\ Sooner(j, x, k, a) /\ log[j][x].ch = c /\ log[j][x].idx = m
    BY <2>1
  <2>3. Sooner(j, x, l, b)
    BY <1>1, <1>5, <2>2 DEF Sooner
  <2>4. j \in 1 .. Len(log') /\ log'[j] = log[j] /\ Waiting(j, x)'
    BY <1>1, <1>3, <2>2
  <2>. QED  BY <2>2, <2>3, <2>4 DEF Comes, Sooner
<1>6. ASSUME NEW x \in 1 .. Len(fs), fs[x].kind = "ordered", NEW k, NEW a, Sooner(top, x, k, a),
             NEW c, c = fs[x].ch, NEW m, m = fs[x].idx
      PROVE  Comes(c, m, k, a)'
  <2>1. Waiting(top, x)' /\ top \in 1 .. Len(log')
    BY <1>1, <1>4, <1>6
  <2>. QED  BY <1>1, <1>6, <2>1 DEF Comes, Sooner
<1>7. \A a \in 1 .. Len(fs) : /\ fs[a].ch \in Channels /\ fs[a].idx \in Nat
                              /\ fs[a].kind = "ordered" => fs[a].idx < IndexMod
  <2>. SUFFICES ASSUME NEW a \in 1 .. Len(fs)
                PROVE  /\ fs[a].ch \in Channels /\ fs[a].idx \in Nat
                       /\ fs[a].kind = "ordered" => fs[a].idx < IndexMod
    OBVIOUS
  <2>1. fs[a] \in SentFrame
    BY ElementOfSeq
  <2>2. fs[a].kind = "ordered" => fs[a].idx < IndexMod
    BY <2>1, OrderedIndex, Widths
  <2>. QED  BY <2>1, <2>2, FrameFields
<1>8. ASSUME NEW c \in Channels, NEW m \in 0 .. IndexMod - 1, m < order_index[c], NEW a \in Nat \ {0}
      PROVE  m < ordered_next[c] \/ Comes(c, m, top, a)'
  <2>1. m < ordered_next[c] \/ Comes(c, m, top, 1)
    BY <1>8 DEF NextRung
  <2>2. top \in Int
    BY <1>1
  <2>3. CASE m < ordered_next[c]
    BY <2>3
  <2>4. CASE Comes(c, m, top, 1)
    <3>1. 1 \in Int /\ a \in Int /\ 1 <= a /\ top <= top
      BY <2>2
    <3>2. top = top => 1 <= a
      BY <3>1
    <3>. QED  BY <1>5, <2>2, <2>4, <3>1, <3>2, Zenon
  <2>. QED  BY <2>1, <2>3, <2>4
<1>9. Ladder'
  <2>. SUFFICES ASSUME NEW k \in 1 .. top, NEW a \in 1 .. Len(log'[k]), Waiting(k, a)',
                       NEW m \in 0 .. log'[k][a].idx - 1, NEW c, c = log'[k][a].ch
                PROVE  m < ordered_next[c] \/ Comes(c, m, k, a)'
    BY <1>1, <1>2 DEF Ladder
  <2>1. CASE k = top
    <3>1. a \in 1 .. Len(fs) /\ log'[k][a] = fs[a] /\ fs[a].kind = "ordered" /\ c = fs[a].ch
      BY <1>1, <2>1 DEF Waiting
    <3>2. CASE m < order_index[fs[a].ch]
      <4>1. fs[a].ch \in Channels /\ m \in 0 .. IndexMod - 1 /\ a \in Nat \ {0}
        BY <1>7, <3>1, Widths
      <4>. QED  BY <1>8, <2>1, <3>1, <3>2, <4>1
    <3>3. CASE ~(m < order_index[fs[a].ch])
      <4>1. PICK x \in 1 .. Len(fs) : /\ x < a /\ fs[x].kind = "ordered"
                                      /\ fs[x].ch = fs[a].ch /\ fs[x].idx = m
        BY <3>1, <3>3
      <4>2. Sooner(top, x, k, a) /\ c = fs[x].ch /\ m = fs[x].idx
        BY <2>1, <3>1, <4>1 DEF Sooner
      <4>. QED  BY <1>6, <4>1, <4>2
    <3>. QED  BY <3>2, <3>3
  <2>2. CASE k # top
    <3>1. k \in 1 .. Len(log) /\ k <= top
      BY <1>1, <2>2
    <3>2. log'[k] = log[k] /\ Waiting(k, a)
      BY <1>1, <1>3, <3>1
    <3>3. m < ordered_next[c] \/ Comes(c, m, k, a)
      BY <3>1, <3>2 DEF Ladder
    <3>. QED  BY <1>5, <3>1, <3>2, <3>3
  <2>. QED  BY <2>1, <2>2
<1>10. NextRung'
  <2>. SUFFICES ASSUME NEW c \in Channels, NEW m \in 0 .. IndexMod - 1, m < order_index'[c]
                PROVE  m < ordered_next[c] \/ Comes(c, m, top + 1, 1)'
    BY <1>1, <1>2 DEF NextRung
  <2>1. CASE m < order_index[c]
    <3>1. m < ordered_next[c] \/ Comes(c, m, top, 1)
      BY <2>1 DEF NextRung
    <3>2. top \in Int /\ top + 1 \in Int
      BY <1>1
    <3>. QED  BY <1>5, <3>1, <3>2
  <2>2. CASE ~(m < order_index[c])
    <3>1. PICK x \in 1 .. Len(fs) : fs[x].kind = "ordered" /\ fs[x].ch = c /\ fs[x].idx = m
      BY <2>2
    <3>2. Sooner(top, x, top + 1, 1)
      BY <1>1 DEF Sooner
    <3>. QED  BY <1>6, <3>1, <3>2
  <2>. QED  BY <2>1, <2>2
<1>. QED  BY <1>9, <1>10

-----------------------------------------------------------------------------
(* The invariant holds initially.                                          *)
LEMMA InOrderInitially == Init => InOrderInv
<1>. SUFFICES ASSUME Init PROVE InOrderInv
  OBVIOUS
<1>. USE DEF Init, SessionInit
<1>1. Queue
  <2>1. 0 % NumberMod = 0
    BY Widths
  <2>. QED  BY <2>1 DEF Queue, Taken
<1>2. SentInv /\ Undisturbed /\ Ladder /\ NextRung
  BY DEF SentInv, Undisturbed, Ladder, NextRung
<1>3. Outcome
  <2>1. \A c : Places(processed, c) = {}
    BY DEF Places
  <2>. QED  BY <2>1 DEF Outcome, InOrder, LastBefore
<1>4. PlainPast /\ PlainOnce /\ PlainHandled
  BY DEF PlainPast, PlainOnce, PlainHandled, Taken
<1>. QED  BY <1>1, <1>2, <1>3, <1>4 DEF InOrderInv

(* What the invariants say of numbers and places.                          *)
LEMMA QueueFacts ==
  ASSUME SessionInv, Queue
  PROVE  /\ Taken \in Nat /\ Len(network) \in Nat /\ Len(log) \in Nat
         /\ Len(log) = Taken + Len(network)
         /\ Taken <= Len(log)
<1>1. Taken \in Nat /\ Len(network) \in Nat
  BY LenProperties DEF SessionInv, ClientTyped, ServerTyped, Taken
<1>2. Len(log) = Taken + Len(network)
  BY DEF Queue
<1>. QED  BY <1>1, <1>2

(* A datagram that is sent is the last in the log and in the network.      *)
LEMMA QueueGrows ==
  ASSUME SessionInv, Queue, NEW fs \in Seq(SentFrame) \ {<<>>}, Send(fs),
         UNCHANGED sessionVars, pos = 0
  PROVE  Queue'
<1>. DEFINE d == [num |-> Len(log) % NumberMod, frames |-> fs]
<1>1. /\ Taken \in Nat /\ Len(network) \in Nat /\ Len(log) \in Nat
      /\ Len(log) = Taken + Len(network)
  BY QueueFacts
<1>2. Taken' = Taken /\ pos' = pos /\ next_expected_seq' = next_expected_seq
  BY DEF sessionVars, Taken
<1>3. /\ Len(log') = Len(log) + 1 /\ log'[Len(log) + 1] = fs
      /\ \A k \in 1 .. Len(log) : log'[k] = log[k]
  BY AppendProperties DEF Send, SessionInv, ClientTyped
<1>4. /\ Len(network') = Len(network) + 1 /\ network'[Len(network) + 1] = d
      /\ \A k \in 1 .. Len(network) : network'[k] = network[k]
  <2>1. d \in Datagram
    BY <1>1, ModuloRange, Widths DEF Datagram
  <2>2. network' = Append(network, d)
    BY DEF Send
  <2>. HIDE DEF d
  <2>. QED  BY <2>1, <2>2, AppendProperties DEF SessionInv, ClientTyped
<1>5. Len(log') = Taken' + Len(network')
  BY <1>1, <1>2, <1>3, <1>4
<1>6. ASSUME NEW i \in 1 .. Len(network) + 1
      PROVE  /\ network'[i].num = (Taken + (i - 1)) % NumberMod
             /\ network'[i].frames = log'[Taken + i]
  <2>1. CASE i = Len(network) + 1
    <3>1. Taken + (i - 1) = Len(log) /\ Taken + i = Len(log) + 1
      BY <1>1, <2>1
    <3>2. network'[i] = d /\ log'[Taken + i] = fs
      BY <1>3, <1>4, <2>1, <3>1
    <3>. QED  BY <3>1, <3>2
  <2>2. CASE i # Len(network) + 1
    <3>1. i \in 1 .. Len(network) /\ Taken + i \in 1 .. Len(log)
      BY <1>1, <2>2
    <3>. QED  BY <1>3, <1>4, <3>1 DEF Queue
  <2>. QED  BY <2>1, <2>2
<1>. QED  BY <1>2, <1>4, <1>5, <1>6 DEF Queue

(* What a step of the client keeps, if what it sends is as it should be.   *)
LEMMA InvariantGrows ==
  ASSUME SessionInv, InOrderInv, NEW fs \in Seq(SentFrame) \ {<<>>}, Send(fs),
         UNCHANGED sessionVars, pos = 0,
         order_index' \in [Channels -> Nat],
         \A c \in Channels : order_index[c] <= order_index'[c],
         Len(fs) <= MaxFrames,
         \A a \in 1 .. Len(fs) :
            /\ fs[a].kind # "sequenced" /\ ~fs[a].split
            /\ fs[a].kind = "ordered" => fs[a].idx < order_index'[fs[a].ch]
            /\ fs[a].kind \in WithoutOrder => fs[a].idx = Len(log) * MaxFrames + a,
         \A a \in 1 .. Len(fs) : fs[a].kind = "ordered" =>
            \A m \in 0 .. fs[a].idx - 1 :
               \/ m < order_index[fs[a].ch]
               \/ \E x \in 1 .. Len(fs) : /\ x < a /\ fs[x].kind = "ordered"
                                          /\ fs[x].ch = fs[a].ch /\ fs[x].idx = m,
         \A c \in Channels : \A m \in 0 .. IndexMod - 1 : m < order_index'[c] =>
            \/ m < order_index[c]
            \/ \E x \in 1 .. Len(fs) : fs[x].kind = "ordered" /\ fs[x].ch = c /\ fs[x].idx = m
  PROVE  InOrderInv'
<1>0. /\ Queue /\ SentInv /\ Ladder /\ NextRung /\ PlainHandled
      /\ ClientTyped /\ ServerTyped
      /\ Taken \in Nat /\ Len(log) \in Nat /\ Taken <= Len(log)
  BY QueueFacts DEF InOrderInv, SessionInv
<1>1. Queue'
  BY <1>0, QueueGrows
<1>2. /\ Len(log') = Len(log) + 1 /\ log'[Len(log) + 1] = fs
      /\ \A k \in 1 .. Len(log) : log'[k] = log[k]
  BY <1>0, AppendProperties DEF Send, ClientTyped
<1>3. SentInv'
  <2>. SUFFICES ASSUME NEW k \in 1 .. Len(log) + 1
                PROVE  /\ Len(log'[k]) <= MaxFrames
                       /\ \A a \in 1 .. Len(log'[k]) :
                            /\ log'[k][a].kind # "sequenced" /\ ~log'[k][a].split
                            /\ log'[k][a].kind = "ordered" =>
                                  log'[k][a].idx < order_index'[log'[k][a].ch]
                            /\ log'[k][a].kind \in WithoutOrder =>
                                  log'[k][a].idx = (k - 1) * MaxFrames + a
    BY <1>2 DEF SentInv, Counted, Whole
  <2>1. CASE k = Len(log) + 1
    <3>1. log'[k] = fs /\ k - 1 = Len(log)
      BY <1>0, <1>2, <2>1
    <3>. QED  BY <3>1
  <2>2. CASE k # Len(log) + 1
    <3>1. k \in 1 .. Len(log) /\ log'[k] = log[k]
      BY <1>0, <1>2, <2>2
    <3>2. ASSUME NEW a \in 1 .. Len(log[k]), log[k][a].kind = "ordered"
          PROVE  log[k][a].idx < order_index'[log[k][a].ch]
      <4>1. log[k][a].ch \in Channels /\ log[k][a].idx \in Nat
        BY <1>0, <3>1, LogType, FrameFields
      <4>2. log[k][a].idx < order_index[log[k][a].ch]
        BY <1>0, <3>1, <3>2 DEF SentInv, Counted, Whole
      <4>3. order_index[log[k][a].ch] \in Nat /\ order_index'[log[k][a].ch] \in Nat
        BY <1>0, <4>1 DEF ClientTyped
      <4>4. order_index[log[k][a].ch] <= order_index'[log[k][a].ch]
        BY <4>1
      <4>. QED  BY <4>1, <4>2, <4>3, <4>4
    <3>. QED  BY <1>0, <3>1, <3>2 DEF SentInv
  <2>. QED  BY <2>1, <2>2
<1>4. Ladder' /\ NextRung'
  BY <1>0, LadderGrows DEF Send
<1>5. Undisturbed' /\ Outcome' /\ PlainPast' /\ PlainOnce'
  BY DEF InOrderInv, Undisturbed, Outcome, PlainPast, PlainOnce, Taken, sessionVars
<1>6. PlainHandled'
  <2>1. Taken' = Taken /\ Coming' = Coming /\ processed' = processed
    BY DEF Taken, Coming, sessionVars
  <2>2. \A k \in 1 .. Taken : log'[k] = log[k]
    BY <1>0, <1>2
  <2>. QED  BY <1>0, <2>1, <2>2 DEF PlainHandled
<1>. QED  BY <1>1, <1>3, <1>4, <1>5, <1>6 DEF InOrderInv

(* A remainder is not greater than the number.                             *)
LEMMA ModuloBelow ==
  ASSUME NEW x \in Nat, NEW n \in Nat \ {0}
  PROVE  x % n \in Nat /\ x % n <= x /\ x % n < n
OBVIOUS

(* The frames of a new datagram have all indices from the client's next    *)
(* one on, up to the wrap.                                                 *)
LEMMA NewRungs ==
  ASSUME ClientTyped, NEW n \in Nat, NEW choice, NEW c \in Channels,
         NEW m \in 0 .. IndexMod - 1, order_index[c] <= m,
         m < order_index[c] + Before(choice, n, "ordered", c)
  PROVE  \E x \in 1 .. n : /\ FrameOf(choice, x).kind = "ordered"
                           /\ FrameOf(choice, x).ch = c
                           /\ FrameOf(choice, x).idx = m
<1>. DEFINE v == m - order_index[c]
<1>1. order_index[c] \in Nat /\ Before(choice, n, "ordered", c) \in Nat
  BY BeforeType DEF ClientTyped
<1>2. v \in Nat /\ v < Before(choice, n, "ordered", c) /\ order_index[c] + v = m
  BY <1>1
<1>. HIDE DEF v
<1>3. PICK x \in 1 .. n : /\ choice[x][1] = "ordered" /\ choice[x][2] = c
                          /\ Before(choice, x - 1, "ordered", c) = v
  BY <1>2, BeforeReaches
<1>4. m % IndexMod = m
  BY ModuloSmall, Widths
<1>5. FrameOf(choice, x).idx = (order_index[c] + v) % IndexMod
  BY <1>3 DEF FrameOf, WithoutOrder
<1>. QED  BY <1>2, <1>3, <1>4, <1>5 DEF FrameOf

(* The client sends new frames.                                            *)
LEMMA InOrderSendNew ==
  ASSUME GoodNetwork, SessionInv, InOrderInv, SendNew
  PROVE  InOrderInv'
<1>0. /\ ClientTyped /\ pos = 0 /\ UNCHANGED sessionVars /\ MaxFrames \in Nat
      /\ Len(log) \in Nat
  BY LogType, NetworkAssumption DEF SessionInv, SendNew, CanSend
<1>1. PICK n \in 1 .. MaxFrames : \E choice \in [1 .. n -> Offers] :
        /\ Send([i \in 1 .. n |-> FrameOf(choice, i)])
        /\ order_index' = [c \in Channels |->
                             order_index[c] + Before(choice, n, "ordered", c)]
  BY DEF SendNew
<1>2. PICK choice \in [1 .. n -> Offers] :
        /\ Send([i \in 1 .. n |-> FrameOf(choice, i)])
        /\ order_index' = [c \in Channels |->
                             order_index[c] + Before(choice, n, "ordered", c)]
  BY <1>1
<1>. DEFINE fs == [i \in 1 .. n |-> FrameOf(choice, i)]
<1>3. n \in Nat \ {0} /\ n <= MaxFrames
  BY <1>0
<1>4. fs \in Seq(SentFrame) \ {<<>>} /\ Len(fs) = n /\ \A i \in 1 .. n : fs[i] = FrameOf(choice, i)
  BY <1>0, <1>3, FrameOfType
<1>5. \A c \in Channels : /\ order_index[c] \in Nat
                          /\ Before(choice, n, "ordered", c) \in Nat
                          /\ order_index'[c] = order_index[c] + Before(choice, n, "ordered", c)
  BY <1>0, <1>2, <1>3, BeforeType DEF ClientTyped
<1>6. /\ order_index' \in [Channels -> Nat]
      /\ \A c \in Channels : order_index[c] <= order_index'[c]
  BY <1>2, <1>5
<1>. HIDE DEF fs
<1>7. ASSUME NEW a \in 1 .. n
      PROVE  /\ fs[a].kind # "sequenced" /\ ~fs[a].split
             /\ fs[a].ch \in Channels /\ fs[a].idx \in Nat
             /\ fs[a].kind = "ordered" =>
                  /\ fs[a].idx < IndexMod
                  /\ fs[a].idx <= order_index[fs[a].ch] + Before(choice, a - 1, "ordered", fs[a].ch)
                  /\ fs[a].idx < order_index'[fs[a].ch]
             /\ fs[a].kind \in WithoutOrder => fs[a].idx = Len(log) * MaxFrames + a
  <2>1. fs[a] = FrameOf(choice, a) /\ fs[a] \in SentFrame /\ choice[a] \in Offers
    BY <1>4, ElementOfSeq
  <2>2. fs[a].ch \in Channels /\ fs[a].idx \in Nat
    BY <2>1, FrameFields
  <2>3. fs[a].kind # "sequenced" /\ ~fs[a].split
    <3>1. choice[a][1] \in Kinds /\ choice[a][3] \in Splits
      BY <2>1 DEF Offers
    <3>2. choice[a][1] # "sequenced" /\ ~choice[a][3]
      BY <3>1 DEF GoodNetwork
    <3>. QED  BY <2>1, <3>2 DEF FrameOf
  <2>4. fs[a].kind \in WithoutOrder => fs[a].idx = Len(log) * MaxFrames + a
    BY <2>1 DEF FrameOf
  <2>5. ASSUME fs[a].kind = "ordered", NEW c, c = fs[a].ch
        PROVE  /\ fs[a].idx < IndexMod
               /\ fs[a].idx <= order_index[c] + Before(choice, a - 1, "ordered", c)
               /\ fs[a].idx < order_index'[c]
    <3>1. choice[a][1] = "ordered" /\ choice[a][2] = c
      BY <2>1, <2>5 DEF FrameOf
    <3>2. fs[a].idx = (order_index[c] + Before(choice, a - 1, "ordered", c)) % IndexMod
      BY <2>1, <2>5, <3>1 DEF FrameOf, WithoutOrder
    <3>3. a \in Nat \ {0} /\ a <= n
      BY <1>3
    <3>4. /\ Before(choice, a, "ordered", c) = Before(choice, a - 1, "ordered", c) + 1
          /\ Before(choice, a, "ordered", c) <= Before(choice, n, "ordered", c)
      BY <1>3, <3>1, <3>3, BeforeNext, BeforeMonotonic
    <3>5. /\ Before(choice, a - 1, "ordered", c) \in Nat
          /\ Before(choice, a, "ordered", c) \in Nat
      BY <3>3, BeforeType
    <3>6. order_index[c] \in Nat /\ Before(choice, n, "ordered", c) \in Nat
          /\ order_index'[c] = order_index[c] + Before(choice, n, "ordered", c)
      BY <1>5, <2>2, <2>5
    <3>. DEFINE q == order_index[c] + Before(choice, a - 1, "ordered", c)
    <3>7. q \in Nat /\ q < order_index'[c]
      BY <3>4, <3>5, <3>6
    <3>. HIDE DEF q
    <3>8. q % IndexMod <= q /\ q % IndexMod < IndexMod /\ q % IndexMod \in Nat
      BY <3>7, ModuloBelow, Widths
    <3>9. order_index'[c] \in Nat
      BY <3>6
    <3>10. fs[a].idx = q % IndexMod
      BY <3>2 DEF q
    <3>11. fs[a].idx <= q /\ fs[a].idx < order_index'[c]
      BY <3>7, <3>8, <3>9, <3>10
    <3>. QED  BY <3>8, <3>10, <3>11 DEF q
  <2>. QED  BY <2>2, <2>3, <2>4, <2>5
<1>8. ASSUME NEW a \in 1 .. n, fs[a].kind = "ordered", NEW m \in 0 .. fs[a].idx - 1,
             ~(m < order_index[fs[a].ch])
      PROVE  \E x \in 1 .. n : /\ x < a /\ fs[x].kind = "ordered"
                               /\ fs[x].ch = fs[a].ch /\ fs[x].idx = m
  <2>. DEFINE c == fs[a].ch
              b == Before(choice, a - 1, "ordered", c)
  <2>1. /\ c \in Channels /\ fs[a].idx \in Nat /\ fs[a].idx < IndexMod
        /\ fs[a].idx <= order_index[c] + b
    BY <1>7, <1>8
  <2>2. a - 1 \in Nat /\ a <= n /\ b \in Nat /\ order_index[c] \in Nat /\ IndexMod \in Nat
    <3>1. a - 1 \in Nat /\ a - 1 \in Int /\ a <= n
      BY <1>3
    <3>2. b \in Nat
      BY <3>1, BeforeType
    <3>3. order_index[c] \in Nat
      BY <1>5, <2>1
    <3>. QED  BY <3>1, <3>2, <3>3, Widths
  <2>. HIDE DEF c, b
  <2>3. m \in 0 .. IndexMod - 1 /\ order_index[c] <= m /\ m < order_index[c] + b
    BY <1>8, <2>1, <2>2 DEF c
  <2>4. PICK x \in 1 .. a - 1 : /\ FrameOf(choice, x).kind = "ordered"
                                /\ FrameOf(choice, x).ch = c
                                /\ FrameOf(choice, x).idx = m
    BY <1>0, <2>1, <2>2, <2>3, NewRungs DEF b
  <2>5. x \in 1 .. n /\ x < a
    BY <1>3, <2>2
  <2>. QED  BY <1>4, <2>4, <2>5 DEF c
<1>9. ASSUME NEW c \in Channels, NEW m \in 0 .. IndexMod - 1, m < order_index'[c],
             ~(m < order_index[c])
      PROVE  \E x \in 1 .. n : fs[x].kind = "ordered" /\ fs[x].ch = c /\ fs[x].idx = m
  <2>1. order_index[c] <= m /\ m < order_index[c] + Before(choice, n, "ordered", c)
    BY <1>5, <1>9, Widths
  <2>2. PICK x \in 1 .. n : /\ FrameOf(choice, x).kind = "ordered"
                            /\ FrameOf(choice, x).ch = c
                            /\ FrameOf(choice, x).idx = m
    BY <1>0, <1>3, <2>1, NewRungs
  <2>. QED  BY <1>4, <2>2
<1>10. Send(fs)
  BY <1>2 DEF fs
<1>11. \A a \in 1 .. Len(fs) :
            /\ fs[a].kind # "sequenced" /\ ~fs[a].split
            /\ fs[a].kind = "ordered" => fs[a].idx < order_index'[fs[a].ch]
            /\ fs[a].kind \in WithoutOrder => fs[a].idx = Len(log) * MaxFrames + a
  BY <1>4, <1>7
<1>12. \A a \in 1 .. Len(fs) : fs[a].kind = "ordered" =>
            \A m \in 0 .. fs[a].idx - 1 :
               \/ m < order_index[fs[a].ch]
               \/ \E x \in 1 .. Len(fs) : /\ x < a /\ fs[x].kind = "ordered"
                                          /\ fs[x].ch = fs[a].ch /\ fs[x].idx = m
  BY <1>4, <1>8
<1>13. \A c \in Channels : \A m \in 0 .. IndexMod - 1 : m < order_index'[c] =>
            \/ m < order_index[c]
            \/ \E x \in 1 .. Len(fs) : fs[x].kind = "ordered" /\ fs[x].ch = c /\ fs[x].idx = m
  BY <1>4, <1>9
<1>14. Len(fs) <= MaxFrames /\ fs \in Seq(SentFrame) \ {<<>>}
  BY <1>3, <1>4
<1>. QED  BY <1>0, <1>6, <1>10, <1>11, <1>12, <1>13, <1>14, InvariantGrows

(* The client sends an ordered frame again.                                *)
LEMMA InOrderSendAgain ==
  ASSUME SessionInv, InOrderInv, SendAgain
  PROVE  InOrderInv'
<1>0. /\ ClientTyped /\ SentInv /\ pos = 0 /\ UNCHANGED <<sessionVars, order_index>>
      /\ Len(log) \in Nat /\ MaxFrames \in Nat
  BY LogType, NetworkAssumption DEF SessionInv, InOrderInv, SendAgain, CanSend
<1>1. PICK f \in SentFrames : f.kind = "ordered" /\ Send(<<f>>)
  BY DEF SendAgain
<1>2. PICK k \in 1 .. Len(log) : f \in ToSet(log[k])
  BY DEF SentFrames
<1>3. log[k] \in Seq(SentFrame) /\ Len(log[k]) \in Nat \ {0}
  BY <1>0, LogType
<1>4. PICK a \in 1 .. Len(log[k]) : f = log[k][a]
  BY <1>2, <1>3 DEF ToSet
<1>5. /\ f \in SentFrame /\ f.ch \in Channels /\ f.idx \in Nat
      /\ ~f.split /\ f.idx < order_index[f.ch] /\ order_index[f.ch] \in Nat
  <2>1. f \in SentFrame /\ f.ch \in Channels /\ f.idx \in Nat
    BY <1>0, <1>4, LogType, FrameFields
  <2>2. ~f.split /\ f.idx < order_index[f.ch]
    BY <1>0, <1>1, <1>4 DEF SentInv, Counted, Whole
  <2>3. order_index[f.ch] \in Nat
    BY <1>0, <2>1 DEF ClientTyped
  <2>. QED  BY <2>1, <2>2, <2>3
<1>. DEFINE fs == <<f>>
<1>6. fs \in Seq(SentFrame) \ {<<>>} /\ Len(fs) = 1 /\ fs[1] = f
  BY <1>5
<1>7. 1 <= MaxFrames
  <2>1. Len(log[k]) <= MaxFrames
    BY <1>0 DEF SentInv
  <2>. QED  BY <1>0, <1>3, <2>1
<1>8. order_index' = order_index /\ order_index \in [Channels -> Nat]
  BY <1>0 DEF ClientTyped
<1>. HIDE DEF fs
<1>9. \A c \in Channels : order_index[c] <= order_index'[c]
  BY <1>8
<1>10. \A b \in 1 .. Len(fs) : fs[b] = f
  BY <1>6
<1>11. f.kind \notin WithoutOrder
  BY <1>1 DEF WithoutOrder
<1>12. \A m \in 0 .. f.idx - 1 : m < order_index[f.ch]
  BY <1>5
<1>13. Send(fs)
  BY <1>1 DEF fs
<1>14. \A b \in 1 .. Len(fs) :
            /\ fs[b].kind # "sequenced" /\ ~fs[b].split
            /\ fs[b].kind = "ordered" => fs[b].idx < order_index'[fs[b].ch]
            /\ fs[b].kind \in WithoutOrder => fs[b].idx = Len(log) * MaxFrames + b
  BY <1>1, <1>5, <1>8, <1>10, <1>11
<1>15. \A b \in 1 .. Len(fs) : fs[b].kind = "ordered" =>
            \A m \in 0 .. fs[b].idx - 1 :
               \/ m < order_index[fs[b].ch]
               \/ \E x \in 1 .. Len(fs) : /\ x < b /\ fs[x].kind = "ordered"
                                          /\ fs[x].ch = fs[b].ch /\ fs[x].idx = m
  BY <1>10, <1>12
<1>16. \A c \in Channels : \A m \in 0 .. IndexMod - 1 : m < order_index'[c] =>
            \/ m < order_index[c]
            \/ \E x \in 1 .. Len(fs) : fs[x].kind = "ordered" /\ fs[x].ch = c /\ fs[x].idx = m
  BY <1>8
<1>17. /\ UNCHANGED sessionVars /\ pos = 0
       /\ order_index' \in [Channels -> Nat] /\ Len(fs) <= MaxFrames
  BY <1>0, <1>6, <1>7, <1>8
<1>. QED  BY <1>6, <1>9, <1>13, <1>14, <1>15, <1>16, <1>17, InvariantGrows

-----------------------------------------------------------------------------
(* The loop reaches all frames but a tiny one at the end.                  *)
LEMMA ReachedAll ==
  ASSUME NEW fs \in Seq(SentFrame) \ {<<>>}
  PROVE  /\ Reached(fs) \in Seq(SentFrame)
         /\ \A b \in 1 .. Len(Reached(fs)) : b \in 1 .. Len(fs) /\ Reached(fs)[b] = fs[b]
         /\ \A a \in 1 .. Len(fs) :
              \/ a \in 1 .. Len(Reached(fs))
              \/ a = Len(fs) /\ fs[a].kind = "tiny"
<1>1. Len(fs) \in Nat \ {0}
  BY EmptySeq
<1>2. CASE fs[Len(fs)].kind = "tiny" /\ ~fs[Len(fs)].split
  <2>1. Reached(fs) = SubSeq(fs, 1, Len(fs) - 1)
    BY <1>2 DEF Reached
  <2>2. Len(Reached(fs)) = Len(fs) - 1
    <3>1. Len(fs) - 1 \in 0 .. Len(fs)
      BY <1>1
    <3>2. Len(SubSeq(fs, 1, Len(fs) - 1)) = Len(fs) - 1
      BY <3>1, PrefixType
    <3>. QED  BY <2>1, <3>2
  <2>3. \A a \in 1 .. Len(fs) : a \in 1 .. Len(fs) - 1 \/ a = Len(fs)
    BY <1>1
  <2>. QED  BY <1>2, <2>2, <2>3, ReachedFacts, ReachedType
<1>3. CASE ~(fs[Len(fs)].kind = "tiny" /\ ~fs[Len(fs)].split)
  BY <1>3, ReachedType DEF Reached
<1>. QED  BY <1>2, <1>3

(* The datagram that is delivered is the next of the log, and it has the   *)
(* expected number.                                                        *)
LEMMA NextDelivered ==
  ASSUME GoodNetwork, SessionInv, InOrderInv, Deliver
  PROVE  /\ Taken' = Taken + 1 /\ Taken < Len(log)
         /\ Queue'
         /\ missing_packets' = missing_packets
         /\ frames' = Reached(log[Taken + 1])
         /\ pos' = (IF Reached(log[Taken + 1]) = <<>> THEN 0 ELSE 1)
         /\ pos = 0
         /\ UNCHANGED <<log, order_index, ordered_next, oof, processed, status>>
<1>0. /\ ClientTyped /\ ServerTyped /\ Queue
      /\ Taken \in Nat /\ Len(network) \in Nat /\ Len(log) = Taken + Len(network)
  BY QueueFacts DEF SessionInv, InOrderInv
<1>1. PICK i \in 1 .. Len(network) :
        /\ i = 1 \/ MayReorder
        /\ process_packet(network[i].num, network[i].frames)
        /\ \/ network' = RemoveAt(network, i)
           \/ MayDuplicate
        /\ UNCHANGED <<log, order_index>>
  BY DEF Deliver
<1>2. /\ i = 1 /\ 1 \in 1 .. Len(network)
      /\ network' = RemoveAt(network, 1)
      /\ process_packet(network[1].num, network[1].frames)
      /\ UNCHANGED <<log, order_index>>
  BY <1>1 DEF GoodNetwork
<1>3. network[1].num = next_expected_seq /\ network[1].frames = log[Taken + 1]
  <2>1. Taken + (1 - 1) = Taken
    BY <1>0
  <2>. QED  BY <1>0, <1>2, <2>1 DEF Queue
<1>4. next_expected_seq \in Nat /\ next_expected_seq = Taken % NumberMod
  BY <1>0, Widths DEF Queue, ServerTyped
<1>5. ~IsLate(network[1].num) /\ Missed(network[1].num) = {}
  BY <1>3, <1>4 DEF IsLate, Missed
<1>6. /\ missing_packets' = missing_packets
      /\ next_expected_seq' = (next_expected_seq + 1) % NumberMod
      /\ accepted' = Append(accepted, network[1].num)
      /\ frames' = Reached(log[Taken + 1])
      /\ pos' = (IF Reached(log[Taken + 1]) = <<>> THEN 0 ELSE 1)
      /\ pos = 0
      /\ UNCHANGED <<ordered_next, oof, processed, status>>
  BY <1>2, <1>3, <1>5 DEF process_packet
<1>7. Taken' = Taken + 1
  <2>1. network[1].num \in 0 .. NumberMod - 1
    BY <1>0, <1>3 DEF ServerTyped
  <2>. QED  BY <1>0, <1>6, <2>1, AppendProperties DEF ServerTyped, Taken
<1>8. /\ Len(network') = Len(network) - 1
      /\ \A j \in 1 .. Len(network) - 1 : network'[j] = network[j + 1]
  <2>1. /\ Len(network') = Len(network) - 1
        /\ \A j \in 1 .. Len(network) - 1 : network'[j] = network[IF j < 1 THEN j ELSE j + 1]
    BY <1>0, <1>2, RemoveAtElements DEF ClientTyped
  <2>2. \A j \in 1 .. Len(network) - 1 : (IF j < 1 THEN j ELSE j + 1) = j + 1
    OBVIOUS
  <2>. QED  BY <2>1, <2>2
<1>9. next_expected_seq' = Taken' % NumberMod
  BY <1>0, <1>4, <1>6, <1>7, ModuloNext, Widths
<1>10. ASSUME NEW j \in 1 .. Len(network) - 1
       PROVE  /\ network'[j].num = ((Taken + 1) + (j - 1)) % NumberMod
              /\ network'[j].frames = log[(Taken + 1) + j]
  <2>1. /\ j + 1 \in 1 .. Len(network)
        /\ Taken + ((j + 1) - 1) = (Taken + 1) + (j - 1)
        /\ Taken + (j + 1) = (Taken + 1) + j
    BY <1>0
  <2>2. /\ network[j + 1].num = (Taken + ((j + 1) - 1)) % NumberMod
        /\ network[j + 1].frames = log[Taken + (j + 1)]
    BY <1>0, <2>1 DEF Queue
  <2>. QED  BY <1>8, <2>1, <2>2
<1>11. Len(log') = Taken' + Len(network')
  <2>1. Len(log') = Len(log)
    BY <1>2
  <2>2. (Taken + 1) + (Len(network) - 1) = Taken + Len(network)
    BY <1>0
  <2>. QED  BY <1>0, <1>7, <1>8, <2>1, <2>2
<1>12. Taken' > 0 /\ frames' = Reached(log'[Taken'])
  BY <1>0, <1>2, <1>6, <1>7
<1>13. Queue'
  BY <1>2, <1>7, <1>8, <1>9, <1>10, <1>11, <1>12 DEF Queue
<1>14. Taken < Len(log)
  BY <1>0, <1>2
<1>. QED  BY <1>2, <1>6, <1>7, <1>13, <1>14

(* Its ordered frames wait as before, its other frames are coming.         *)
LEMMA InOrderDeliver ==
  ASSUME GoodNetwork, SessionInv, InOrderInv, Deliver
  PROVE  InOrderInv'
<1>. DEFINE t == Taken + 1
            fs == log[t]
<1>1. /\ Taken' = t /\ Taken < Len(log)
      /\ Queue'
      /\ missing_packets' = missing_packets
      /\ frames' = Reached(fs)
      /\ pos' = (IF Reached(fs) = <<>> THEN 0 ELSE 1)
      /\ pos = 0
      /\ UNCHANGED <<log, order_index, ordered_next, oof, processed, status>>
  BY NextDelivered
<1>2. /\ ClientTyped /\ ServerTyped /\ SentInv /\ Ladder /\ NextRung /\ PlainHandled
      /\ Taken \in Nat /\ Len(log) \in Nat /\ MaxFrames \in Nat
  BY QueueFacts, NetworkAssumption DEF SessionInv, InOrderInv
<1>3. t \in 1 .. Len(log) /\ t \in Nat /\ t = Taken + 1
  BY <1>1, <1>2
<1>4. /\ fs \in Seq(SentFrame) \ {<<>>} /\ Len(fs) \in Nat
  BY <1>2, <1>3, LogType
<1>. HIDE DEF t
<1>5. /\ Reached(fs) \in Seq(SentFrame) /\ Len(Reached(fs)) \in Nat
      /\ \A b \in 1 .. Len(Reached(fs)) : b \in 1 .. Len(fs) /\ Reached(fs)[b] = fs[b]
      /\ \A a \in 1 .. Len(fs) :
           \/ a \in 1 .. Len(Reached(fs))
           \/ a = Len(fs) /\ fs[a].kind = "tiny"
  BY <1>4, ReachedAll, LenProperties
<1>6. \A a \in 1 .. Len(Reached(fs)) : pos' = 1 /\ a \in Coming'
  <2>. SUFFICES ASSUME NEW a \in 1 .. Len(Reached(fs)) PROVE pos' = 1 /\ a \in Coming'
    OBVIOUS
  <2>1. Reached(fs) # <<>>
    BY <1>5, EmptySeq
  <2>. QED  BY <1>1, <1>5, <2>1 DEF Coming
<1>7. SentInv'
  BY <1>1, <1>2 DEF SentInv, Counted
<1>8. Ladder' /\ NextRung'
  <2>1. ASSUME NEW k \in 1 .. Len(log), NEW a \in 1 .. Len(log[k])
        PROVE  Waiting(k, a)' <=> Waiting(k, a)
    <3>1. CASE k = t /\ log[k][a].kind = "ordered"
      <4>1. a \in 1 .. Len(Reached(fs))
        BY <1>5, <3>1
      <4>2. pos' = 1 /\ pos' <= a
        BY <1>5, <1>6, <4>1
      <4>. QED  BY <1>1, <1>2, <1>3, <3>1, <4>2 DEF Waiting
    <3>2. CASE k # t \/ log[k][a].kind # "ordered"
      BY <1>1, <1>2, <1>3, <3>2 DEF Waiting
    <3>. QED  BY <3>1, <3>2
  <2>2. /\ ordered_next \in [Channels -> Nat] /\ ordered_next' \in [Channels -> Nat]
        /\ \A c \in Channels : ordered_next[c] <= ordered_next'[c]
    BY <1>1, <1>2 DEF ServerTyped
  <2>. QED  BY <1>1, <1>2, <2>1, <2>2, LadderKept
<1>9. Undisturbed' /\ Outcome' /\ PlainOnce'
  BY <1>1 DEF InOrderInv, Undisturbed, Outcome, PlainOnce
<1>10. PlainPast'
  <2>. SUFFICES ASSUME NEW i \in 1 .. Len(processed), processed[i].kind \in WithoutOrder
                PROVE  processed[i].idx <= IF pos' = 0 THEN t * MaxFrames
                                           ELSE (t - 1) * MaxFrames + (pos' - 1)
    BY <1>1 DEF PlainPast
  <2>1. processed[i].idx <= Taken * MaxFrames
    BY <1>1 DEF InOrderInv, PlainPast
  <2>2. processed[i].idx \in Nat
    BY FrameFields DEF InOrderInv, Outcome
  <2>3. t - 1 = Taken /\ t * MaxFrames = Taken * MaxFrames + MaxFrames /\ Taken * MaxFrames \in Nat
    BY <1>2, <1>3
  <2>4. pos' \in {0, 1}
    BY <1>1
  <2>. QED  BY <1>2, <2>1, <2>2, <2>3, <2>4
<1>11. PlainHandled'
  <2>. SUFFICES ASSUME NEW k \in 1 .. t, NEW a \in 1 .. Len(log[k]),
                       log[k][a].kind \in WithoutOrder
                PROVE  \/ log[k][a] \in ToSet(processed)
                       \/ k = t /\ a \in Coming'
                       \/ log[k][a].kind = "tiny" /\ a = Len(log[k])
    BY <1>1 DEF PlainHandled
  <2>1. CASE k = t
    BY <1>5, <1>6, <2>1
  <2>2. CASE k # t
    <3>1. k \in 1 .. Taken
      BY <1>2, <1>3, <2>2
    <3>2. Coming = {}
      BY <1>1, <1>2, NoneComing
    <3>. QED  BY <1>2, <3>1, <3>2 DEF PlainHandled
  <2>. QED  BY <2>1, <2>2
<1>. QED  BY <1>1, <1>7, <1>8, <1>9, <1>10, <1>11 DEF InOrderInv

-----------------------------------------------------------------------------
(* The frame at hand is one the client sent, and not ahead of its turn.    *)
LEMMA FrameAtHand ==
  ASSUME SessionInv, InOrderInv, pos # 0, NEW f, f = frames[pos]
  PROVE  /\ Taken \in 1 .. Len(log)
         /\ pos \in 1 .. Len(frames) /\ pos \in 1 .. Len(log[Taken])
         /\ frames = Reached(log[Taken]) /\ f = log[Taken][pos]
         /\ f \in SentFrame /\ ~f.split /\ f.kind # "sequenced"
         /\ f.kind \in WithoutOrder => f.idx = (Taken - 1) * MaxFrames + pos
         /\ f.kind = "ordered" => f.idx <= ordered_next[f.ch]
<1>0. /\ ClientTyped /\ ServerTyped /\ Queue /\ SentInv /\ Ladder
      /\ Taken \in Nat /\ Len(log) \in Nat /\ Taken <= Len(log)
  BY QueueFacts DEF SessionInv, InOrderInv
<1>1. Taken \in 1 .. Len(log) /\ frames = Reached(log[Taken])
  BY <1>0 DEF Queue
<1>2. f \in SentFrame /\ pos \in 1 .. Len(frames)
  BY <1>0, AtHand
<1>3. log[Taken] \in Seq(SentFrame) \ {<<>>}
  BY <1>0, <1>1, LogType
<1>4. pos \in 1 .. Len(log[Taken]) /\ f = log[Taken][pos]
  BY <1>1, <1>2, <1>3, ReachedAll
<1>5. /\ ~f.split /\ f.kind # "sequenced"
      /\ f.kind \in WithoutOrder => f.idx = (Taken - 1) * MaxFrames + pos
  BY <1>0, <1>1, <1>4 DEF SentInv
<1>6. ASSUME f.kind = "ordered" PROVE f.idx <= ordered_next[f.ch]
  <2>. DEFINE n == ordered_next[f.ch]
  <2>1. n \in Nat /\ f.idx \in Nat
    BY <1>0, <1>2, FrameFields DEF ServerTyped
  <2>. SUFFICES ASSUME n < f.idx PROVE FALSE
    BY <2>1
  <2>2. Waiting(Taken, pos)
    BY <1>2, <1>4, <1>6 DEF Waiting
  <2>3. n \in 0 .. log[Taken][pos].idx - 1 /\ ~(n < ordered_next[log[Taken][pos].ch])
    BY <1>4, <2>1
  <2>4. Comes(f.ch, n, Taken, pos)
    <3>. HIDE DEF n
    <3>. QED  BY <1>0, <1>1, <1>4, <2>2, <2>3 DEF Ladder
  <2>5. PICK l \in 1 .. Len(log) : \E x \in 1 .. Len(log[l]) :
           Waiting(l, x) /\ Sooner(l, x, Taken, pos)
    BY <2>4 DEF Comes
  <2>6. PICK x \in 1 .. Len(log[l]) : Waiting(l, x) /\ Sooner(l, x, Taken, pos)
    BY <2>5
  <2>7. Len(log[l]) \in Nat
    BY <1>0, LogType
  <2>8. x \in Int /\ l \in Int /\ pos \in Int
    BY <1>0, <1>2, <2>7
  <2>. QED  BY <1>0, <2>6, <2>8 DEF Waiting, Sooner
<1>. QED  BY <1>1, <1>2, <1>4, <1>5, <1>6

(* One turn of the loop on such a frame.                                   *)
LEMMA Turn ==
  ASSUME SessionInv, InOrderInv, process_frame, NEW f, f = frames[pos]
  PROVE  /\ NextFrame /\ UNCHANGED <<oof, status>>
         /\ \/ /\ f.kind \in WithoutOrder
               /\ processed' = Append(processed, f)
               /\ ordered_next' = ordered_next
            \/ /\ f.kind = "ordered" /\ f.idx = ordered_next[f.ch]
               /\ processed' = Append(Append(processed, f), f)
               /\ ordered_next' = [ordered_next EXCEPT ![f.ch] = @ + 1]
            \/ /\ f.kind = "ordered" /\ f.idx < ordered_next[f.ch]
               /\ processed' = processed
               /\ ordered_next' = ordered_next
<1>. DEFINE Payload == Frame \cup {Garbage}
<1>0. /\ ServerTyped /\ pos # 0 /\ oof = <<>> /\ processed \in Seq(Payload)
  BY DEF SessionInv, ServerTyped, InOrderInv, Undisturbed, process_frame
<1>1. /\ f \in SentFrame /\ ~f.split /\ f.kind # "sequenced"
      /\ f.kind = "ordered" => f.idx <= ordered_next[f.ch]
  BY <1>0, FrameAtHand
<1>2. f \in Payload /\ f.ch \in Channels /\ f.idx \in Nat /\ ordered_next \in [Channels -> Nat]
  BY <1>0, <1>1, FrameFields DEF SentFrame, ServerTyped
<1>3. ordered_next[f.ch] \in Nat
  BY <1>2
<1>4. \/ PlainFrame(f) \/ OrderedInTurn(f) \/ OrderedLate(f)
      \/ f.kind = "ordered" /\ ordered_next[f.ch] < f.idx
  BY <1>1 DEF process_frame, Unhandled, SequencedAborts, SequencedFrame, OrderedEarly,
              OrderedClash
<1>. HIDE DEF Payload
<1>5. CASE PlainFrame(f)
  <2>1. /\ f.kind \in WithoutOrder /\ NextFrame
        /\ UNCHANGED <<ordered_next, oof, status>>
        /\ processed' = processed \o <<f>>
    BY <1>5 DEF PlainFrame, process_data
  <2>2. processed' = Append(processed, f)
    BY <1>0, <1>2, <2>1, AppendIsConcat
  <2>. QED  BY <2>1, <2>2
<1>6. CASE OrderedInTurn(f)
  <2>1. f.kind = "ordered" /\ f.idx = ordered_next[f.ch] /\ NextFrame /\ status' = status
    BY <1>6 DEF OrderedInTurn
  <2>2. DOMAIN oof = {} /\ KeyOf(f) \notin DOMAIN oof
    BY <1>0
  <2>3. /\ ordered_next' = [ordered_next EXCEPT ![f.ch] = @ + 1 + Len(<<>>)]
        /\ oof' = [k \in DOMAIN oof \ {KeyOf(f)} |-> oof[k]]
        /\ processed' = processed \o (<<f>> \o <<>> \o <<f>>)
    BY <1>6, <2>2 DEF OrderedInTurn, process_data
  <2>4. oof' = oof
    <3>1. [k \in {} |-> oof[k]] = <<>>
      OBVIOUS
    <3>2. DOMAIN oof \ {KeyOf(f)} = {}
      BY <2>2
    <3>. QED  BY <1>0, <2>3, <3>1, <3>2
  <2>5. ordered_next' = [ordered_next EXCEPT ![f.ch] = @ + 1]
    <3>1. Len(<<>>) = 0
      BY EmptySeq
    <3>2. ordered_next[f.ch] + 1 + 0 = ordered_next[f.ch] + 1
      BY <1>3
    <3>. QED  BY <2>3, <3>1, <3>2
  <2>6. processed' = Append(Append(processed, f), f)
    <3>1. <<f>> \in Seq(Payload)
      BY <1>2
    <3>2. <<f>> \o <<>> = <<f>>
      BY <3>1, ConcatEmptySeq
    <3>3. processed \o (<<f>> \o <<f>>) = (processed \o <<f>>) \o <<f>>
      BY <1>0, <3>1, ConcatAssociative
    <3>4. Append(processed, f) = processed \o <<f>> /\ Append(processed, f) \in Seq(Payload)
      BY <1>0, <1>2, AppendIsConcat, AppendProperties
    <3>5. Append(Append(processed, f), f) = Append(processed, f) \o <<f>>
      BY <1>2, <3>4, AppendIsConcat
    <3>. QED  BY <2>3, <3>2, <3>3, <3>4, <3>5
  <2>. QED  BY <2>1, <2>4, <2>5, <2>6
<1>7. CASE OrderedLate(f)
  BY <1>7 DEF OrderedLate
<1>8. CASE f.kind = "ordered" /\ ordered_next[f.ch] < f.idx
  BY <1>1, <1>2, <1>3, <1>8
<1>. QED  BY <1>4, <1>5, <1>6, <1>7, <1>8

(* What was processed stays, and the frame is put behind it: a frame       *)
(* without order once, another frame any number of times.                  *)
LEMMA TurnAppends ==
  ASSUME SessionInv, InOrderInv, process_frame, NEW f, f = frames[pos]
  PROVE  /\ Len(processed) \in Nat /\ Len(processed') \in Nat
         /\ Len(processed) <= Len(processed')
         /\ \A i \in 1 .. Len(processed) : processed'[i] = processed[i]
         /\ \A i \in 1 .. Len(processed') : i > Len(processed) => processed'[i] = f
         /\ f.kind \in WithoutOrder => Len(processed') = Len(processed) + 1
<1>. DEFINE Payload == Frame \cup {Garbage}
            s == Append(processed, f)
            t == Append(s, f)
<1>4. \/ processed' = s
      \/ f.kind \notin WithoutOrder /\ (processed' = t \/ processed' = processed)
  <2>1. f.kind = "ordered" => f.kind \notin WithoutOrder
    BY DEF WithoutOrder
  <2>. QED  BY Turn, <2>1
<1>1. processed \in Seq(Payload) /\ f \in Payload
  BY FrameAtHand DEF SessionInv, ServerTyped, SentFrame, process_frame
<1>. HIDE DEF Payload
<1>2. /\ s \in Seq(Payload) /\ Len(s) = Len(processed) + 1 /\ s[Len(processed) + 1] = f
      /\ \A i \in 1 .. Len(processed) : s[i] = processed[i]
      /\ Len(processed) \in Nat
  BY <1>1, AppendProperties, LenProperties
<1>. HIDE DEF s
<1>3. /\ Len(t) = Len(s) + 1 /\ t[Len(s) + 1] = f
      /\ \A i \in 1 .. Len(s) : t[i] = s[i]
  BY <1>1, <1>2, AppendProperties
<1>. HIDE DEF t
<1>5. CASE processed' = s
  BY <1>2, <1>5
<1>6. CASE f.kind \notin WithoutOrder /\ processed' = t
  <2>1. /\ Len(t) = Len(processed) + 2
        /\ \A i \in 1 .. Len(processed) : t[i] = processed[i]
        /\ \A i \in 1 .. Len(t) : i > Len(processed) => i = Len(processed) + 1 \/ i = Len(s) + 1
    BY <1>2, <1>3
  <2>2. t[Len(processed) + 1] = f
    BY <1>2, <1>3
  <2>. QED  BY <1>2, <1>3, <1>6, <2>1, <2>2
<1>7. CASE f.kind \notin WithoutOrder /\ processed' = processed
  BY <1>2, <1>7
<1>. QED  BY <1>4, <1>5, <1>6, <1>7

(* Of the ordered frames that waited all but this one wait on.             *)
LEMMA TurnWaiting ==
  ASSUME SessionInv, InOrderInv, process_frame,
         UNCHANGED <<log, accepted>>, NextFrame,
         NEW k \in 1 .. Len(log), NEW a \in 1 .. Len(log[k])
  PROVE  Waiting(k, a)' <=> Waiting(k, a) /\ ~(k = Taken /\ a = pos)
<1>. DEFINE fs == log[Taken]
<1>1. ServerTyped /\ ClientTyped /\ pos # 0 /\ Taken \in Nat
  BY QueueFacts DEF SessionInv, InOrderInv, process_frame
<1>2. Taken \in 1 .. Len(log) /\ pos \in 1 .. Len(frames) /\ frames = Reached(fs)
  BY <1>1, FrameAtHand
<1>3. fs \in Seq(SentFrame) \ {<<>>} /\ Len(log[k]) \in Nat
  BY <1>1, <1>2, LogType
<1>. HIDE DEF fs
<1>4. /\ Len(frames) \in Nat
      /\ \A b \in 1 .. Len(fs) : b \in 1 .. Len(frames) \/ fs[b].kind = "tiny"
  BY <1>1, <1>2, <1>3, ReachedAll, LenProperties DEF ServerTyped
<1>5. Taken' = Taken /\ log' = log
  BY DEF Taken
<1>6. CASE k = Taken
  <2>1. log[k] = fs
    BY <1>6 DEF fs
  <2>2. ASSUME log[k][a].kind = "ordered" PROVE a <= Len(frames)
    BY <1>4, <2>1, <2>2
  <2>3. CASE pos = Len(frames)
    <3>1. pos' = 0
      BY <2>3 DEF NextFrame
    <3>2. pos \in Int /\ a \in Int
      BY <1>2, <1>3, <1>4
    <3>. QED  BY <1>1, <1>5, <1>6, <2>2, <2>3, <3>1, <3>2 DEF Waiting
  <2>4. CASE pos # Len(frames)
    <3>1. pos' = pos + 1
      BY <2>4 DEF NextFrame
    <3>2. pos \in Nat /\ a \in Int
      BY <1>2, <1>3, <1>4
    <3>. QED  BY <1>1, <1>5, <1>6, <3>1, <3>2 DEF Waiting
  <2>. QED  BY <2>3, <2>4
<1>7. CASE k # Taken
  BY <1>5, <1>7 DEF Waiting
<1>. QED  BY <1>6, <1>7

(* The frame goes behind the last one of its channel.                      *)
LEMMA TurnOutcome ==
  ASSUME SessionInv, InOrderInv, process_frame
  PROVE  Outcome'
<1>. DEFINE Payload == Frame \cup {Garbage}
            f == frames[pos]
<1>1. /\ processed \in Seq(Payload) /\ Outcome
      /\ ordered_next \in [Channels -> Nat]
  BY DEF SessionInv, ServerTyped, InOrderInv
<1>2. f \in SentFrame /\ f \in Frame /\ f \in Payload /\ f.ch \in Channels /\ f.idx \in Nat
  BY FrameAtHand, FrameFields DEF SentFrame, process_frame
<1>3. f # Garbage
  BY <1>2, GarbageAssumption
<1>. HIDE DEF Payload, f
<1>4. \A i \in 1 .. Len(processed') : processed'[i] \in SentFrame
  <2>. SUFFICES ASSUME NEW i \in 1 .. Len(processed') PROVE processed'[i] \in SentFrame
    OBVIOUS
  <2>1. /\ Len(processed) \in Nat /\ Len(processed') \in Nat
        /\ \A j \in 1 .. Len(processed) : processed'[j] = processed[j]
        /\ i > Len(processed) => processed'[i] = f
    BY TurnAppends DEF f
  <2>2. CASE i > Len(processed)
    BY <1>2, <2>1, <2>2
  <2>3. CASE ~(i > Len(processed))
    BY <1>1, <2>1, <2>3 DEF Outcome
  <2>. QED  BY <2>2, <2>3
<1>5. ASSUME NEW c \in Channels
      PROVE  InOrder(processed', c) /\ LastBefore(processed', c, ordered_next'[c])
  <2>1. InOrder(processed, c) /\ LastBefore(processed, c, ordered_next[c])
    BY <1>1 DEF Outcome
  <2>2. CASE /\ f.kind \in WithoutOrder
             /\ processed' = Append(processed, f)
             /\ ordered_next' = ordered_next
    <3>1. ~IsOrdered(f, c)
      BY <2>2 DEF IsOrdered, WithoutOrder
    <3>. QED  BY <1>1, <1>2, <2>1, <2>2, <3>1, AppendOther
  <2>3. CASE /\ f.kind = "ordered" /\ f.idx = ordered_next[f.ch]
             /\ processed' = Append(Append(processed, f), f)
             /\ ordered_next' = [ordered_next EXCEPT ![f.ch] = @ + 1]
    <3>. DEFINE s == Append(processed, f)
    <3>0. s \in Seq(Payload)
      BY <1>1, <1>2, AppendProperties
    <3>1. CASE c = f.ch
      <4>1. IsOrdered(f, c) /\ ordered_next[c] = f.idx /\ ordered_next'[c] = f.idx + 1
        BY <1>1, <1>2, <1>3, <2>3, <3>1 DEF IsOrdered
      <4>2. f.idx \in {f.idx - 1, f.idx} /\ f.idx \in {(f.idx + 1) - 1, f.idx + 1} /\ f.idx + 1 \in Nat
        BY <1>2
      <4>3. LastBefore(processed, c, f.idx)
        BY <2>1, <4>1
      <4>4. InOrder(s, c) /\ LastBefore(s, c, f.idx + 1)
        BY <1>1, <1>2, <2>1, <4>1, <4>2, <4>3, AppendOrdered
      <4>. HIDE DEF s
      <4>5. InOrder(Append(s, f), c) /\ LastBefore(Append(s, f), c, f.idx + 1)
        BY <1>2, <3>0, <4>1, <4>2, <4>4, AppendOrdered
      <4>. QED  BY <2>3, <4>1, <4>5 DEF s
    <3>2. CASE c # f.ch
      <4>1. ~IsOrdered(f, c) /\ ordered_next'[c] = ordered_next[c]
        BY <1>1, <1>2, <2>3, <3>2 DEF IsOrdered
      <4>2. InOrder(s, c) /\ LastBefore(s, c, ordered_next[c])
        BY <1>1, <1>2, <2>1, <4>1, AppendOther
      <4>. HIDE DEF s
      <4>3. InOrder(Append(s, f), c) /\ LastBefore(Append(s, f), c, ordered_next[c])
        BY <1>2, <3>0, <4>1, <4>2, AppendOther
      <4>. QED  BY <2>3, <4>1, <4>3 DEF s
    <3>. QED  BY <3>1, <3>2
  <2>4. CASE processed' = processed /\ ordered_next' = ordered_next
    BY <2>1, <2>4
  <2>. QED  BY <2>2, <2>3, <2>4, Turn DEF f
<1>. QED  BY <1>4, <1>5 DEF Outcome

(* A frame without order has a higher place than those before it.          *)
LEMMA TurnPlain ==
  ASSUME SessionInv, InOrderInv, process_frame, UNCHANGED <<log, accepted>>
  PROVE  PlainPast' /\ PlainOnce' /\ PlainHandled'
<1>. DEFINE f == frames[pos]
            base == (Taken - 1) * MaxFrames
<1>1. /\ ServerTyped /\ ClientTyped /\ SentInv /\ PlainPast /\ PlainOnce /\ PlainHandled
      /\ Outcome /\ pos # 0 /\ Taken \in Nat
      /\ Taken' = Taken /\ log' = log
  BY QueueFacts DEF SessionInv, InOrderInv, process_frame, Taken
<1>2. /\ Taken \in 1 .. Len(log) /\ pos \in 1 .. Len(log[Taken])
      /\ f = log[Taken][pos] /\ f \in SentFrame
      /\ f.kind \in WithoutOrder => f.idx = base + pos
  BY <1>1, FrameAtHand
<1>3. NextFrame
  BY Turn
<1>4. /\ Len(processed) \in Nat /\ Len(processed') \in Nat
      /\ Len(processed) <= Len(processed')
      /\ \A i \in 1 .. Len(processed) : processed'[i] = processed[i]
      /\ \A i \in 1 .. Len(processed') : i > Len(processed) => processed'[i] = f
      /\ f.kind \in WithoutOrder => Len(processed') = Len(processed) + 1
  BY TurnAppends
<1>5. /\ base \in Nat /\ Taken * MaxFrames = base + MaxFrames
      /\ pos \in Nat \ {0} /\ pos <= MaxFrames /\ MaxFrames \in Nat
  <2>1. Len(log[Taken]) \in Nat /\ Len(log[Taken]) <= MaxFrames
    BY <1>1, <1>2, LogType DEF SentInv
  <2>2. MaxFrames \in Nat /\ Taken \in Nat \ {0}
    BY <1>1, <1>2, NetworkAssumption
  <2>. QED  BY <1>2, <2>1, <2>2
<1>6. pos' \in {0, pos + 1}
  BY <1>3 DEF NextFrame
<1>. HIDE DEF f
<1>7. ASSUME NEW i \in 1 .. Len(processed), processed[i].kind \in WithoutOrder
      PROVE  processed[i].idx \in Nat /\ processed[i].idx < base + pos
  <2>1. processed[i].idx <= base + (pos - 1)
    BY <1>1, <1>7 DEF PlainPast
  <2>2. processed[i].idx \in Nat
    BY <1>1, FrameFields DEF Outcome
  <2>. HIDE DEF base
  <2>. QED  BY <1>5, <2>1, <2>2
<1>8. PlainPast'
  <2>. SUFFICES ASSUME NEW i \in 1 .. Len(processed'), processed'[i].kind \in WithoutOrder
                PROVE  processed'[i].idx <= IF pos' = 0 THEN Taken * MaxFrames
                                            ELSE base + (pos' - 1)
    BY <1>1 DEF PlainPast
  <2>1. processed'[i].idx \in Nat /\ processed'[i].idx <= base + pos
    <3>1. CASE i \in 1 .. Len(processed)
      <4>1. processed'[i] = processed[i]
        BY <1>4, <3>1
      <4>2. processed[i].idx \in Nat /\ processed[i].idx < base + pos
        BY <1>7, <3>1, <4>1
      <4>. HIDE DEF base
      <4>. QED  BY <1>5, <4>1, <4>2
    <3>2. CASE i \notin 1 .. Len(processed)
      <4>1. processed'[i] = f
        BY <1>4, <3>2
      <4>. HIDE DEF base
      <4>. QED  BY <1>2, <1>5, <4>1
    <3>. QED  BY <3>1, <3>2
  <2>. HIDE DEF base
  <2>. QED  BY <1>5, <1>6, <2>1
<1>9. PlainOnce'
  <2>1. ASSUME NEW i \in 1 .. Len(processed'), NEW j \in 1 .. Len(processed'),
               processed'[i] = processed'[j], processed'[i].kind \in WithoutOrder,
               i \in 1 .. Len(processed), j \notin 1 .. Len(processed)
        PROVE  FALSE
    <3>1. processed'[i] = processed[i] /\ processed'[j] = f
      BY <1>4, <2>1
    <3>2. f.idx < base + pos /\ f.idx = base + pos
      BY <1>2, <1>7, <2>1, <3>1
    <3>. HIDE DEF base
    <3>. QED  BY <1>5, <3>2
  <2>2. ASSUME NEW i \in 1 .. Len(processed'), NEW j \in 1 .. Len(processed'),
               processed'[i] = processed'[j], processed'[i].kind \in WithoutOrder
        PROVE  i = j
    <3>1. CASE i \in 1 .. Len(processed) /\ j \in 1 .. Len(processed)
      <4>1. processed'[i] = processed[i] /\ processed'[j] = processed[j]
        BY <1>4, <3>1
      <4>. QED  BY <1>1, <2>2, <3>1, <4>1 DEF PlainOnce
    <3>2. CASE i \notin 1 .. Len(processed) /\ j \notin 1 .. Len(processed)
      <4>1. processed'[i] = f
        BY <1>4, <3>2
      <4>2. Len(processed') = Len(processed) + 1
        BY <1>4, <2>2, <4>1
      <4>. QED  BY <1>4, <3>2, <4>2
    <3>3. CASE i \in 1 .. Len(processed) /\ j \notin 1 .. Len(processed)
      BY <2>1, <2>2, <3>3
    <3>4. CASE i \notin 1 .. Len(processed) /\ j \in 1 .. Len(processed)
      BY <2>1, <2>2, <3>4
    <3>. QED  BY <3>1, <3>2, <3>3, <3>4
  <2>. QED  BY <2>2 DEF PlainOnce
<1>10. PlainHandled'
  <2>. SUFFICES ASSUME NEW k \in 1 .. Taken, NEW a \in 1 .. Len(log[k]),
                       log[k][a].kind \in WithoutOrder
                PROVE  \/ log[k][a] \in ToSet(processed')
                       \/ k = Taken /\ a \in Coming'
                       \/ log[k][a].kind = "tiny" /\ a = Len(log[k])
    BY <1>1 DEF PlainHandled
  <2>1. /\ ToSet(processed) \subseteq ToSet(processed')
        /\ f.kind \in WithoutOrder => f \in ToSet(processed')
    <3>1. /\ \A g \in ToSet(processed) : \E i \in 1 .. Len(processed) : g = processed[i]
          /\ \A i \in 1 .. Len(processed') : processed'[i] \in ToSet(processed')
      <4>1. DOMAIN processed = 1 .. Len(processed) /\ DOMAIN processed' = 1 .. Len(processed')
        <5>1. ServerTyped'
          BY FrameStep
        <5>. QED  BY <1>1, <5>1, LenProperties DEF ServerTyped
      <4>. QED  BY <4>1 DEF ToSet
    <3>2. 1 .. Len(processed) \subseteq 1 .. Len(processed')
      BY <1>4
    <3>3. ASSUME f.kind \in WithoutOrder PROVE f \in ToSet(processed')
      <4>1. Len(processed') \in 1 .. Len(processed') /\ Len(processed') > Len(processed)
        BY <1>4, <3>3
      <4>2. processed'[Len(processed')] = f
        BY <1>4, <4>1
      <4>. QED  BY <3>1, <4>1, <4>2
    <3>. QED  BY <1>4, <3>1, <3>2, <3>3
  <2>2. Coming' = Coming \ {pos}
    BY <1>1, <1>3, NextFrameComing
  <2>3. CASE k = Taken /\ a = pos
    BY <1>2, <2>1, <2>3
  <2>4. CASE ~(k = Taken /\ a = pos)
    BY <1>1, <2>1, <2>2, <2>4 DEF PlainHandled
  <2>. QED  BY <2>3, <2>4
<1>. QED  BY <1>8, <1>9, <1>10

(* The loop takes a frame.                                                 *)
LEMMA InOrderFrame ==
  ASSUME SessionInv, InOrderInv, ProcessFrame
  PROVE  InOrderInv'
<1>. DEFINE f == frames[pos]
<1>1. /\ process_frame /\ pos # 0 /\ ClientTyped /\ ServerTyped
      /\ Queue /\ SentInv /\ Undisturbed /\ Ladder /\ NextRung
      /\ UNCHANGED <<log, accepted, network, order_index, next_expected_seq, missing_packets>>
  BY DEF ProcessFrame, SessionInv, InOrderInv, process_frame, networkVars, numberVars
<1>2. /\ NextFrame /\ UNCHANGED <<oof, status>>
      /\ \/ /\ f.kind \in WithoutOrder
            /\ ordered_next' = ordered_next
         \/ /\ f.kind = "ordered" /\ f.idx = ordered_next[f.ch]
            /\ ordered_next' = [ordered_next EXCEPT ![f.ch] = @ + 1]
         \/ /\ f.kind = "ordered" /\ f.idx < ordered_next[f.ch]
            /\ ordered_next' = ordered_next
  BY <1>1, Turn
<1>3. /\ f \in SentFrame /\ f = log[Taken][pos] /\ f.ch \in Channels /\ f.idx \in Nat
      /\ ordered_next \in [Channels -> Nat]
  BY <1>1, FrameAtHand, FrameFields DEF ServerTyped
<1>. HIDE DEF f
<1>4. Queue'
  <2>1. Taken' = Taken
    BY <1>1 DEF Taken
  <2>2. pos' # 0 => frames' = frames
    BY <1>2 DEF NextFrame
  <2>. QED  BY <1>1, <2>1, <2>2 DEF Queue
<1>5. SentInv' /\ Undisturbed'
  BY <1>1, <1>2 DEF SentInv, Counted, Undisturbed
<1>6. Ladder' /\ NextRung'
  <2>1. /\ ordered_next' \in [Channels -> Nat]
        /\ \A c \in Channels : ordered_next[c] <= ordered_next'[c]
        /\ f.kind = "ordered" => f.idx < ordered_next'[f.ch]
    <3>1. CASE ordered_next' = [ordered_next EXCEPT ![f.ch] = @ + 1] /\ f.idx = ordered_next[f.ch]
      <4>1. \A c \in Channels : ordered_next'[c] = IF c = f.ch THEN ordered_next[c] + 1
                                                   ELSE ordered_next[c]
        BY <1>3, <3>1
      <4>2. \A c \in Channels : ordered_next[c] \in Nat
        BY <1>3
      <4>3. DOMAIN ordered_next' = Channels /\ ordered_next' = [c \in Channels |-> ordered_next'[c]]
        BY <1>3, <3>1
      <4>4. \A c \in Channels : ordered_next'[c] \in Nat /\ ordered_next[c] <= ordered_next'[c]
        BY <4>1, <4>2
      <4>5. ordered_next' \in [Channels -> Nat]
        BY <4>3, <4>4
      <4>. QED  BY <1>3, <3>1, <4>1, <4>4, <4>5
    <3>2. CASE ordered_next' = ordered_next /\ (f.kind = "ordered" => f.idx < ordered_next[f.ch])
      <4>1. \A c \in Channels : ordered_next[c] \in Nat
        BY <1>3
      <4>. QED  BY <1>3, <3>2, <4>1
    <3>3. f.kind \in WithoutOrder => f.kind # "ordered"
      BY DEF WithoutOrder
    <3>. QED  BY <1>2, <3>1, <3>2, <3>3
  <2>2. \A k \in 1 .. Len(log) : \A a \in 1 .. Len(log[k]) :
           Waiting(k, a)' <=> Waiting(k, a) /\ ~(k = Taken /\ a = pos)
    BY <1>1, <1>2, TurnWaiting
  <2>3. \A k \in 1 .. Len(log) : \A a \in 1 .. Len(log[k]) :
           Waiting(k, a) /\ ~Waiting(k, a)' => log[k][a].idx < ordered_next'[log[k][a].ch]
    <3>. SUFFICES ASSUME NEW k \in 1 .. Len(log), NEW a \in 1 .. Len(log[k]),
                         Waiting(k, a), ~Waiting(k, a)'
                  PROVE  log[k][a].idx < ordered_next'[log[k][a].ch]
      OBVIOUS
    <3>1. k = Taken /\ a = pos
      BY <2>2
    <3>2. log[k][a] = f /\ f.kind = "ordered"
      BY <1>3, <3>1 DEF Waiting
    <3>. QED  BY <2>1, <3>2
  <2>. QED  BY <1>1, <1>3, <2>1, <2>2, <2>3, LadderKept
<1>7. Outcome' /\ PlainPast' /\ PlainOnce' /\ PlainHandled'
  BY <1>1, TurnOutcome, TurnPlain
<1>. QED  BY <1>4, <1>5, <1>6, <1>7 DEF InOrderInv

(* Every step keeps the invariant.                                         *)
LEMMA InOrderStep ==
  ASSUME GoodNetwork
  PROVE  SessionInv /\ InOrderInv /\ [Next]_vars => InOrderInv'
<1>. SUFFICES ASSUME SessionInv, InOrderInv, [Next]_vars PROVE InOrderInv'
  OBVIOUS
<1>1. CASE SendNew
  BY <1>1, InOrderSendNew
<1>2. CASE SendAgain
  BY <1>2, InOrderSendAgain
<1>3. CASE Deliver
  BY <1>3, InOrderDeliver
<1>4. CASE Lose
  BY <1>4 DEF Lose, GoodNetwork
<1>5. CASE ProcessFrame
  BY <1>5, InOrderFrame
<1>6. CASE UNCHANGED <<next_expected_seq, missing_packets, ordered_next, oof, frames, pos,
                       processed, accepted, status, networkVars>>
  <2>1. Queue' /\ SentInv' /\ Undisturbed'
    BY <1>6 DEF InOrderInv, Queue, SentInv, Counted, Undisturbed, Taken, networkVars
  <2>2. Ladder' /\ NextRung'
    BY <1>6 DEF InOrderInv, Ladder, NextRung, Comes, Waiting, Taken, networkVars
  <2>3. Outcome' /\ PlainPast' /\ PlainOnce' /\ PlainHandled'
    BY <1>6 DEF InOrderInv, Outcome, PlainPast, PlainOnce, PlainHandled, Coming, Taken, networkVars
  <2>. QED  BY <2>1, <2>2, <2>3 DEF InOrderInv
<1>. QED
  <2>1. OtherTraffic \/ UNCHANGED vars =>
          UNCHANGED <<next_expected_seq, missing_packets, ordered_next, oof, frames, pos,
                      processed, accepted, status, networkVars>>
    BY DEF OtherTraffic, ReceiveElsewhere, vars, sessionVars
  <2>. QED  BY <1>1, <1>2, <1>3, <1>4, <1>5, <1>6, <2>1 DEF Next

(* The invariant, on a good network.                                       *)
THEOREM InOrderInvariant ==
  ASSUME GoodNetwork
  PROVE  Spec => []InOrderInv
<1>1. SessionInv /\ InOrderInv /\ [Next]_vars => InOrderInv'
  BY InOrderStep
<1>. QED  BY <1>1, InOrderInitially, SessionInvariant, PTL DEF Spec

(* On a network that keeps the order and loses and repeats nothing no      *)
(* number is taken for missing, nothing is kept aside and nothing ends the *)
(* process, however often the client sends an ordered frame again, and     *)
(* however often datagram numbers and indices wrap (process_packet and     *)
(* process_frame).                                                         *)
THEOREM NothingDisturbs ==
  ASSUME GoodNetwork
  PROVE  Spec => []Undisturbed
<1>1. InOrderInv => Undisturbed
  BY DEF InOrderInv
<1>. QED  BY <1>1, InOrderInvariant, PTL

(* On such a network the frames of a channel are processed in their order, *)
(* from the first and without a hole, each several times in a row          *)
(* (process_frame, ordered frames).                                        *)
THEOREM OrderedFramesInOrder ==
  ASSUME GoodNetwork
  PROVE  Spec => []OrderedInOrder
<1>1. InOrderInv => OrderedInOrder
  BY DEF InOrderInv, Outcome, InOrder, Places, OrderedInOrder
<1>. QED  BY <1>1, InOrderInvariant, PTL

(* On such a network no frame without order is processed twice             *)
(* (process_frame, the last process_data).                                 *)
THEOREM PlainFramesOnce ==
  ASSUME GoodNetwork
  PROVE  Spec => []PlainOnce
<1>1. InOrderInv => PlainOnce
  BY DEF InOrderInv
<1>. QED  BY <1>1, InOrderInvariant, PTL

(* On such a network, of the frames without order in the datagrams that    *)
(* were taken only a tiny one at the end of a datagram is not processed    *)
(* (the loop of process_packet).                                           *)
THEOREM TinyTailsOnly ==
  ASSUME GoodNetwork
  PROVE  Spec => []OnlyTinyTailsAreLost
<1>1. SessionInv /\ InOrderInv => OnlyTinyTailsAreLost
  <2>. SUFFICES ASSUME SessionInv, InOrderInv, pos = 0,
                       NEW i \in 1 .. Len(accepted), NEW f \in ToSet(log[i]),
                       f.kind \in WithoutOrder, f \notin ToSet(processed)
                PROVE  f.kind = "tiny" /\ f = Last(log[i])
    BY DEF OnlyTinyTailsAreLost
  <2>1. Coming = {} /\ ClientTyped /\ PlainHandled /\ i \in 1 .. Taken /\ i \in 1 .. Len(log)
    BY NoneComing, QueueFacts DEF SessionInv, InOrderInv, Taken
  <2>2. log[i] \in Seq(SentFrame)
    BY <2>1, LogType
  <2>3. PICK a \in 1 .. Len(log[i]) : f = log[i][a]
    BY <2>2, LenProperties DEF ToSet
  <2>4. f.kind = "tiny" /\ a = Len(log[i])
    BY <2>1, <2>3 DEF PlainHandled
  <2>. QED  BY <2>3, <2>4 DEF Last
<1>. QED  BY <1>1, InOrderInvariant, SessionInvariant, PTL
=============================================================================
