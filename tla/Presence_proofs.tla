--------------------------- MODULE Presence_proofs ---------------------------
(***************************************************************************)
(* Theorems about Duplex and its two components, for any channels and any  *)
(* numbers of calls, registrations and sockets.  PresenceBridge: its       *)
(* typing, that the bridge knows what the engine delivers to, that no      *)
(* channel is registered twice, and that a channel the presence layer      *)
(* asked for is served.  Sockets: the wrapper's readyState.  Duplex: over  *)
(* the socket the bridge is still the bridge.                              *)
(***************************************************************************)
EXTENDS Duplex, Presence, SequenceTheorems, TLAPS

Handle == [channel : Channels, reg : Nat]

(* The shape of the state, with the numbers left open.                     *)
Shape ==
    /\ handles \in Seq(Handle) /\ regs \in Seq(Channels)
    /\ pending \in [Channels -> Nat]
    /\ rejected \subseteq Channels
    /\ wanted \subseteq Channels /\ failed \subseteq Channels
    /\ last = None \/ last \in [channel : Channels, by : Nat, outstanding : BOOLEAN]
    /\ calls \in 0..MaxCalls

(* The bridge's numbers are those of registrations of the same channel.    *)
Numbered ==
    /\ \A i \in DOMAIN handles :
          handles[i].reg \in Reg /\ regs[handles[i].reg] = handles[i].channel
    /\ \A c \in Channels :
          pending[c] # 0 => pending[c] \in Reg /\ regs[pending[c]] = c
    /\ last # None => last.by \in 0..Len(regs)

(* A channel has one handle, or one promise, not both.                     *)
Apart ==
    /\ \A i, j \in DOMAIN handles : handles[i].channel = handles[j].channel => i = j
    /\ \A c \in Channels : pending[c] # 0 => ~Cached(c)

(* EngineAgrees by elements.                                               *)
Held(r) == \/ \E i \in DOMAIN handles : handles[i].reg = r
           \/ \E c \in Channels : pending[c] = r
Agree == live \subseteq Reg /\ \A r \in Reg : r \in live <=> Held(r)

(* What is wanted and was not refused has a handle or a promise.           *)
WantedIsKnown ==
    \A c \in wanted \ (failed \cup rejected) : Cached(c) \/ pending[c] # 0

IInv == Shape /\ Numbered /\ Apart /\ Agree /\ WantedIsKnown

(* What is left of a sequence when one element is taken out of it.         *)
LEMMA Removed ==
    ASSUME NEW S, NEW s \in Seq(S), NEW k \in 1..Len(s)
    PROVE  /\ RemoveAt(s, k) \in Seq(S)
           /\ Len(RemoveAt(s, k)) = Len(s) - 1
           /\ \A i \in 1..Len(s) - 1 :
                 RemoveAt(s, k)[i] = IF i < k THEN s[i] ELSE s[i + 1]
<1> DEFINE front == SubSeq(s, 1, k - 1)
           back == SubSeq(s, k + 1, Len(s))
<1>0. Len(s) \in Nat /\ k \in Nat /\ \A i \in 1..Len(s) : s[i] \in S
    OBVIOUS
<1>1. front \in Seq(S) /\ Len(front) = k - 1 /\ \A i \in 1..k - 1 : front[i] = s[i]
  <2>1. \A i \in 1..k - 1 : s[i] \in S
      BY <1>0
  <2>2. /\ front \in Seq(S)
        /\ Len(front) = IF 1 <= k - 1 THEN (k - 1) - 1 + 1 ELSE 0
        /\ \A i \in 1..(k - 1) - 1 + 1 : front[i] = s[1 + i - 1]
      BY <1>0, <2>1, SubSeqProperties
  <2> HIDE DEF front
  <2> QED BY <1>0, <2>2
<1>2. /\ back \in Seq(S) /\ Len(back) = Len(s) - k
      /\ \A i \in 1..Len(s) - k : back[i] = s[k + i]
  <2>1. \A i \in k + 1..Len(s) : s[i] \in S
      BY <1>0
  <2>2. /\ back \in Seq(S)
        /\ Len(back) = IF k + 1 <= Len(s) THEN Len(s) - (k + 1) + 1 ELSE 0
        /\ \A i \in 1..Len(s) - (k + 1) + 1 : back[i] = s[k + 1 + i - 1]
      BY <1>0, <2>1, SubSeqProperties
  <2> HIDE DEF back
  <2> QED BY <1>0, <2>2
<1>3. /\ front \o back \in Seq(S)
      /\ Len(front \o back) = Len(front) + Len(back)
      /\ \A i \in 1..Len(front) + Len(back) :
            (front \o back)[i] = IF i <= Len(front) THEN front[i] ELSE back[i - Len(front)]
    BY <1>1, <1>2, ConcatProperties
<1>4. RemoveAt(s, k) = front \o back
    BY DEF RemoveAt
<1> HIDE DEF front, back
<1>5. Len(RemoveAt(s, k)) = Len(s) - 1
  <2>1. (k - 1) + (Len(s) - k) = Len(s) - 1
      BY <1>0
  <2> QED BY ONLY <1>1, <1>2, <1>3, <1>4, <2>1
<1>6. ASSUME NEW i \in 1..Len(s) - 1
      PROVE  RemoveAt(s, k)[i] = IF i < k THEN s[i] ELSE s[i + 1]
  <2>1. CASE i < k
      BY <1>0, <1>1, <1>2, <1>3, <1>4, <2>1
  <2>2. CASE i >= k
    <3>1. i - (k - 1) \in 1..Len(s) - k /\ k + (i - (k - 1)) = i + 1
        BY <1>0, <2>2
    <3>2. /\ i \in 1..Len(front) + Len(back) /\ ~(i <= Len(front))
          /\ i - Len(front) = i - (k - 1)
        BY <1>0, <1>1, <1>2, <2>2
    <3>3. (front \o back)[i] = back[i - (k - 1)]
        BY <1>3, <3>2
    <3>4. back[i - (k - 1)] = s[i + 1]
        BY <1>2, <3>1
    <3> QED BY <1>0, <1>4, <2>2, <3>3, <3>4
  <2> QED BY <1>0, <2>1, <2>2
<1> QED BY <1>3, <1>4, <1>5, <1>6

LEMMA InitIInv == Init => IInv
<1> SUFFICES ASSUME Init PROVE IInv OBVIOUS
<1> USE BridgeAssumption DEF Init
<1>1. Shape
    BY DEF Shape
<1>2. Numbered /\ Apart /\ Agree /\ WantedIsKnown
    BY DEF Numbered, Apart, Agree, WantedIsKnown, Reg
<1> QED BY <1>1, <1>2 DEF IInv

(* A step that leaves the bridge's maps and the engine alone, and wants    *)
(* nothing new that is neither known nor refused.                          *)
LEMMA Quiet ==
    ASSUME IInv, UNCHANGED <<handles, pending, regs, live>>,
           rejected' \subseteq Channels, rejected \subseteq rejected',
           wanted' \subseteq Channels, failed' \subseteq Channels,
           calls' \in 0..MaxCalls,
           \/ UNCHANGED last
           \/ last' \in [channel : Channels, by : 0..Len(regs), outstanding : BOOLEAN],
           \A c \in wanted' \ (failed' \cup rejected') :
               Cached(c) \/ pending[c] # 0
    PROVE  IInv'
<1>1. Shape'
    BY DEF IInv, Shape
<1>2. Numbered' /\ Apart' /\ Agree'
    BY DEF IInv, Numbered, Apart, Agree, Held, Reg, Cached
<1>3. WantedIsKnown'
    BY DEF IInv, WantedIsKnown, Cached
<1> QED BY <1>1, <1>2, <1>3 DEF IInv

LEMMA RegisterIInv ==
    ASSUME IInv, NEW c \in Channels, Register(c)
    PROVE  IInv'
<1>0. PICK n \in Nat : n = Len(regs) + 1
    BY DEF IInv, Shape
<1>1. /\ Len(regs) \in Nat /\ n # 0 /\ n \notin Reg /\ n \notin live
      /\ regs' \in Seq(Channels) /\ Len(regs') = n /\ regs'[n] = c
      /\ Reg' = Reg \cup {n} /\ \A r \in Reg : regs'[r] = regs[r]
    BY <1>0 DEF IInv, Shape, Agree, Register, Reg
<1>2. /\ UNCHANGED <<handles, rejected, last>>
      /\ pending' = [pending EXCEPT ![c] = n] /\ live' = live \cup {n}
      /\ pending' \in [Channels -> Nat]
      /\ wanted' = wanted \cup {c} /\ failed' = failed \ {c}
      /\ calls' \in 0..MaxCalls
    BY <1>0, BridgeAssumption DEF Register, Call, IInv, Shape
<1>3. ~Cached(c) /\ pending[c] = 0
    BY DEF Register, Known, Busy
<1>4. Shape'
    BY <1>1, <1>2 DEF IInv, Shape
<1>5. Numbered'
  <2>1. last' # None => last'.by \in 0..Len(regs)'
    <3>1. 0..Len(regs) \subseteq 0..n
        BY <1>0, <1>1
    <3> QED BY <1>1, <1>2, <3>1 DEF IInv, Numbered
  <2>2. \A i \in DOMAIN handles' :
            handles'[i].reg \in Reg' /\ regs'[handles'[i].reg] = handles'[i].channel
      BY <1>1, <1>2 DEF IInv, Numbered
  <2>3. \A d \in Channels :
            pending'[d] # 0 => pending'[d] \in Reg' /\ regs'[pending'[d]] = d
      BY <1>1, <1>2 DEF IInv, Numbered, Shape
  <2> QED BY <2>1, <2>2, <2>3 DEF Numbered
<1>6. Apart'
    BY <1>2, <1>3 DEF IInv, Apart, Cached, Shape
<1>7. Agree'
  <2>1. \A r \in Reg : r # n /\ (Held(r)' <=> Held(r))
      BY <1>1, <1>2, <1>3 DEF IInv, Shape, Held, Reg
  <2>2. Held(n)'
    <3>1. pending'[c] = n
        BY <1>2 DEF IInv, Shape
    <3> QED BY <3>1 DEF Held
  <2>3. live' \subseteq Reg'
      BY <1>1, <1>2 DEF IInv, Agree
  <2>4. ASSUME NEW r \in Reg PROVE r \in live' <=> Held(r)'
      BY <1>2, <2>1 DEF IInv, Agree
  <2>5. n \in live' <=> Held(n)'
      BY <1>2, <2>2
  <2> QED BY <1>1, <2>3, <2>4, <2>5 DEF Agree
<1>8. WantedIsKnown'
    BY <1>1, <1>2 DEF IInv, WantedIsKnown, Shape, Cached
<1> QED BY <1>4, <1>5, <1>6, <1>7, <1>8 DEF IInv

LEMMA ResolveIInv ==
    ASSUME IInv, NEW c \in Channels, Resolve(c)
    PROVE  IInv'
<1> DEFINE h == [channel |-> c, reg |-> pending[c]]
           n == Len(handles) + 1
<1>1. /\ h \in Handle /\ Len(handles) \in Nat
      /\ handles' \in Seq(Handle) /\ Len(handles') = n
      /\ DOMAIN handles' = DOMAIN handles \cup {n} /\ n \notin DOMAIN handles
      /\ handles'[n] = h /\ \A i \in DOMAIN handles : handles'[i] = handles[i]
    BY DEF IInv, Shape, Resolve, Handle
<1>2. /\ pending[c] # 0 /\ pending' = [pending EXCEPT ![c] = 0]
      /\ pending' \in [Channels -> Nat]
      /\ UNCHANGED <<rejected, regs, live, wanted, failed, last, calls>>
    BY DEF Resolve, IInv, Shape
<1>3. h.channel = c /\ h.reg = pending[c]
    OBVIOUS
<1> HIDE DEF h, n
<1>4. Shape'
    BY <1>1, <1>2 DEF IInv, Shape
<1>5. Numbered'
    BY <1>1, <1>2, <1>3, SMTT(30) DEF IInv, Numbered, Shape, Reg
<1>6. Apart'
    BY <1>1, <1>2, <1>3 DEF IInv, Apart, Shape, Cached
<1>7. Agree'
  <2>0. /\ \A d \in Channels \ {c} : pending'[d] = pending[d]
        /\ pending'[c] = 0 /\ \A r \in Reg : r # 0
      BY <1>2 DEF IInv, Shape, Reg
  <2>1. ASSUME NEW r \in Reg, Held(r) PROVE Held(r)'
    <3>1. CASE \E i \in DOMAIN handles : handles[i].reg = r
        BY <1>1, <3>1 DEF Held
    <3>2. CASE pending[c] = r
        BY <1>1, <1>3, <3>2 DEF Held
    <3>3. CASE \E d \in Channels \ {c} : pending[d] = r
        BY <2>0, <3>3 DEF Held
    <3> QED BY <2>1, <3>1, <3>2, <3>3 DEF Held
  <2>2. ASSUME NEW r \in Reg, Held(r)' PROVE Held(r)
    <3>1. CASE \E i \in DOMAIN handles' : handles'[i].reg = r
        BY <1>1, <1>3, <3>1 DEF Held
    <3>2. CASE \E d \in Channels : pending'[d] = r
        BY <2>0, <3>2 DEF Held
    <3> QED BY <2>2, <3>1, <3>2 DEF Held
  <2> QED BY <1>2, <2>1, <2>2 DEF IInv, Agree, Reg
<1>8. WantedIsKnown'
  <2>1. \A d \in Channels : Cached(d) => Cached(d)'
      BY <1>1 DEF Cached
  <2>2. Cached(c)'
      BY <1>1, <1>3 DEF Cached
  <2>3. \A d \in Channels \ {c} : pending'[d] = pending[d]
      BY <1>2 DEF IInv, Shape
  <2> QED BY <1>2, <2>1, <2>2, <2>3 DEF IInv, WantedIsKnown, Shape
<1> QED BY <1>4, <1>5, <1>6, <1>7, <1>8 DEF IInv

LEMMA RejectIInv ==
    ASSUME IInv, NEW c \in Channels, Reject(c)
    PROVE  IInv'
<1>1. /\ pending[c] # 0 /\ pending' = [pending EXCEPT ![c] = 0]
      /\ pending' \in [Channels -> Nat]
      /\ live' = live \ {pending[c]} /\ failed' = failed \cup {c}
      /\ UNCHANGED <<handles, rejected, regs, wanted, last, calls>>
    BY DEF Reject, IInv, Shape
<1>2. Shape'
    BY <1>1 DEF IInv, Shape
<1>3. Numbered' /\ Apart'
    BY <1>1 DEF IInv, Shape, Numbered, Apart, Reg, Cached
<1>4. Agree'
  <2>1. \A r \in Reg : Held(r)' <=> Held(r) /\ r # pending[c]
    <3>1. \A i \in DOMAIN handles : handles[i].reg # pending[c]
        BY <1>1 DEF IInv, Numbered, Apart, Cached
    <3>2. \A d \in Channels \ {c} : pending[d] # pending[c]
        BY <1>1 DEF IInv, Numbered
    <3> QED BY <1>1, <3>1, <3>2 DEF Held, IInv, Shape, Reg
  <2> QED BY <1>1, <2>1 DEF IInv, Agree, Reg
<1>5. WantedIsKnown'
    BY <1>1 DEF IInv, WantedIsKnown, Shape, Cached
<1> QED BY <1>2, <1>3, <1>4, <1>5 DEF IInv

LEMMA UnregisterIInv ==
    ASSUME IInv, NEW c \in Channels, Unregister(c), Cached(c)
    PROVE  IInv'
<1> DEFINE k == Entry(c)
           Old(i) == IF i < k THEN i ELSE i + 1
<1>1. k \in DOMAIN handles /\ handles[k].channel = c
    BY DEF Cached, Entry
<1>2. handles \in Seq(Handle) /\ k \in 1..Len(handles) /\ Len(handles) \in Nat
    BY <1>1 DEF IInv, Shape
<1>3. /\ handles' = RemoveAt(handles, k) /\ live' = live \ {handles[k].reg}
      /\ wanted' = wanted \ {c} /\ calls' \in 0..MaxCalls
      /\ UNCHANGED <<pending, rejected, regs, failed, last>>
    BY BridgeAssumption DEF Unregister, HandleOf, Call, IInv, Shape
<1> HIDE DEF k
<1>4. /\ handles' \in Seq(Handle) /\ DOMAIN handles' = 1..Len(handles) - 1
      /\ \A i \in DOMAIN handles' : handles'[i] = handles[Old(i)]
  <2>1. /\ handles' \in Seq(Handle) /\ Len(handles') = Len(handles) - 1
        /\ \A i \in 1..Len(handles) - 1 :
              handles'[i] = IF i < k THEN handles[i] ELSE handles[i + 1]
      BY <1>2, <1>3, Removed
  <2>2. DOMAIN handles' = 1..Len(handles) - 1
      BY <2>1
  <2> QED BY <2>1, <2>2
<1>5. /\ \A i \in DOMAIN handles' : Old(i) \in DOMAIN handles \ {k}
      /\ \A i, j \in DOMAIN handles' : Old(i) = Old(j) => i = j
      /\ \A j \in DOMAIN handles \ {k} : \E i \in DOMAIN handles' : Old(i) = j
  <2>1. DOMAIN handles = 1..Len(handles)
      BY <1>2
  <2>2. ASSUME NEW j \in DOMAIN handles \ {k}
        PROVE  \E i \in DOMAIN handles' : Old(i) = j
    <3>1. CASE j < k
      <4>1. j \in DOMAIN handles' /\ Old(j) = j
          BY <1>2, <1>4, <2>1, <3>1
      <4> QED BY <4>1
    <3>2. CASE j > k
      <4>1. j - 1 \in DOMAIN handles' /\ Old(j - 1) = j
          BY <1>2, <1>4, <2>1, <3>2
      <4> QED BY <4>1
    <3> QED BY <1>2, <2>1, <3>1, <3>2
  <2> QED BY <1>2, <1>4, <2>1, <2>2
<1> HIDE DEF Old
<1>6. Shape'
    BY <1>3, <1>4 DEF IInv, Shape
<1>7. Numbered'
  <2>1. \A i \in DOMAIN handles' :
            handles'[i].reg \in Reg /\ regs[handles'[i].reg] = handles'[i].channel
      BY <1>4, <1>5 DEF IInv, Numbered
  <2> QED BY <1>3, <2>1 DEF IInv, Numbered, Reg
<1>8. Apart'
  <2>1. \A i, j \in DOMAIN handles' : handles'[i].channel = handles'[j].channel => i = j
      BY <1>4, <1>5 DEF IInv, Apart
  <2>2. \A d \in Channels : Cached(d)' => Cached(d)
      BY <1>4, <1>5 DEF Cached
  <2> QED BY <1>3, <2>1, <2>2 DEF IInv, Apart
<1>9. Agree'
  <2>1. \A r \in Reg : (\E i \in DOMAIN handles' : handles'[i].reg = r) <=>
            r # handles[k].reg /\ \E j \in DOMAIN handles : handles[j].reg = r
    <3>1. \A j \in DOMAIN handles \ {k} : handles[j].reg # handles[k].reg
        BY <1>1 DEF IInv, Numbered, Apart
    <3>2. ASSUME NEW r \in Reg, NEW i \in DOMAIN handles', handles'[i].reg = r
          PROVE  r # handles[k].reg /\ \E j \in DOMAIN handles : handles[j].reg = r
        BY <1>4, <1>5, <3>1, <3>2
    <3>3. ASSUME NEW r \in Reg, NEW j \in DOMAIN handles, handles[j].reg = r, r # handles[k].reg
          PROVE  \E i \in DOMAIN handles' : handles'[i].reg = r
      <4>1. PICK i \in DOMAIN handles' : Old(i) = j
          BY <1>5, <3>3
      <4> QED BY <1>4, <3>3, <4>1
    <3> QED BY <3>2, <3>3
  <2>2. \A d \in Channels : pending[d] # handles[k].reg
    <3>1. handles[k].reg # 0 /\ regs[handles[k].reg] = c
        BY <1>1 DEF IInv, Numbered, Reg
    <3>2. ASSUME NEW d \in Channels, pending[d] = handles[k].reg
          PROVE  FALSE
      <4>1. d = c
          BY <3>1, <3>2 DEF IInv, Numbered
      <4> QED BY <3>1, <3>2, <4>1 DEF IInv, Apart
    <3> QED BY <3>2
  <2>3. \A r \in Reg : Held(r)' <=> Held(r) /\ r # handles[k].reg
      BY <1>3, <2>1, <2>2 DEF Held
  <2> QED BY <1>3, <2>3 DEF IInv, Agree, Reg
<1>10. WantedIsKnown'
  <2>1. \A d \in Channels \ {c} : Cached(d) => Cached(d)'
    <3>1. ASSUME NEW d \in Channels \ {c}, NEW j \in DOMAIN handles, handles[j].channel = d
          PROVE  \E i \in DOMAIN handles' : handles'[i].channel = d
      <4>1. j \in DOMAIN handles \ {k}
          BY <1>1, <3>1
      <4>2. PICK i \in DOMAIN handles' : Old(i) = j
          BY <1>5, <4>1
      <4> QED BY <1>4, <3>1, <4>2
    <3> QED BY <3>1 DEF Cached
  <2> QED BY <1>3, <2>1 DEF IInv, WantedIsKnown, Shape
<1> QED BY <1>6, <1>7, <1>8, <1>9, <1>10 DEF IInv

LEMMA NextIInv == IInv /\ [Next]_vars => IInv'
<1> SUFFICES ASSUME IInv, [Next]_vars PROVE IInv' OBVIOUS
<1>0. /\ rejected \subseteq Channels /\ wanted \subseteq Channels /\ failed \subseteq Channels
      /\ calls \in 0..MaxCalls /\ MaxCalls \in Nat
    BY BridgeAssumption DEF IInv, Shape
<1>1. CASE UNCHANGED vars
    BY <1>0, <1>1, Quiet DEF vars, closure, IInv, WantedIsKnown
<1>2. ASSUME NEW c \in Channels, RegisterKnown(c) PROVE IInv'
    BY <1>0, <1>2, Quiet DEF RegisterKnown, Known, Busy, Call, closure, IInv, WantedIsKnown
<1>3. ASSUME NEW c \in Channels, RegisterThrows(c) PROVE IInv'
    BY <1>0, <1>3, Quiet DEF RegisterThrows, Call, IInv, WantedIsKnown
<1>4. ASSUME NEW c \in Channels, Unregister(c), ~Cached(c) PROVE IInv'
    BY <1>0, <1>4, Quiet DEF Unregister, Call, IInv, WantedIsKnown
<1>5. ASSUME NEW c \in Channels, Send(c) PROVE IInv'
  <2>1. SendBy(c) \in 0..Len(regs)
    <3>1. ASSUME NEW i \in DOMAIN handles PROVE handles[i].reg \in 0..Len(regs)
        BY DEF IInv, Numbered, Reg
    <3>2. handles # <<>> => 1 \in DOMAIN handles
        BY DEF IInv, Shape
    <3>3. Cached(c) => Entry(c) \in DOMAIN handles
        BY DEF Cached, Entry
    <3>4. 0 \in 0..Len(regs)
        BY DEF IInv, Shape
    <3> QED BY <3>1, <3>2, <3>3, <3>4 DEF SendBy, HandleOf
  <2>2. last' \in [channel : Channels, by : 0..Len(regs), outstanding : BOOLEAN]
      BY <1>5, <2>1 DEF Send
  <2> QED BY <1>0, <1>5, <2>2, Quiet DEF Send, Call, closure, IInv, WantedIsKnown
<1> QED BY <1>1, <1>2, <1>3, <1>4, <1>5, RegisterIInv, ResolveIInv, RejectIInv,
           UnregisterIInv DEF Next

(* The invariant of the bridge and the engine, for any order of their steps. *)
THEOREM Invariance == Spec => []IInv
BY InitIInv, NextIInv, PTL DEF Spec

(* The shape of the state: in particular one handle per channel, with the  *)
(* number of a registration that was asked for.                            *)
THEOREM TypeCorrect == Spec => []TypeOK
<1>1. IInv => TypeOK
  <2> SUFFICES ASSUME IInv PROVE TypeOK OBVIOUS
  <2>1. handles \in Seq([channel : Channels, reg : Reg])
    <3>1. /\ handles \in Seq(Handle) /\ Len(handles) \in Nat
          /\ DOMAIN handles = 1..Len(handles)
        BY DEF IInv, Shape
    <3>2. ASSUME NEW i \in 1..Len(handles)
          PROVE  handles[i] \in [channel : Channels, reg : Reg]
      <4>1. handles[i] \in Handle
          BY <3>1
      <4>2. handles[i].reg \in Reg
          BY <3>1 DEF IInv, Numbered
      <4> QED BY <4>1, <4>2 DEF Handle
    <3>3. handles = [i \in 1..Len(handles) |-> handles[i]]
        BY <3>1
    <3> HIDE DEF IInv
    <3>4. [i \in 1..Len(handles) |-> handles[i]] \in Seq([channel : Channels, reg : Reg])
        BY <3>1, <3>2, IsASeq
    <3> QED BY <3>3, <3>4
  <2>2. pending \in [Channels -> 0..Len(regs)]
    <3>1. \A c \in Channels : pending[c] \in 0..Len(regs)
        BY DEF IInv, Shape, Numbered, Reg
    <3> QED BY <3>1 DEF IInv, Shape
  <2>3. last = None \/ last \in [channel : Channels, by : 0..Len(regs), outstanding : BOOLEAN]
      BY DEF IInv, Shape, Numbered
  <2> QED BY <2>1, <2>2, <2>3 DEF IInv, Shape, Apart, Agree, TypeOK
<1> QED BY <1>1, Invariance, PTL

(* What the engine delivers to is what the bridge can still drop or send   *)
(* by: no registration is forgotten, however calls and answers interleave. *)
THEOREM BridgeKnowsEngine == Spec => []EngineAgrees
<1>1. IInv => EngineAgrees
  <2> SUFFICES ASSUME IInv PROVE EngineAgrees OBVIOUS
  <2>1. {h.reg : h \in Range(handles)} = {handles[i].reg : i \in DOMAIN handles}
      BY DEF Range
  <2>2. \A r \in Reg : r # 0
      BY DEF Reg
  <2>3. \A r : Held(r) /\ r # 0 => r \in Reg
      BY DEF IInv, Held, Numbered
  <2> QED BY <2>1, <2>2, <2>3 DEF IInv, Agree, Held, EngineAgrees
<1> QED BY <1>1, Invariance, PTL

(* The engine never has two registrations of a channel.                    *)
THEOREM HeardOnce == Spec => []OnePerChannel
<1>1. IInv => OnePerChannel
  <2> SUFFICES ASSUME IInv, NEW r \in live, NEW s \in live, regs[r] = regs[s]
               PROVE  r = s
      BY DEF OnePerChannel
  <2>1. r \in Reg /\ s \in Reg /\ r # 0 /\ s # 0 /\ Held(r) /\ Held(s)
      BY DEF IInv, Agree, Reg
  <2> QED BY <2>1 DEF IInv, Held, Numbered, Apart, Cached
<1> QED BY <1>1, Invariance, PTL

(* A channel the presence layer asked for is registered or about to be,    *)
(* unless the engine refused the last request, or threw.                   *)
THEOREM AskedIsServed == Spec => []WantedIsServed
<1>1. IInv => WantedIsServed
  <2> SUFFICES ASSUME IInv, NEW c \in wanted \ (failed \cup rejected)
               PROVE  \E r \in live : regs[r] = c
      BY DEF WantedIsServed
  <2>1. c \in Channels /\ (Cached(c) \/ pending[c] # 0)
      BY DEF IInv, Shape, WantedIsKnown
  <2>2. CASE Cached(c)
    <3>1. PICK i \in DOMAIN handles : handles[i].channel = c
        BY <2>2 DEF Cached
    <3> QED BY <3>1 DEF IInv, Numbered, Agree, Held
  <2>3. CASE pending[c] # 0
      BY <2>1, <2>3 DEF IInv, Numbered, Agree, Held
  <2> QED BY <2>1, <2>2, <2>3
<1> QED BY <1>1, Invariance, PTL

-----------------------------------------------------------------------------
(* What the wrapper says of its socket, by the state of the socket: before *)
(* the handshake is over it has heard nothing, and it says closed only     *)
(* when no event can follow.                                               *)
Copies ==
    /\ sock.inner = "none" => sock.ready = CLOSED
    /\ sock.inner \in {"connecting", "refused"} => sock.ready = CONNECTING
    /\ sock.inner = "open" => sock.ready = OPEN
    /\ sock.inner = "closing" => sock.ready \in {OPEN, CLOSING}
    /\ sock.inner = "closed" => sock.ready \in {CLOSING, CLOSED}

SocketInv ==
    /\ SocketTypeOK
    /\ Copies
    /\ sock.heard \in {OPEN, CLOSING, NoMessage}

LEMMA InitSocketInv == DuplexInit => SocketInv
BY SocketAssumption DEF DuplexInit, SocketInit, SocketInv, SocketTypeOK, Copies,
       CONNECTING, OPEN, CLOSING, CLOSED, NoMessage

(* No step of the bridge touches the socket.                               *)
LEMMA BridgeLeavesSocket == Bridge => UNCHANGED socket
BY DEF Bridge

(* An event that leaves the wrapper with a state its socket may have.      *)
LEMMA EventSocketInv ==
    ASSUME SocketInv, NEW from, NEW inner, NEW said, Event(from, inner, said),
           inner \in {"open", "refused", "closing", "closed"}, said \in CONNECTING..CLOSED,
           inner = "refused" => said = CONNECTING,
           inner = "open" => said = OPEN,
           inner = "closing" => said \in {OPEN, CLOSING},
           inner = "closed" => said \in {CLOSING, CLOSED}
    PROVE  SocketInv'
<1> USE DEF CONNECTING, OPEN, CLOSING, CLOSED, NoMessage
<1>1. /\ sock' = [ready |-> said, inner |-> inner, cookies |-> sock.cookies,
                  heard |-> sock.heard]
      /\ UNCHANGED <<class, jar, bound, opened>>
    BY DEF Event, SocketInv, SocketTypeOK
<1>2. SocketTypeOK'
    BY <1>1 DEF SocketInv, SocketTypeOK
<1>3. Copies'
    BY <1>1 DEF Copies
<1> QED BY <1>1, <1>2, <1>3 DEF SocketInv

LEMMA LifeSocketInv ==
    ASSUME SocketInv, Life
    PROVE  SocketInv'
<1> USE SocketAssumption DEF CONNECTING, OPEN, CLOSING, CLOSED, NoMessage
<1>1. CASE Construct
    BY <1>1 DEF Construct, Upgrade, SocketInv, SocketTypeOK, Copies
<1>2. CASE OnOpen
    BY <1>2, EventSocketInv DEF OnOpen
<1>3. CASE OnMessage
    BY <1>3 DEF OnMessage, SocketInv, SocketTypeOK, Copies
<1>4. CASE OnUnexpectedResponse
  <2>1. sock.ready = CONNECTING
      BY <1>4 DEF OnUnexpectedResponse, Event, SocketInv, Copies
  <2> QED BY <1>4, <2>1, EventSocketInv DEF OnUnexpectedResponse
<1>5. CASE Close
  <2>1. /\ sock' = [ready |-> CLOSING, cookies |-> sock.cookies, heard |-> sock.heard,
                    inner |-> IF sock.inner = "closed" THEN "closed" ELSE "closing"]
        /\ UNCHANGED <<class, jar, bound, opened>>
      BY <1>5 DEF Close, SocketInv, SocketTypeOK
  <2>2. SocketTypeOK'
      BY <2>1 DEF SocketInv, SocketTypeOK
  <2>3. Copies'
      BY <2>1 DEF Copies
  <2> QED BY <2>1, <2>2, <2>3 DEF SocketInv
<1>6. CASE OnClose({"connecting", "open"})
    BY <1>6, EventSocketInv DEF OnClose
<1>7. CASE OnClose({"closing"})
    BY <1>7, EventSocketInv DEF OnClose
<1> QED BY <1>1, <1>2, <1>3, <1>4, <1>5, <1>6, <1>7 DEF Life

LEMMA NextSocketInv == SocketInv /\ [DuplexNext]_duplex => SocketInv'
<1> SUFFICES ASSUME SocketInv, [DuplexNext]_duplex PROVE SocketInv'
    OBVIOUS
<1>1. CASE JarTurns
    BY <1>1, SocketAssumption DEF JarTurns, SocketInv, SocketTypeOK, Copies
<1>2. CASE CreateWebSocketShim
    BY <1>2, SocketAssumption DEF CreateWebSocketShim, SocketInv, SocketTypeOK, Copies
<1>3. CASE PeerCloses
    BY <1>3 DEF PeerCloses, Event, SocketInv, SocketTypeOK, Copies,
           CONNECTING, OPEN, CLOSING, CLOSED, NoMessage
<1>4. CASE SandboxWebSocket \/ SessionWebSocket
    BY <1>4, LifeSocketInv DEF SandboxWebSocket, SessionWebSocket
<1>5. CASE UNCHANGED socket
    BY <1>5 DEF socket, SocketInv, SocketTypeOK, Copies
<1> QED BY <1>1, <1>2, <1>3, <1>4, <1>5, BridgeLeavesSocket DEF DuplexNext, Wires, duplex

(* The shape of the socket's state.                                        *)
THEOREM SocketTypeCorrect == DuplexSpec => []SocketTypeOK
BY InitSocketInv, NextSocketInv, PTL DEF DuplexSpec, SocketInv

(* readyState never says open of a socket that has not opened or is gone,  *)
(* nor closed of one that may still deliver; nothing is heard outside the  *)
(* time from the open event to the close event.                            *)
THEOREM ReadyStateIsOfSocket == DuplexSpec => []StateFollowsSocket
<1>1. SocketInv => StateFollowsSocket
    BY DEF SocketInv, SocketTypeOK, Copies, StateFollowsSocket, CONNECTING, OPEN,
           CLOSING, CLOSED
<1> QED BY <1>1, InitSocketInv, NextSocketInv, PTL DEF DuplexSpec

-----------------------------------------------------------------------------
(* A step of the composition is a step of the bridge or leaves it alone.   *)
LEMMA StepOfBridge == [DuplexNext]_duplex => [Next]_vars
<1> SUFFICES ASSUME [DuplexNext]_duplex PROVE [Next]_vars
    OBVIOUS
<1>1. CASE Bridge
  <2>1. CASE AddStreamListener
      BY <2>1 DEF AddStreamListener
  <2>2. CASE \E c \in Channels : Registers(c) \/ Sends(c)
      BY <2>2 DEF Registers, Sends, Next
  <2> QED BY <1>1, <2>1, <2>2 DEF Bridge
<1>2. CASE Wires
    BY <1>2 DEF Wires
<1>3. CASE UNCHANGED duplex
    BY <1>3 DEF duplex
<1> QED BY <1>1, <1>2, <1>3 DEF DuplexNext

(* Over a socket that is refused, breaks and is replaced, with the traced  *)
(* handles, the bridge implements PresenceBridge.                          *)
THEOREM DuplexIsBridge == DuplexSpec => Spec
<1>1. DuplexInit => Init
    BY DEF DuplexInit
<1> QED BY <1>1, StepOfBridge, PTL DEF DuplexSpec, Spec

(* So, over any life of the socket, no channel is registered twice and     *)
(* none that the presence layer asked for is forgotten.                    *)
THEOREM DuplexServes == DuplexSpec => [](OnePerChannel /\ WantedIsServed)
BY DuplexIsBridge, HeardOnce, AskedIsServed, PTL

-------------------------------------------------------------------------------
(* A call that is under way has a conversation, and holds a session only   *)
(* from the moment ensurePresenceForConv returns: without this a second    *)
(* call would change the conversation under a session still held.          *)
HeldWhenReturned ==
    \A c \in Callers :
        /\ pc[c] # "idle" => conv[c] \in Convs
        /\ pc[c] \notin {"held", "showing"} => held[c] = 0

PresenceIInv == PresenceTypeOK /\ HeldWhenReturned /\ OwnConversation

LEMMA InitPresence == PresenceInit => PresenceIInv
<1> SUFFICES ASSUME PresenceInit PROVE PresenceIInv OBVIOUS
<1> USE DEF PresenceInit
<1>1. sessions \in Seq(Convs) /\ Len(sessions) = 0
    OBVIOUS
<1>2. 0 \in Session /\ 0 \in 0..MaxPolls /\ begun \in 0..MaxBegun
    BY <1>1, PresenceAssumption DEF Session
<1>3. PresenceTypeOK
  <2>1. /\ cache \in [Convs -> Session] /\ held \in [Callers -> Session]
        /\ records \in [Convs -> {"none", "seed", "rich"}]
        /\ pc \in [Callers -> Stages] /\ conv \in [Callers -> Convs \cup {NoConv}]
        /\ polls \in [Callers -> 0..MaxPolls]
      BY <1>2 DEF Stages
  <2> QED BY <1>1, <1>2, <2>1 DEF PresenceTypeOK
<1>4. HeldWhenReturned
    BY DEF HeldWhenReturned
<1>5. OwnConversation
    BY DEF OwnConversation
<1> QED BY <1>3, <1>4, <1>5 DEF PresenceIInv

(* A call that returns from ensurePresenceForConv with s. *)
LEMMA ReturnTypes ==
    ASSUME PresenceIInv, NEW c \in Callers, NEW s \in Session, Return(c, s)
    PROVE  /\ pc' \in [Callers -> Stages]
           /\ held' \in [Callers -> Session]
           /\ pc' = [pc EXCEPT ![c] = "held"]
           /\ held' = [held EXCEPT ![c] = s]
  BY DEF PresenceIInv, PresenceTypeOK, Return, Go, Stages

(* What one look at the slot does to the state of the calls. *)
LEMMA LookKeeps ==
    ASSUME PresenceIInv, NEW c \in Callers, pc[c] \in {"creating", "polling"},
           NEW n \in 0..MaxPolls, Look(c, n)
    PROVE  /\ cache' \in [Convs -> Session]
           /\ pc' \in [Callers -> Stages]
           /\ held' \in [Callers -> Session]
           /\ polls' \in [Callers -> 0..MaxPolls]
           /\ \A v \in Convs : cache'[v] # 0 => sessions[cache'[v]] = v
           /\ \A d \in Callers :
                /\ held'[d] # 0 => sessions[held'[d]] = conv[d]
                /\ pc'[d] # "idle" => pc[d] # "idle"
                /\ pc'[d] \notin {"held", "showing"} => held'[d] = 0
<1> USE DEF PresenceIInv
<1>1. conv[c] \in Convs /\ held[c] = 0 /\ slot \in Session /\ 0 \in Session
    BY DEF HeldWhenReturned, PresenceTypeOK, Session
<1>2. CASE Lands(conv[c]) /\ cache' = [cache EXCEPT ![conv[c]] = slot]
           /\ Return(c, slot) /\ polls' = [polls EXCEPT ![c] = 0]
  <2>1. /\ pc' \in [Callers -> Stages] /\ held' \in [Callers -> Session]
        /\ pc' = [pc EXCEPT ![c] = "held"] /\ held' = [held EXCEPT ![c] = slot]
      BY <1>1, <1>2, ReturnTypes
  <2>2. cache' \in [Convs -> Session] /\ polls' \in [Callers -> 0..MaxPolls]
      BY <1>1, <1>2, PresenceAssumption DEF PresenceTypeOK
  <2>3. \A v \in Convs : cache'[v] # 0 => sessions[cache'[v]] = v
      BY <1>1, <1>2 DEF PresenceTypeOK, OwnConversation, Lands
  <2>4. \A d \in Callers : /\ held'[d] # 0 => sessions[held'[d]] = conv[d]
                           /\ pc'[d] # "idle" => pc[d] # "idle"
                           /\ pc'[d] \notin {"held", "showing"} => held'[d] = 0
      BY <1>2, <2>1 DEF PresenceTypeOK, OwnConversation, HeldWhenReturned, Lands
  <2> QED BY <2>1, <2>2, <2>3, <2>4
<1>3. CASE n + 1 < MaxPolls /\ polls' = [polls EXCEPT ![c] = n + 1]
           /\ Go(c, "polling") /\ UNCHANGED <<cache, held>>
  <2>1. polls' \in [Callers -> 0..MaxPolls]
      BY <1>3, PresenceAssumption DEF PresenceTypeOK
  <2>2. pc' \in [Callers -> Stages] /\ pc' = [pc EXCEPT ![c] = "polling"]
      BY <1>3 DEF PresenceTypeOK, Go, Stages
  <2>3. \A d \in Callers : /\ held'[d] # 0 => sessions[held'[d]] = conv[d]
                           /\ pc'[d] # "idle" => pc[d] # "idle"
                           /\ pc'[d] \notin {"held", "showing"} => held'[d] = 0
      BY <1>1, <1>3, <2>2 DEF PresenceTypeOK, OwnConversation, HeldWhenReturned
  <2> QED BY <1>3, <2>1, <2>2, <2>3 DEF PresenceTypeOK, OwnConversation
<1>4. CASE polls' = [polls EXCEPT ![c] = 0] /\ Return(c, 0) /\ UNCHANGED cache
  <2>1. /\ pc' \in [Callers -> Stages] /\ held' \in [Callers -> Session]
        /\ pc' = [pc EXCEPT ![c] = "held"] /\ held' = [held EXCEPT ![c] = 0]
      BY <1>1, <1>4, ReturnTypes
  <2>2. polls' \in [Callers -> 0..MaxPolls]
      BY <1>4, PresenceAssumption DEF PresenceTypeOK
  <2>3. \A d \in Callers : /\ held'[d] # 0 => sessions[held'[d]] = conv[d]
                           /\ pc'[d] # "idle" => pc[d] # "idle"
                           /\ pc'[d] \notin {"held", "showing"} => held'[d] = 0
      BY <2>1 DEF PresenceTypeOK, OwnConversation, HeldWhenReturned
  <2> QED BY <1>4, <2>1, <2>2, <2>3 DEF PresenceTypeOK, OwnConversation
<1> QED BY <1>2, <1>3, <1>4 DEF Look

(* Every step of the calls and of the bundle keeps the invariant. *)
LEMMA NextPresence == PresenceIInv /\ [PresenceNext]_presenceVars => PresenceIInv'
<1> SUFFICES ASSUME PresenceIInv, [PresenceNext]_presenceVars PROVE PresenceIInv' OBVIOUS
<1> USE DEF PresenceIInv
<1>0. 0 \in Session /\ slot \in Session
    BY DEF PresenceTypeOK, Session
<1>1. ASSUME NEW c \in Callers, Begin(c) PROVE PresenceIInv'
  <2>1. PICK v \in Convs : conv' = [conv EXCEPT ![c] = v]
      BY <1>1 DEF Begin
  <2>2. PresenceTypeOK'
      BY <1>1, <2>1, PresenceAssumption
      DEF Begin, PresenceTypeOK, bundle, Go, Session, Stages
  <2>3. HeldWhenReturned' /\ OwnConversation'
      BY <1>1, <2>1 DEF Begin, PresenceTypeOK, bundle, Go, HeldWhenReturned, OwnConversation
  <2> QED BY <2>2, <2>3
<1>2. ASSUME NEW c \in Callers, InitThrows(c) \/ CreateThrows(c) PROVE PresenceIInv'
  <2>1. /\ pc' \in [Callers -> Stages] /\ held' \in [Callers -> Session]
        /\ pc' = [pc EXCEPT ![c] = "held"] /\ held' = [held EXCEPT ![c] = 0]
      BY <1>0, <1>2, ReturnTypes DEF InitThrows, CreateThrows
  <2>2. UNCHANGED <<initialized, inits, cache, bundle, conv, polls, begun>>
        /\ pc[c] # "idle"
      BY <1>2 DEF InitThrows, CreateThrows
  <2> QED BY <2>1, <2>2 DEF PresenceTypeOK, bundle, Session, HeldWhenReturned, OwnConversation
<1>3. ASSUME NEW c \in Callers, Enter(c) PROVE PresenceIInv'
  <2>1. conv[c] \in Convs /\ pc[c] = "entering" /\ held[c] = 0
      BY <1>3 DEF Enter, HeldWhenReturned
  <2>2. /\ initialized' \in BOOLEAN /\ inits' \in Nat
        /\ UNCHANGED <<records, sessions, landing, slot, visible, entered, conv,
                       polls, begun>>
      BY <1>3 DEF Enter, PresenceTypeOK, bundle
  <2>3. CASE cache[conv[c]] # 0 /\ cache[conv[c]] = slot /\ Return(c, slot)
             /\ UNCHANGED cache
    <3>1. /\ pc' \in [Callers -> Stages] /\ held' \in [Callers -> Session]
          /\ pc' = [pc EXCEPT ![c] = "held"] /\ held' = [held EXCEPT ![c] = slot]
        BY <1>0, <2>3, ReturnTypes
    <3> QED BY <2>1, <2>2, <2>3, <3>1
            DEF PresenceTypeOK, Session, HeldWhenReturned, OwnConversation
  <2>4. CASE cache' = [cache EXCEPT ![conv[c]] = 0] /\ Go(c, "seeding")
             /\ UNCHANGED held
    <3>1. pc' \in [Callers -> Stages] /\ cache' \in [Convs -> Session]
        BY <1>0, <2>1, <2>4 DEF PresenceTypeOK, Go, Stages
    <3> QED BY <2>1, <2>2, <2>4, <3>1
            DEF PresenceTypeOK, Go, Session, HeldWhenReturned, OwnConversation
  <2> QED BY <1>3, <2>3, <2>4 DEF Enter
<1>4. ASSUME NEW c \in Callers, SeedCheck(c) \/ SeedThrows(c) PROVE PresenceIInv'
  <2>1. /\ UNCHANGED <<initialized, inits, cache, bundle, conv, held, polls, begun>>
        /\ pc[c] \in {"seeding", "resolving"}
        /\ \/ pc' = [pc EXCEPT ![c] = "resolving"]
           \/ pc' = [pc EXCEPT ![c] = "creating"]
      BY <1>4 DEF SeedCheck, SeedThrows, Go
  <2>2. pc' \in [Callers -> Stages]
      BY <2>1 DEF PresenceTypeOK, Stages
  <2> QED BY <2>1, <2>2 DEF PresenceTypeOK, bundle, Session, HeldWhenReturned, OwnConversation
<1>5. ASSUME NEW c \in Callers, SeedWrite(c) PROVE PresenceIInv'
  <2>1. pc' \in [Callers -> Stages] /\ pc' = [pc EXCEPT ![c] = "creating"]
        /\ records' \in [Convs -> {"none", "seed", "rich"}]
      BY <1>5 DEF SeedWrite, Go, PresenceTypeOK, Stages
  <2> QED BY <1>5, <2>1
          DEF SeedWrite, PresenceTypeOK, Session, HeldWhenReturned, OwnConversation
<1>6. ASSUME NEW c \in Callers, Create(c) PROVE PresenceIInv'
  <2>1. conv[c] \in Convs /\ pc[c] = "creating" /\ 0 \in 0..MaxPolls
      BY <1>6, PresenceAssumption DEF Create, HeldWhenReturned
  <2>2. /\ Look(c, 0) /\ sessions' = Append(sessions, conv[c])
        /\ landing' = landing \cup {Len(sessions) + 1}
        /\ UNCHANGED <<initialized, inits, records, slot, visible, entered, conv, begun>>
      BY <1>6 DEF Create
  <2>3. /\ cache' \in [Convs -> Session]
        /\ pc' \in [Callers -> Stages]
        /\ held' \in [Callers -> Session]
        /\ polls' \in [Callers -> 0..MaxPolls]
        /\ \A v \in Convs : cache'[v] # 0 => sessions[cache'[v]] = v
        /\ \A d \in Callers :
             /\ held'[d] # 0 => sessions[held'[d]] = conv[d]
             /\ pc'[d] # "idle" => pc[d] # "idle"
             /\ pc'[d] \notin {"held", "showing"} => held'[d] = 0
      BY <2>1, <2>2, LookKeeps
  <2>4. /\ sessions' \in Seq(Convs) /\ Len(sessions') = Len(sessions) + 1
        /\ \A i \in Session \ {0} : sessions'[i] = sessions[i]
      BY <2>1, <2>2 DEF PresenceTypeOK, Session
  <2>5. Session \subseteq Session' /\ Len(sessions) + 1 \in Session' \ {0}
      BY <2>4 DEF PresenceTypeOK, Session
  <2>6. PresenceTypeOK'
    <3>1. /\ cache' \in [Convs -> Session'] /\ held' \in [Callers -> Session']
          /\ landing' \subseteq Session' \ {0} /\ slot' \in Session'
          /\ visible' \subseteq Session' \ {0}
        BY <2>2, <2>3, <2>5 DEF PresenceTypeOK
    <3> QED BY <2>2, <2>3, <2>4, <3>1 DEF PresenceTypeOK
  <2>7. HeldWhenReturned' /\ OwnConversation'
      BY <2>2, <2>3, <2>4 DEF HeldWhenReturned, OwnConversation
  <2> QED BY <2>6, <2>7
<1>7. ASSUME NEW c \in Callers, Poll(c) PROVE PresenceIInv'
  <2>1. /\ Look(c, polls[c]) /\ pc[c] = "polling" /\ polls[c] \in 0..MaxPolls
        /\ UNCHANGED <<initialized, inits, bundle, conv, begun>>
      BY <1>7 DEF Poll, PresenceTypeOK
  <2>2. /\ cache' \in [Convs -> Session]
        /\ pc' \in [Callers -> Stages]
        /\ held' \in [Callers -> Session]
        /\ polls' \in [Callers -> 0..MaxPolls]
        /\ \A v \in Convs : cache'[v] # 0 => sessions[cache'[v]] = v
        /\ \A d \in Callers :
             /\ held'[d] # 0 => sessions[held'[d]] = conv[d]
             /\ pc'[d] # "idle" => pc[d] # "idle"
             /\ pc'[d] \notin {"held", "showing"} => held'[d] = 0
      BY <2>1, LookKeeps
  <2> QED BY <2>1, <2>2 DEF PresenceTypeOK, bundle, Session, HeldWhenReturned, OwnConversation
<1>8. ASSUME NEW c \in Callers, Show(c) PROVE PresenceIInv'
  <2>1. conv[c] \in Convs /\ pc' \in [Callers -> Stages]
        /\ pc' = [pc EXCEPT ![c] = "showing"] /\ pc[c] = "held"
      BY <1>8 DEF Show, Go, PresenceTypeOK, Stages, HeldWhenReturned
  <2>2. visible' \subseteq Session \ {0} /\ entered' \subseteq Convs
      BY <1>0, <1>8, <2>1 DEF Show, PresenceTypeOK
  <2> QED BY <1>8, <2>1, <2>2
          DEF Show, PresenceTypeOK, Session, HeldWhenReturned, OwnConversation
<1>9. ASSUME NEW c \in Callers, Finish(c) PROVE PresenceIInv'
  <2>1. pc' \in [Callers -> Stages] /\ held' \in [Callers -> Session]
        /\ conv' \in [Callers -> Convs \cup {NoConv}]
      BY <1>0, <1>9 DEF Finish, PresenceTypeOK, Stages
  <2>2. visible' \subseteq Session \ {0} /\ entered' \subseteq Convs
      BY <1>9 DEF Finish, PresenceTypeOK
  <2> QED BY <1>9, <2>1, <2>2
          DEF Finish, PresenceTypeOK, Session, HeldWhenReturned, OwnConversation
<1>10. ASSUME NEW i \in landing, Land(i) PROVE PresenceIInv'
    BY <1>10 DEF Land, PresenceTypeOK, call, Session, HeldWhenReturned, OwnConversation
<1>11. ASSUME NEW v \in Convs, BundleWrites(v) PROVE PresenceIInv'
    BY <1>11 DEF BundleWrites, PresenceTypeOK, call, Session, HeldWhenReturned, OwnConversation
<1>12. CASE UNCHANGED presenceVars
    BY <1>12 DEF presenceVars, bundle, call, PresenceTypeOK, Session, HeldWhenReturned, OwnConversation
<1> QED BY <1>1, <1>2, <1>3, <1>4, <1>5, <1>6, <1>7, <1>8, <1>9, <1>10, <1>11,
           <1>12 DEF PresenceNext, Step

(* The state keeps its shape, for any conversations, callers and bounds. *)
THEOREM PresenceTypeCorrect == PresenceSpec => []PresenceTypeOK
<1>1. PresenceIInv => PresenceTypeOK
    BY DEF PresenceIInv
<1> QED BY <1>1, InitPresence, NextPresence, PTL DEF PresenceSpec

(* However calls to different conversations interleave on the one slot,    *)
(* none drives another conversation's session, and none is cached under    *)
(* another conversation.                                                   *)
THEOREM CallsKeepToTheirConversation == PresenceSpec => []OwnConversation
<1>1. PresenceIInv => OwnConversation
    BY DEF PresenceIInv
<1> QED BY <1>1, InitPresence, NextPresence, PTL DEF PresenceSpec

(* A step that leaves the running calls and what shows alone keeps         *)
(* IndicatorsAreOwned.                                                     *)
LEMMA QuietStep ==
    ASSUME IndicatorsAreOwned, visible' \subseteq visible, entered' = entered,
           \A d \in Callers : pc[d] = "showing" =>
               pc'[d] = "showing" /\ held'[d] = held[d] /\ conv'[d] = conv[d]
    PROVE  IndicatorsAreOwned'
  BY DEF IndicatorsAreOwned, Callers

(* An indicator that shows is always owned by a call that will hide it:    *)
(* "no peer ever sees a stale typing dot".                                 *)
THEOREM NoStaleIndicator == PresenceSpec => []IndicatorsAreOwned
<1>1. PresenceInit => IndicatorsAreOwned
    BY DEF PresenceInit, IndicatorsAreOwned
<1>2. IndicatorsAreOwned /\ PresenceIInv /\ [PresenceNext]_presenceVars => IndicatorsAreOwned'
  <2> SUFFICES ASSUME IndicatorsAreOwned, PresenceIInv, [PresenceNext]_presenceVars
               PROVE  IndicatorsAreOwned'
      OBVIOUS
  <2> USE DEF PresenceIInv
  <2>1. ASSUME NEW c \in Callers, Begin(c) PROVE IndicatorsAreOwned'
      BY <2>1, QuietStep DEF Begin, Go, PresenceTypeOK, bundle
  <2>2. ASSUME NEW c \in Callers,
               \/ InitThrows(c) \/ Enter(c) \/ SeedCheck(c) \/ SeedThrows(c)
               \/ SeedWrite(c) \/ CreateThrows(c)
        PROVE  IndicatorsAreOwned'
      BY <2>2, QuietStep
      DEF InitThrows, Enter, SeedCheck, SeedThrows, SeedWrite, CreateThrows,
          Return, Go, PresenceTypeOK, bundle
  <2>3. ASSUME NEW c \in Callers, Create(c) \/ Poll(c) PROVE IndicatorsAreOwned'
      BY <2>3, QuietStep DEF Create, Poll, Look, Return, Go, PresenceTypeOK, bundle
  <2>4. ASSUME NEW c \in Callers, Show(c) PROVE IndicatorsAreOwned'
    <3>1. \A d \in Callers : pc[d] = "showing" => d # c /\ pc'[d] = "showing"
        BY <2>4 DEF Show, Go, PresenceTypeOK
    <3>2. pc'[c] = "showing" /\ UNCHANGED <<held, conv>>
        BY <2>4 DEF Show, Go, PresenceTypeOK
    <3>3. ASSUME NEW i \in visible'
          PROVE  \E d \in Callers : pc'[d] = "showing" /\ held'[d] = i
        BY <2>4, <3>1, <3>2, <3>3 DEF Show, IndicatorsAreOwned
    <3>4. ASSUME NEW v \in entered'
          PROVE  \E d \in Viewers : pc'[d] = "showing" /\ conv'[d] = v
        BY <2>4, <3>1, <3>2, <3>4 DEF Show, IndicatorsAreOwned, Callers
    <3> QED BY <3>3, <3>4 DEF IndicatorsAreOwned
  <2>5. ASSUME NEW c \in Callers, Finish(c) PROVE IndicatorsAreOwned'
    <3>1. \A d \in Callers : d # c => /\ pc'[d] = pc[d] /\ held'[d] = held[d]
                                      /\ conv'[d] = conv[d]
        BY <2>5 DEF Finish, PresenceTypeOK
    <3>2. ASSUME NEW i \in visible'
          PROVE  \E d \in Callers : pc'[d] = "showing" /\ held'[d] = i
        BY <2>5, <3>1, <3>2 DEF Finish, IndicatorsAreOwned
    <3>3. ASSUME NEW v \in entered'
          PROVE  \E d \in Viewers : pc'[d] = "showing" /\ conv'[d] = v
        BY <2>5, <3>1, <3>3 DEF Finish, IndicatorsAreOwned, Callers
    <3> QED BY <3>2, <3>3 DEF IndicatorsAreOwned
  <2>6. ASSUME NEW i \in landing, Land(i) PROVE IndicatorsAreOwned'
      BY <2>6, QuietStep DEF Land, call
  <2>7. ASSUME NEW v \in Convs, BundleWrites(v) PROVE IndicatorsAreOwned'
      BY <2>7, QuietStep DEF BundleWrites, call
  <2>8. CASE UNCHANGED presenceVars
      BY <2>8, QuietStep DEF presenceVars, bundle, call
  <2> QED BY <2>1, <2>2, <2>3, <2>4, <2>5, <2>6, <2>7, <2>8 DEF PresenceNext, Step
<1> QED BY <1>1, <1>2, InitPresence, NextPresence, PTL DEF PresenceSpec

(* The counter says whether the service is up, and a call is past the      *)
(* initialisation, or a session was asked for, only if it is.              *)
Initialised ==
    /\ inits = IF initialized THEN 1 ELSE 0
    /\ sessions # <<>> => initialized
    /\ \A c \in Callers :
          pc[c] \in {"seeding", "resolving", "creating", "polling"} => initialized

(* Every step keeps that, the steps of racing first calls included. *)
LEMMA NextInitialised == PresenceTypeOK /\ Initialised /\ [PresenceNext]_presenceVars => Initialised'
<1> SUFFICES ASSUME PresenceTypeOK, Initialised, [PresenceNext]_presenceVars PROVE Initialised' OBVIOUS
<1> USE DEF Initialised
<1>1. ASSUME NEW c \in Callers,
             Begin(c) \/ InitThrows(c) \/ CreateThrows(c) \/ Show(c) \/ Finish(c)
      PROVE  Initialised'
  <2>1. \E s \in {"entering", "held", "showing", "idle"} : pc' = [pc EXCEPT ![c] = s]
      BY <1>1 DEF Begin, InitThrows, CreateThrows, Show, Finish, Return, Go
  <2>2. UNCHANGED <<initialized, inits, sessions>>
      BY <1>1 DEF Begin, InitThrows, CreateThrows, Show, Finish, bundle
  <2> QED BY <2>1, <2>2 DEF PresenceTypeOK
<1>2. ASSUME NEW c \in Callers, Enter(c) PROVE Initialised'
    BY <1>2 DEF Enter, PresenceTypeOK, bundle
<1>3. ASSUME NEW c \in Callers, SeedCheck(c) \/ SeedWrite(c) \/ SeedThrows(c)
      PROVE  Initialised'
  <2>1. /\ pc[c] \in {"seeding", "resolving"}
        /\ \E s \in Stages : pc' = [pc EXCEPT ![c] = s]
        /\ UNCHANGED <<initialized, inits, sessions>>
      BY <1>3 DEF SeedCheck, SeedWrite, SeedThrows, Go, bundle, Stages
  <2> QED BY <2>1 DEF PresenceTypeOK
<1>4. ASSUME NEW c \in Callers, Create(c) \/ Poll(c) PROVE Initialised'
  <2>1. /\ pc[c] \in {"creating", "polling"}
        /\ \E s \in Stages : pc' = [pc EXCEPT ![c] = s]
        /\ UNCHANGED <<initialized, inits>>
      BY <1>4 DEF Create, Poll, Look, Return, Go, Stages
  <2> QED BY <2>1 DEF PresenceTypeOK
<1>5. CASE \/ \E i \in landing : Land(i)
           \/ \E v \in Convs : BundleWrites(v)
           \/ UNCHANGED presenceVars
    BY <1>5 DEF Land, BundleWrites, call, presenceVars, bundle
<1> QED BY <1>1, <1>2, <1>3, <1>4, <1>5 DEF PresenceNext, Step

(* presenceInitialized (presence-bridge-init.ts): however many first calls *)
(* race, and however often the first init throws, the service is           *)
(* initialised once, and before any session is created.                    *)
THEOREM InitialisedOnce == PresenceSpec => []InitOnce
<1>1. PresenceInit => Initialised
    BY DEF PresenceInit, Initialised
<1>2. PresenceTypeOK /\ Initialised => InitOnce
    BY DEF Initialised, InitOnce
<1> QED BY <1>1, <1>2, NextInitialised, PresenceTypeCorrect, PTL DEF PresenceSpec

===============================================================================
