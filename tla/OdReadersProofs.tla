-------------------------- MODULE OdReadersProofs --------------------------
(***************************************************************************)
(* Proofs about OdReaders: its three properties, for any objects, pieces   *)
(* and values, and any number of requests and answers under way.           *)
(*                                                                         *)
(* A string that nobody has disturbed is in a chain: there is one request  *)
(* or answer for it at a time, or the CAN thread has it in its hands, and  *)
(* the piece it carries is the one the reader's buffer lacks next and the  *)
(* one before the node's cursor.  A scalar's read is the last request for  *)
(* it, behind the writes, so that what the answer says is still so when it *)
(* arrives.  Each of the two is broken by what the history variables say,  *)
(* and by nothing else.                                                    *)
(***************************************************************************)
EXTENDS OdReaders, TLAPS

-----------------------------------------------------------------------------
(* What the variables hold.                                                *)

Object == Texts \cup Numbers \cup Param
Known == Object \ Missing
Scalars == (Numbers \ Missing) \cup Param
Value == Nat \cup Data \cup {NoData}

Request == [kind : {"read"}, object : Known]
      \cup [kind : {"restore"}, object : Param]
      \cup [kind : {"write"}, object : Param, data : Data]
Answer == [kind : {"read", "write", "abort"}, object : Known, data : Value]
Hand == [at : {"result", "ready", "ask"}, answer : Answer, mine : BOOLEAN]

Typed ==
  /\ selected \in Param
  /\ DOMAIN shown = Texts \cup Numbers
  /\ shown = [o \in Texts \cup Numbers |-> shown[o]]
  /\ call \in Object \cup {NoObject}
  /\ call \in Param => call = selected
  /\ charbuf \in Seq(Value)
  /\ ready \in BOOLEAN
  /\ can \in Hand \cup {Idle}
  /\ requests \in Seq(Request)
  /\ answers \in Seq(Answer)
  /\ held \in [Scalars -> Data]
  /\ cursor \in [Texts -> Nat]
  /\ stale \in BOOLEAN /\ acks \in BOOLEAN /\ refused \in BOOLEAN

Elems(seq) == {seq[i] : i \in DOMAIN seq}
None(seq, o) == \A f \in Elems(seq) : f.object # o
AtMostOne(seq, o) == \A i, j \in DOMAIN seq : seq[i].object = o /\ seq[j].object = o => i = j
InHand(o) == can # Idle /\ can.answer.object = o

\* The CAN thread is in the present reader, or in one that is gone: then no
\* string it may do something to counts any more.
Hands ==
  can # Idle =>
    /\ can.mine => can.answer.object = call
    /\ ~can.mine => (Texts \cap {call, can.answer.object}) \subseteq disturbed
    /\ can.answer.object \in Texts => can.answer.kind = "read"
    /\ can.at = "ask" => can.answer.object \in Texts

-----------------------------------------------------------------------------
(* Strings: one request or answer at a time, and it is for the next piece. *)

Following(o, piece) == IF Ends(o, piece) THEN 1 ELSE piece + 1

Quiet(o) == None(requests, o) /\ None(answers, o) /\ ~InHand(o)

Single(o) ==
  /\ AtMostOne(requests, o) /\ AtMostOne(answers, o)
  /\ None(requests, o) \/ (None(answers, o) /\ ~InHand(o))
  /\ None(answers, o) \/ ~InHand(o)

\* How far the reader of a string has come, and the node with it.
Piecing(o) ==
  LET n == Len(charbuf) IN
  /\ charbuf = [i \in 1 .. n |-> i]
  /\ result \in {NoData, Whole(o)}
  /\ o \in Missing => Quiet(o) /\ result = NoData /\ ready
  /\ ~None(requests, o) => ~ready /\ n < Pieces[o] /\ cursor[o] = n + 1
  /\ ~None(answers, o) => ~ready
  /\ \A f \in Elems(answers) :
       (f.object = o /\ f.kind = "read")
         => f.data = n + 1 /\ n < Pieces[o] /\ cursor[o] = Following(o, n + 1)
  /\ InHand(o) =>
       /\ can.at = "result" =>
            /\ ~ready /\ can.answer.data = n + 1 /\ n < Pieces[o]
            /\ cursor[o] = Following(o, n + 1)
       /\ can.at \in {"ready", "ask"} =>
            /\ can.answer.data = n /\ n <= Pieces[o] /\ cursor[o] = Following(o, n)
            /\ Ends(o, n) => result = Whole(o)
       /\ can.at = "ready" => ~ready
       /\ can.at = "ask" => (ready <=> Ends(o, n))
  /\ (ready /\ ~InHand(o)) => cursor[o] = 1 /\ (o \notin Missing => result = Whole(o))

Chain(o) == Single(o) /\ IF call = o THEN Piecing(o) ELSE Quiet(o) /\ cursor[o] = 1

Chains == \A o \in Texts \ disturbed : Chain(o)

-----------------------------------------------------------------------------
(* Scalars: the read comes after the writes, and nothing after the read.   *)

ReadIsLast(seq, o) ==
  \A i, j \in DOMAIN seq :
    (i < j /\ seq[i].object = o /\ seq[i].kind = "read") => seq[j].object # o

NoWrite(seq, o) == \A f \in Elems(seq) : f.object = o => f.kind # "write"

IsCurrent(data) == data = held[call] /\ None(requests, call)

Scalar ==
  (call \in Scalars /\ ~stale) =>
    /\ can # Idle => can.mine
    /\ ReadIsLast(requests, call)
    /\ \A f \in Elems(answers) : (f.object = call /\ f.kind = "read") => IsCurrent(f.data)
    /\ (can # Idle /\ can.at = "result" /\ can.answer.kind = "read") => IsCurrent(can.answer.data)
    /\ result # NoData => IsCurrent(result)

Reason ==
  (call \in Scalars /\ ~stale /\ ~acks) =>
    /\ NoWrite(requests, call) /\ NoWrite(answers, call)
    /\ can # Idle => can.answer.kind # "write"
    /\ (~refused /\ (ready \/ (can # Idle /\ can.at = "ready"))) => result # NoData

ReadersInv == Typed /\ Hands /\ Chains /\ Scalar /\ Reason /\ WholeString

-----------------------------------------------------------------------------
(* Frames in line.                                                         *)

\* What taking the first frame of a line leaves: an object that had one frame,
\* and that one first, has none left.
LEMMA TailOf ==
  ASSUME NEW S, NEW seq \in Seq(S), seq # << >>, NEW o
  PROVE  /\ Tail(seq) \in Seq(S) /\ Head(seq) \in S /\ Head(seq) \in Elems(seq)
         /\ Elems(Tail(seq)) \subseteq Elems(seq)
         /\ AtMostOne(seq, o) => AtMostOne(Tail(seq), o)
         /\ (AtMostOne(seq, o) /\ Head(seq).object = o) => None(Tail(seq), o)
         /\ ReadIsLast(seq, o) => ReadIsLast(Tail(seq), o)
         /\ (ReadIsLast(seq, o) /\ Head(seq).object = o /\ Head(seq).kind = "read")
              => None(Tail(seq), o)
<1>1. /\ Len(seq) \in Nat /\ Len(seq) # 0 /\ DOMAIN seq = 1 .. Len(seq)
      /\ DOMAIN Tail(seq) = 1 .. (Len(seq) - 1)
      /\ \A i \in 1 .. (Len(seq) - 1) : Tail(seq)[i] = seq[i + 1]
      /\ Tail(seq) \in Seq(S)
  OBVIOUS
<1>2. 1 \in DOMAIN seq /\ Head(seq) = seq[1] /\ Head(seq) \in S
  BY <1>1
<1>3. \A i \in DOMAIN Tail(seq) :
        /\ i \in Nat /\ 1 < i + 1 /\ i + 1 \in DOMAIN seq /\ Tail(seq)[i] = seq[i + 1]
        /\ \A j \in DOMAIN Tail(seq) : (i < j => i + 1 < j + 1) /\ (i + 1 = j + 1 => i = j)
  BY <1>1
<1>4. Elems(Tail(seq)) \subseteq Elems(seq)
  BY <1>3 DEF Elems
<1>5. AtMostOne(seq, o) => AtMostOne(Tail(seq), o)
  BY <1>3 DEF AtMostOne
<1>6. ReadIsLast(seq, o) => ReadIsLast(Tail(seq), o)
  BY <1>3 DEF ReadIsLast
<1>7. (AtMostOne(seq, o) /\ Head(seq).object = o) => None(Tail(seq), o)
  BY <1>2, <1>3 DEF AtMostOne, None, Elems
<1>8. (ReadIsLast(seq, o) /\ Head(seq).object = o /\ Head(seq).kind = "read")
         => None(Tail(seq), o)
  BY <1>2, <1>3 DEF ReadIsLast, None, Elems
<1> QED
  BY <1>1, <1>2, <1>4, <1>5, <1>6, <1>7, <1>8 DEF Elems

\* What a frame at the end of a line adds.
LEMMA AppendOf ==
  ASSUME NEW S, NEW seq \in Seq(S), NEW x \in S, NEW o
  PROVE  /\ Append(seq, x) \in Seq(S)
         /\ Elems(Append(seq, x)) = Elems(seq) \cup {x}
         /\ AtMostOne(seq, o) /\ x.object # o => AtMostOne(Append(seq, x), o)
         /\ None(seq, o) => AtMostOne(Append(seq, x), o)
         /\ ReadIsLast(seq, o) /\ x.object # o => ReadIsLast(Append(seq, x), o)
         /\ (\A f \in Elems(seq) : f.object = o => f.kind # "read") => ReadIsLast(Append(seq, x), o)
<1>1. /\ Len(seq) \in Nat /\ DOMAIN seq = 1 .. Len(seq)
      /\ DOMAIN Append(seq, x) = 1 .. (Len(seq) + 1)
      /\ Append(seq, x)[Len(seq) + 1] = x
      /\ \A i \in 1 .. Len(seq) : Append(seq, x)[i] = seq[i]
      /\ Append(seq, x) \in Seq(S)
  OBVIOUS
<1>2. \A i \in DOMAIN Append(seq, x) :
        \/ i \in DOMAIN seq /\ Append(seq, x)[i] = seq[i]
        \/ i = Len(seq) + 1 /\ Append(seq, x)[i] = x
  BY <1>1
<1>3. \A i, j \in DOMAIN Append(seq, x) : i < j => i \in DOMAIN seq /\ Append(seq, x)[i] = seq[i]
  BY <1>1
<1>4. Elems(Append(seq, x)) = Elems(seq) \cup {x}
  <2>1. 1 .. (Len(seq) + 1) = (1 .. Len(seq)) \cup {Len(seq) + 1}
    BY <1>1
  <2> QED
    BY <1>1, <2>1 DEF Elems
<1>5. AtMostOne(seq, o) /\ x.object # o => AtMostOne(Append(seq, x), o)
  BY <1>2 DEF AtMostOne
<1>6. None(seq, o) => AtMostOne(Append(seq, x), o)
  BY <1>2 DEF AtMostOne, None, Elems
<1>7. ReadIsLast(seq, o) /\ x.object # o => ReadIsLast(Append(seq, x), o)
  BY <1>2, <1>3 DEF ReadIsLast
<1>8. (\A f \in Elems(seq) : f.object = o => f.kind # "read") => ReadIsLast(Append(seq, x), o)
  BY <1>3 DEF ReadIsLast, Elems
<1> QED
  BY <1>1, <1>4, <1>5, <1>6, <1>7, <1>8

\* A request that is sent, or lost.
LEMMA SentFacts ==
  ASSUME requests \in Seq(Request), NEW r \in Request, Sent(r)
  PROVE  /\ requests' \in Seq(Request)
         /\ Elems(requests) \subseteq Elems(requests')
         /\ Elems(requests') \subseteq Elems(requests) \cup {r}
         /\ \A o : /\ AtMostOne(requests, o) /\ r.object # o => AtMostOne(requests', o)
                   /\ None(requests, o) => AtMostOne(requests', o)
                   /\ (\A f \in Elems(requests) : f.object = o => f.kind # "read")
                        => ReadIsLast(requests', o)
<1>1. CASE requests' = requests
  <2>1. \A o : None(requests, o) => AtMostOne(requests, o)
    BY DEF None, AtMostOne, Elems
  <2>2. \A o : (\A f \in Elems(requests) : f.object = o => f.kind # "read") => ReadIsLast(requests, o)
    BY DEF Elems, ReadIsLast
  <2> QED
    BY <1>1, <2>1, <2>2
<1>2. CASE requests' = Append(requests, r)
  <2>1. /\ Append(requests, r) \in Seq(Request)
        /\ Elems(Append(requests, r)) = Elems(requests) \cup {r}
    BY AppendOf
  <2>2. \A o : /\ AtMostOne(requests, o) /\ r.object # o => AtMostOne(Append(requests, r), o)
               /\ None(requests, o) => AtMostOne(Append(requests, r), o)
               /\ (\A f \in Elems(requests) : f.object = o => f.kind # "read")
                    => ReadIsLast(Append(requests, r), o)
    BY AppendOf
  <2> QED
    BY <1>2, <2>1, <2>2
<1> QED
  BY <1>1, <1>2 DEF Sent

-----------------------------------------------------------------------------
(* The UI thread.                                                          *)

\* What a request of each kind is about.
LEMMA RequestIs ==
  /\ \A o \in Known : [kind |-> "read", object |-> o] \in Request
  /\ \A o \in Param : [kind |-> "restore", object |-> o] \in Request
  /\ \A o \in Param, data \in Data : [kind |-> "write", object |-> o, data |-> data] \in Request
  /\ \A f \in Request : f.object \in Known /\ (f.object \notin Param => f.kind = "read")
  BY ReadersAssumption DEF Request, Known, Object

\* A call that begins on an object nobody has disturbed finds nothing of it on
\* the bus, and so does one that begins afresh; one that finds something says so
\* in stale, acks or disturbed.
LEMMA BeginKeeps ==
  ASSUME ReadersInv, NEW o \in Object, call = NoObject, Begin(o), selected' \in Param,
         o \in Param => selected' = o, o \in Texts => shown[o] = Nothing,
         UNCHANGED <<shown, can, answers, nodevars>>
  PROVE  ReadersInv'
<1>1. /\ call' = o /\ charbuf' = << >> /\ result' = NoData /\ ready' = (o \in Missing)
      /\ stale' = (can # Idle \/ UnderWay(o, "read")) /\ acks' = UnderWay(o, "write")
      /\ refused' = FALSE
      /\ disturbed' = (disturbed \ (IF Afresh(o) THEN {o} ELSE {}))
                         \cup (IF can # Idle THEN {o} \cap Texts ELSE {})
      /\ UNCHANGED <<shown, can, answers, held, cursor>>
  BY DEF Begin, nodevars
<1>2. /\ requests' \in Seq(Request)
      /\ Elems(requests) \subseteq Elems(requests')
      /\ \A f \in Elems(requests') : f \in Elems(requests) \/ (f.object = o /\ f.kind = "read")
      /\ \A q : /\ q # o /\ AtMostOne(requests, q) => AtMostOne(requests', q)
                /\ None(requests, q) => AtMostOne(requests', q)
                /\ (\A f \in Elems(requests) : f.object = q => f.kind # "read")
                     => ReadIsLast(requests', q)
      /\ o \in Missing => requests' = requests
  <2>1. requests \in Seq(Request)
    BY DEF ReadersInv, Typed
  <2>2. CASE o \in Missing
    <3>1. requests' = requests
      BY <2>2 DEF Begin
    <3>2. \A q : None(requests, q) => AtMostOne(requests, q)
      BY DEF None, AtMostOne, Elems
    <3>3. \A q : (\A f \in Elems(requests) : f.object = q => f.kind # "read") => ReadIsLast(requests, q)
      BY DEF Elems, ReadIsLast
    <3> QED
      BY <2>1, <3>1, <3>2, <3>3
  <2>3. CASE o \notin Missing
    <3>1. PICK r \in Request : r = [kind |-> "read", object |-> o] /\ Sent(r)
      BY <2>3, RequestIs DEF Begin, Known
    <3> QED
      BY <2>1, <2>3, <3>1, SentFacts
  <2> QED
    BY <2>2, <2>3
<1>3. o # NoObject
  BY ReadersAssumption DEF Object
<1>4. Typed'
  <2>1. << >> \in Seq(Value)
    OBVIOUS
  <2>2. stale' \in BOOLEAN /\ acks' \in BOOLEAN /\ ready' \in BOOLEAN
    BY <1>1 DEF UnderWay
  <2> QED
    BY <1>1, <1>2, <2>1, <2>2 DEF ReadersInv, Typed
<1>5. Hands'
  <2>1. CASE can # Idle
    <3>1. can.mine \in BOOLEAN /\ can.answer.object \in Known
      BY <2>1 DEF ReadersInv, Typed, Hand, Answer
    <3>2. can.answer.object # NoObject
      BY <3>1, ReadersAssumption DEF Known, Object
    <3>3. ~Afresh(o)
      BY <2>1 DEF Afresh
    <3> QED
      BY <1>1, <2>1, <3>1, <3>2, <3>3 DEF ReadersInv, Hands
  <2> QED
    BY <1>1, <2>1 DEF Hands
<1>6. Chains'
  <2> SUFFICES ASSUME NEW q \in Texts \ disturbed'
               PROVE  Chain(q)'
    BY DEF Chains
  <2>1. Single(q) /\ Quiet(q) /\ cursor[q] = 1
    <3>1. CASE q \notin disturbed
      BY <1>1, <3>1, ReadersAssumption DEF ReadersInv, Chains, Chain
    <3>2. CASE q \in disturbed
      <4>1. q = o /\ Afresh(q)
        BY <1>1, <3>2
      <4>2. None(requests, q) /\ None(answers, q) /\ ~InHand(q)
        BY <4>1 DEF Afresh, None, Elems, InHand
      <4>3. AtMostOne(requests, q) /\ AtMostOne(answers, q)
        BY <4>2 DEF None, Elems, AtMostOne
      <4> QED
        BY <4>1, <4>2, <4>3 DEF Single, Quiet, Afresh
    <3> QED
      BY <3>1, <3>2
  <2>2. None(answers, q)' /\ ~InHand(q)' /\ AtMostOne(answers, q)'
    BY <1>1, <2>1 DEF Quiet, InHand, Single
  <2>3. CASE q # o
    <3>1. None(requests, q)' /\ AtMostOne(requests, q)'
      BY <1>2, <2>1, <2>3 DEF Quiet, None, Single
    <3> QED
      BY <1>1, <2>1, <2>2, <2>3, <3>1 DEF Chain, Single, Quiet
  <2>4. CASE q = o
    <3>1. AtMostOne(requests, q)'
      BY <1>2, <2>1, <2>4 DEF Quiet
    <3>2. Single(q)'
      BY <2>2, <3>1 DEF Single
    <3>3. /\ charbuf' = [i \in 1 .. 0 |-> i] /\ Len(charbuf') = 0
          /\ 0 < Pieces[q] /\ cursor'[q] = 0 + 1
      BY <1>1, <2>1, ReadersAssumption
    <3>4. ~None(requests, q)' => q \notin Missing
      BY <1>2, <2>1, <2>4 DEF Quiet
    <3>5. q \in Missing => Quiet(q)'
      BY <2>2, <3>4 DEF Quiet
    <3>6. ready' <=> q \in Missing
      BY <1>1, <2>4
    <3>7. \A f \in Elems(answers') : f.object # q
      BY <2>2 DEF None
    <3>8. PICK n \in Nat : n = Len(charbuf') /\ n = 0
      BY <3>3
    <3> QED
      BY <1>1, <2>1, <2>2, <2>4, <3>2, <3>3, <3>4, <3>5, <3>6, <3>7, <3>8 DEF Chain, Piecing
  <2> QED
    BY <2>3, <2>4
<1>7. ASSUME ~stale'
      PROVE  /\ can = Idle
             /\ \A f \in Elems(requests) : f.object = o => f.kind # "read"
             /\ \A f \in Elems(answers) : f.object = o => f.kind \notin {"read", "abort"}
  BY <1>1, <1>7 DEF UnderWay, Elems
<1>8. Scalar'
  BY <1>1, <1>2, <1>7 DEF Scalar
<1>9. Reason'
  <2> SUFFICES ASSUME ~stale', ~acks', o \notin Missing
               PROVE  /\ NoWrite(requests, o)' /\ NoWrite(answers, o)'
                      /\ can = Idle /\ ~ready'
    BY <1>1, ReadersAssumption DEF Reason, Scalars
  <2>1. NoWrite(requests, o) /\ NoWrite(answers, o)
    BY <1>1 DEF UnderWay, NoWrite, Elems
  <2> QED
    BY <1>1, <1>2, <1>7, <2>1 DEF NoWrite
<1>10. WholeString'
  <2> SUFFICES ASSUME NEW q \in Texts \ disturbed'
               PROVE  shown'[q] \in {Nothing, NotThere, Whole(q)'}
    BY DEF WholeString
  <2>1. q \notin disturbed \/ q = o
    BY <1>1
  <2> QED
    BY <1>1, <2>1 DEF ReadersInv, WholeString, Whole, Text
<1> QED
  BY <1>4, <1>5, <1>6, <1>8, <1>9, <1>10 DEF ReadersInv

\* A call that ends with its chain unfinished, or with the CAN thread in its
\* reader, leaves its string disturbed.
LEMMA ReturnKeeps ==
  ASSUME ReadersInv, call # NoObject, Return
  PROVE  ReadersInv'
<1>1. /\ call' = NoObject /\ charbuf' = << >> /\ result' = NoData /\ ready' = FALSE
      /\ can' = (IF can = Idle THEN Idle ELSE [can EXCEPT !.mine = FALSE])
      /\ disturbed' = disturbed \cup
           (IF (ready /\ can = Idle) \/ call \in Missing THEN {} ELSE {call} \cap Texts)
      /\ stale' = FALSE /\ acks' = FALSE /\ refused' = FALSE
      /\ UNCHANGED <<selected, requests, answers, held, cursor>>
  BY DEF Return, nodevars
<1>2. NoObject \notin Object /\ Param \subseteq Object /\ Numbers \subseteq Object
  BY ReadersAssumption DEF Object
<1>3. call \in Object
  BY DEF ReadersInv, Typed
<1>4. /\ can' \in Hand \cup {Idle} /\ (can' = Idle <=> can = Idle)
      /\ can # Idle =>
           /\ can'.answer = can.answer /\ can'.at = can.at /\ ~can'.mine
           /\ can.mine \in BOOLEAN /\ can.answer.object \in Known
  <2>1. CASE can # Idle
    <3>1. PICK hand \in Hand : hand = can
      BY <2>1 DEF ReadersInv, Typed
    <3>2. [hand EXCEPT !.mine = FALSE] \in Hand /\ can' = [hand EXCEPT !.mine = FALSE]
      BY <1>1, <2>1, <3>1 DEF Hand
    <3>3. PICK new \in Hand : new = can'
      BY <3>2
    <3>4. new.answer = hand.answer /\ ~new.mine /\ new.at = hand.at
          /\ hand.mine \in BOOLEAN /\ hand.answer.object \in Known
      BY <3>2, <3>3 DEF Hand, Answer
    <3>5. \A h \in Hand : h # Idle
      BY DEF Hand, Idle
    <3> QED
      BY <2>1, <3>1, <3>3, <3>4, <3>5
  <2> QED
    BY <1>1, <2>1
<1>5. Typed'
  <2>1. DOMAIN shown' = Texts \cup Numbers /\ shown' = [o \in Texts \cup Numbers |-> shown'[o]]
    <3>1. CASE call \in Param
      BY <3>1 DEF Return, ReadersInv, Typed
    <3>2. CASE call \notin Param
      BY <3>2 DEF Return, ReadersInv, Typed
    <3> QED
      BY <3>1, <3>2
  <2>2. << >> \in Seq(Value) /\ call' \notin Param
    BY <1>1, <1>2
  <2> QED
    BY <1>1, <1>4, <2>1, <2>2 DEF ReadersInv, Typed
<1>6. can # Idle => Texts \cap {call', can.answer.object} \subseteq disturbed'
  <2>1. ASSUME can # Idle, can.mine
        PROVE  can.answer.object = call /\ call \notin Missing
    BY <1>4, <2>1 DEF ReadersInv, Hands, Known
  <2>2. Texts \subseteq Object
    BY DEF Object
  <2> QED
    BY <1>1, <1>2, <1>4, <2>1, <2>2 DEF ReadersInv, Hands
<1>7. Hands'
  BY <1>4, <1>6 DEF ReadersInv, Hands
<1>8. Chains'
  <2> SUFFICES ASSUME NEW q \in Texts \ disturbed'
               PROVE  Chain(q)'
    BY DEF Chains
  <2>1. q \in Texts \ disturbed /\ q # NoObject
    BY <1>1, <1>2 DEF Object
  <2>2. Chain(q)
    BY <2>1 DEF ReadersInv, Chains
  <2>3. InHand(q)' <=> InHand(q)
    BY <1>4 DEF InHand
  <2>4. Single(q)'
    BY <1>1, <2>2, <2>3 DEF Chain, Single, None, AtMostOne, Elems
  <2>5. Quiet(q) /\ cursor[q] = 1
    <3>1. CASE call # q
      BY <2>2, <3>1 DEF Chain
    <3>2. CASE call = q /\ q \in Missing
      <4>1. Quiet(q) /\ ready
        BY <2>2, <3>2 DEF Chain, Piecing
      <4> QED
        BY <2>2, <3>2, <4>1 DEF Chain, Piecing, Quiet
    <3>3. CASE call = q /\ q \notin Missing
      <4>1. ready /\ can = Idle
        BY <1>1, <3>3
      <4>2. ~InHand(q)
        BY <4>1 DEF InHand
      <4> QED
        BY <2>2, <3>3, <4>1, <4>2 DEF Chain, Piecing, Quiet
    <3> QED
      BY <3>1, <3>2, <3>3
  <2>6. Quiet(q)'
    BY <1>1, <2>3, <2>5 DEF Quiet, None, Elems
  <2> QED
    BY <1>1, <2>1, <2>4, <2>5, <2>6 DEF Chain
<1>9. Scalar' /\ Reason'
  BY <1>1, <1>2 DEF Scalar, Reason, Scalars
<1>10. WholeString'
  <2> SUFFICES ASSUME NEW q \in Texts \ disturbed'
               PROVE  shown'[q] \in {Nothing, NotThere, Whole(q)}
    BY DEF WholeString, Whole, Text
  <2>1. q \in Texts \ disturbed /\ q \notin Param
    BY <1>1, ReadersAssumption
  <2>2. shown[q] \in {Nothing, NotThere, Whole(q)}
    BY <2>1 DEF ReadersInv, WholeString
  <2>3. CASE call # q \/ call \in Param
    BY <2>1, <2>2, <2>3 DEF Return, ReadersInv, Typed
  <2>4. CASE call = q
    <3>1. result \in {NoData, Whole(q)}
      BY <2>1, <2>4 DEF ReadersInv, Chains, Chain, Piecing
    <3>2. shown'[q] = IF result = NoData THEN NotThere ELSE result
      BY <2>1, <2>4 DEF Return, ReadersInv, Typed
    <3> QED
      BY <3>1, <3>2
  <2> QED
    BY <2>3, <2>4
<1> QED
  BY <1>5, <1>7, <1>8, <1>9, <1>10 DEF ReadersInv

\* Steps of the UI thread that leave the reader alone.
LEMMA UiLeavesReader ==
  ASSUME ReadersInv, call = NoObject, selected' \in Param,
         DOMAIN shown' = Texts \cup Numbers, shown' = [o \in Texts \cup Numbers |-> shown'[o]],
         \A o \in Texts : shown'[o] \in {shown[o], Nothing},
         requests' = requests \/
           (\E r \in Request : r.object \in Param /\ Sent(r)),
         UNCHANGED <<readervars, can, answers, nodevars, callhistory, disturbed>>
  PROVE  ReadersInv'
<1>1. call \notin Object /\ Param \cup Numbers \subseteq Object
  BY ReadersAssumption DEF Object
<1>2. requests' \in Seq(Request) /\ \A o \in Texts :
        (AtMostOne(requests, o) => AtMostOne(requests', o)) /\ (None(requests, o) => None(requests', o))
  <2>1. requests \in Seq(Request)
    BY DEF ReadersInv, Typed
  <2>2. CASE requests' = requests
    BY <2>1, <2>2
  <2>3. CASE requests' # requests
    <3>1. PICK r \in Request : r.object \in Param /\ Sent(r)
      BY <2>3
    <3> QED
      BY <2>1, <3>1, SentFacts, ReadersAssumption DEF None
  <2> QED
    BY <2>2, <2>3
<1>3. Typed'
  BY <1>1, <1>2 DEF ReadersInv, Typed, readervars, nodevars, callhistory
<1>4. Hands'
  BY DEF ReadersInv, Hands, readervars
<1>5. Chains'
  <2> SUFFICES ASSUME NEW q \in Texts \ disturbed
               PROVE  Chain(q)'
    BY DEF Chains
  <2>1. Single(q) /\ Quiet(q) /\ cursor[q] = 1 /\ call # q
    BY <1>1 DEF ReadersInv, Chains, Chain, Object
  <2> QED
    BY <1>2, <2>1 DEF Chain, Single, Quiet, InHand, readervars, nodevars
<1>6. Scalar' /\ Reason'
  BY <1>1 DEF Scalar, Reason, readervars, Scalars
<1>7. WholeString'
  BY DEF ReadersInv, WholeString
<1> QED
  BY <1>3, <1>4, <1>5, <1>6, <1>7 DEF ReadersInv

\* Every step of the UI thread keeps the invariant.
LEMMA UiKeeps ==
  ASSUME ReadersInv, UiStep
  PROVE  ReadersInv'
<1>1. CASE UiRefresh
  BY <1>1, UiLeavesReader DEF UiRefresh, ReadersInv, Typed
<1>2. CASE UiAbout
  <2>1. About[ui] \in Object /\ About[ui] \notin Param
    <3>1. About \in Seq(Texts \cup Numbers) /\ ui \in DOMAIN About
      BY <1>2, ReadersAssumption DEF UiAbout
    <3>2. About[ui] \in Texts \cup Numbers
      BY <3>1
    <3> QED
      BY <3>2, ReadersAssumption DEF Object
  <2>2. CASE shown[About[ui]] = Nothing
    BY <1>2, <2>1, <2>2, BeginKeeps DEF UiAbout, ReadersInv, Typed
  <2>3. CASE shown[About[ui]] # Nothing
    BY <1>2, <2>3, UiLeavesReader DEF UiAbout, ReadersInv, Typed
  <2> QED
    BY <2>2, <2>3
<1>3. CASE UiSetup
  <2>1. PICK o \in Param : selected' = o /\
          IF should_read' THEN Begin(o) /\ UNCHANGED ui
          ELSE ui' = ui + 1 /\ UNCHANGED <<readervars, requests, callhistory, disturbed>>
    BY <1>3 DEF UiSetup
  <2>2. CASE should_read'
    <3>1. Begin(o) /\ o \notin Texts /\ o \in Object
      BY <2>1, <2>2, ReadersAssumption DEF Object
    <3>2. call = NoObject /\ selected' = o /\ UNCHANGED <<shown, can, answers, nodevars>>
      BY <1>3, <2>1 DEF UiSetup
    <3> QED
      BY <3>1, <3>2, BeginKeeps
  <2>3. CASE ~should_read'
    BY <1>3, <2>1, <2>3, UiLeavesReader DEF UiSetup, ReadersInv, Typed
  <2> QED
    BY <2>2, <2>3
<1>4. CASE UiEdit
  <2>1. selected \in Param
    BY DEF ReadersInv, Typed
  <2>2. requests' = requests \/ (\E r \in Request : r.object \in Param /\ Sent(r))
    <3>1. CASE \E data \in Data : Sent([kind |-> "write", object |-> selected, data |-> data])
      BY <2>1, <3>1, RequestIs
    <3>2. CASE Sent([kind |-> "restore", object |-> selected])
      BY <2>1, <3>2, RequestIs
    <3> QED
      BY <1>4, <3>1, <3>2 DEF UiEdit
  <2> QED
    BY <1>4, <2>1, <2>2, UiLeavesReader DEF UiEdit, ReadersInv, Typed
<1>5. CASE UiReturns \/ UiGivesUp
  BY <1>5, ReturnKeeps DEF UiReturns, UiGivesUp
<1> QED
  BY <1>1, <1>2, <1>3, <1>4, <1>5 DEF UiStep

-----------------------------------------------------------------------------
(* The CAN thread.                                                         *)

\* What the CAN thread holds is a hand's record.
LEMMA HandIs ==
  /\ Idle \notin Hand
  /\ \A h \in Hand : /\ h.answer \in Answer /\ h.mine \in BOOLEAN
                     /\ h.at \in {"result", "ready", "ask"}
  /\ \A f \in Answer : /\ [at |-> "result", answer |-> f, mine |-> TRUE] \in Hand
                       /\ f.object \in Known /\ f.kind \in {"read", "write", "abort"}
                       /\ f.data \in Value
  BY DEF Hand, Idle, Answer

\* The CAN thread goes on from one part of handle_sdo to the next with the same
\* answer in its hands.
LEMMA HandMoves ==
  ASSUME NEW hand \in Hand, NEW to \in {"result", "ready", "ask"}
  PROVE  \E new \in Hand :
           /\ new = [hand EXCEPT !.at = to] /\ new # Idle
           /\ new.at = to /\ new.answer = hand.answer /\ new.mine = hand.mine
<1> DEFINE new == [hand EXCEPT !.at = to]
<1>1. new \in Hand
  BY DEF Hand
<1>2. new.at = to /\ new.answer = hand.answer /\ new.mine = hand.mine
  BY DEF Hand
<1> QED
  BY <1>1, <1>2, HandIs

\* An answer that is taken was the only one of its string's chain.
LEMMA TakesKeeps ==
  ASSUME ReadersInv, CanTakes
  PROVE  ReadersInv'
<1>1. PICK head \in Answer : head = Head(answers) /\ answers # << >> /\ answers \in Seq(Answer)
  BY DEF CanTakes, ReadersInv, Typed
<1>2. /\ can = Idle /\ answers' = Tail(answers)
      /\ UNCHANGED <<uivars, readervars, requests, nodevars, callhistory, disturbed>>
      /\ Concerns(head) => can' = [at |-> "result", answer |-> head, mine |-> TRUE]
      /\ ~Concerns(head) => can' = Idle
  BY <1>1 DEF CanTakes
<1>3. /\ answers' \in Seq(Answer) /\ head \in Elems(answers) /\ Elems(answers') \subseteq Elems(answers)
      /\ \A o : /\ AtMostOne(answers, o) => AtMostOne(answers', o)
                /\ (AtMostOne(answers, o) /\ head.object = o) => None(answers', o)
  BY <1>1, <1>2, TailOf
<1>4. can' # Idle =>
        /\ can' \in Hand /\ can'.at = "result" /\ can'.answer = head /\ can'.mine
        /\ call = head.object /\ (call \in Texts => head.kind = "read")
  <2>1. Concerns(head) => call = head.object /\ (call \in Texts => head.kind = "read")
    BY DEF Concerns
  <2>2. PICK hand \in Hand : hand = [at |-> "result", answer |-> head, mine |-> TRUE]
    BY HandIs
  <2>3. hand.at = "result" /\ hand.answer = head /\ hand.mine
    BY <2>2
  <2> QED
    BY <1>2, <2>1, <2>2, <2>3
<1>5. can' = Idle \/ can' \in Hand
  BY <1>4
<1>6. Typed'
  BY <1>2, <1>3, <1>4, <1>5 DEF ReadersInv, Typed, uivars, readervars, nodevars, callhistory
<1>7. Hands'
  BY <1>2, <1>4 DEF Hands, readervars
<1>8. Chains'
  <2> SUFFICES ASSUME NEW q \in Texts \ disturbed
               PROVE  Chain(q)'
    BY <1>2 DEF Chains
  <2>1. Chain(q) /\ ~InHand(q)
    BY <1>2 DEF ReadersInv, Chains, InHand
  <2>2. UNCHANGED <<call, charbuf, result, ready, requests, cursor>>
    BY <1>2 DEF readervars, nodevars
  <2>3. InHand(q)' => head.object = q
    BY <1>2, <1>4 DEF InHand
  <2>4. /\ AtMostOne(answers, q)'
        /\ head.object = q => None(answers, q)' /\ ~None(answers, q)
        /\ None(answers, q) => None(answers, q)'
    BY <1>3, <2>1 DEF None, Chain, Single
  <2>5. Single(q)'
    BY <2>1, <2>2, <2>3, <2>4 DEF Chain, Single, None
  <2>6. CASE call # q
    <3>1. Quiet(q) /\ cursor[q] = 1 /\ head.object # q
      BY <2>1, <2>4, <2>6 DEF Chain, Quiet
    <3> QED
      BY <2>2, <2>3, <2>4, <2>5, <2>6, <3>1 DEF Chain, Quiet
  <2>7. CASE call = q
    <3>1. Piecing(q)
      BY <2>1, <2>7 DEF Chain
    <3>2. InHand(q)' => ~ready /\ head.kind = "read" /\ ~Quiet(q)
      BY <1>4, <2>3, <2>4, <2>7, <3>1 DEF InHand, Piecing, Quiet
    <3>3. q \in Missing => Quiet(q)'
      BY <2>2, <2>3, <2>4, <3>1 DEF Piecing, Quiet
    <3>4. InHand(q)' => /\ can'.at = "result" /\ can'.answer.data = Len(charbuf) + 1
                        /\ Len(charbuf) < Pieces[q] /\ cursor[q] = Following(q, Len(charbuf) + 1)
      BY <1>3, <1>4, <2>3, <3>1, <3>2 DEF Piecing, InHand
    <3>5. (ready' /\ ~InHand(q)') => cursor[q] = 1 /\ (q \notin Missing => result = Whole(q))
      BY <2>1, <2>2, <3>1 DEF Piecing
    <3>6. ~None(answers, q)' => ~ready
      BY <2>4, <3>1 DEF Piecing
    <3> QED
      BY <1>3, <2>2, <2>5, <2>7, <3>1, <3>2, <3>3, <3>4, <3>5, <3>6
         DEF Chain, Piecing, Whole, Text, Following, Ends
  <2> QED
    BY <2>6, <2>7
<1>9. Scalar'
  BY <1>2, <1>3, <1>4, <1>5 DEF ReadersInv, Scalar, IsCurrent, None, readervars, nodevars, callhistory
<1>10. Reason'
  BY <1>2, <1>3, <1>4, <1>5 DEF ReadersInv, Reason, NoWrite, readervars, callhistory
<1>11. WholeString'
  BY <1>2 DEF ReadersInv, WholeString, uivars
<1> QED
  BY <1>6, <1>7, <1>8, <1>9, <1>10, <1>11 DEF ReadersInv

\* 1, 2, ..., n and then n + 1.
LEMMA CountsOn ==
  ASSUME NEW n \in Nat, NEW pieces \in Seq(Value), pieces = [i \in 1 .. n |-> i]
  PROVE  /\ Len(pieces) = n
         /\ Append(pieces, n + 1) = [i \in 1 .. (n + 1) |-> i]
         /\ Len(Append(pieces, n + 1)) = n + 1
<1>1. Len(pieces) = n
  BY DOMAIN pieces = 1 .. n
<1>2. DOMAIN Append(pieces, n + 1) = 1 .. (n + 1) /\ Len(Append(pieces, n + 1)) = n + 1
  BY <1>1
<1>3. ASSUME NEW i \in 1 .. (n + 1)
      PROVE  Append(pieces, n + 1)[i] = i
  <2>1. CASE i \in 1 .. n
    BY <1>1, <2>1
  <2>2. CASE i = n + 1
    BY <1>1, <2>2
  <2> QED
    BY <2>1, <2>2
<1>4. Append(pieces, n + 1) = [i \in DOMAIN Append(pieces, n + 1) |-> Append(pieces, n + 1)[i]]
  BY DEF Append
<1> QED
  BY <1>1, <1>2, <1>3, <1>4

\* Storing the piece, or the value, in a reader that lives or in its successor.
LEMMA ResultKeeps ==
  ASSUME ReadersInv, CanResult
  PROVE  ReadersInv'
<1>1. PICK hand \in Hand : hand = can /\ can # Idle
  BY DEF CanResult, ReadersInv, Typed
<1>2. PICK f \in Answer : f = hand.answer
  BY HandIs
<1>3. /\ can.at = "result" /\ can' = [hand EXCEPT !.at = "ready"]
      /\ refused' = (refused \/ f.kind = "abort")
      /\ UNCHANGED <<uivars, call, ready, requests, answers, nodevars, stale, acks, disturbed>>
      /\ \/ can.mine /\ StoreResult(f)
         \/ ~can.mine /\ StoreResult(f)
         \/ ~can.mine /\ UNCHANGED <<charbuf, result>>
  BY <1>1, <1>2 DEF CanResult
<1>4. PICK new \in Hand :
        new = can' /\ new # Idle /\ new.at = "ready" /\ new.answer = f /\ new.mine = can.mine
  <2>1. PICK new \in Hand :
          /\ new = [hand EXCEPT !.at = "ready"] /\ new # Idle
          /\ new.at = "ready" /\ new.answer = hand.answer /\ new.mine = hand.mine
    BY HandMoves
  <2> QED
    BY <1>1, <1>2, <1>3, <2>1
<1>5. f.object \in Known /\ f.data \in Value /\ can.mine \in BOOLEAN /\ can.answer = f
  BY <1>1, <1>2, HandIs
<1>6. Typed'
  <2>1. charbuf \in Seq(Value)
    BY DEF ReadersInv, Typed
  <2>2. charbuf' \in Seq(Value)
    <3>1. Append(charbuf, f.data) \in Seq(Value)
      BY <1>5, <2>1
    <3>2. charbuf' = charbuf \/ charbuf' = Append(charbuf, f.data)
      BY <1>3 DEF StoreResult
    <3> QED
      BY <2>1, <3>1, <3>2
  <2>3. refused' \in BOOLEAN
    BY <1>3 DEF ReadersInv, Typed
  <2> QED
    BY <1>3, <1>4, <2>2, <2>3 DEF ReadersInv, Typed, uivars, nodevars
<1>7. Hands'
  BY <1>1, <1>3, <1>4, <1>5 DEF ReadersInv, Hands
<1>8. \A q : InHand(q)' <=> InHand(q)
  BY <1>1, <1>4, <1>5 DEF InHand
<1>9. Chains'
  <2> SUFFICES ASSUME NEW q \in Texts \ disturbed
               PROVE  Chain(q)'
    BY <1>3 DEF Chains
  <2>1. Chain(q) /\ UNCHANGED <<call, ready, requests, answers, cursor>>
    BY <1>3 DEF ReadersInv, Chains, nodevars
  <2>2. Single(q)' /\ (Quiet(q)' <=> Quiet(q))
    BY <1>8, <2>1 DEF Chain, Single, Quiet, None, AtMostOne, Elems
  <2>3. CASE call # q
    BY <2>1, <2>2, <2>3 DEF Chain
  <2>4. CASE call = q
    <3>1. can.mine /\ f.object = q /\ InHand(q)
      BY <1>1, <1>5, <2>4 DEF ReadersInv, Hands, InHand
    <3>2. PICK n : n = Len(charbuf)
      OBVIOUS
    <3>3. /\ charbuf \in Seq(Value) /\ n \in Nat /\ charbuf = [i \in 1 .. n |-> i]
          /\ result \in {NoData, Whole(q)} /\ q \notin Missing
          /\ ~ready /\ f.data = n + 1 /\ n < Pieces[q] /\ cursor[q] = Following(q, n + 1)
          /\ None(requests, q) /\ None(answers, q)
      BY <1>3, <1>5, <2>1, <2>4, <3>1, <3>2 DEF ReadersInv, Typed, Chain, Piecing, Quiet, Single
    <3>4. /\ charbuf' = Append(charbuf, n + 1)
          /\ result' = IF Ends(q, n + 1) /\ result = NoData THEN Text(q, charbuf') ELSE result
      BY <1>3, <3>1, <3>3 DEF StoreResult
    <3>5. charbuf' = [i \in 1 .. (n + 1) |-> i] /\ Len(charbuf') = n + 1
      BY <3>3, <3>4, CountsOn
    <3>6. Pieces[q] \in Nat /\ n + 1 <= Pieces[q]
      BY <3>3, ReadersAssumption
    <3>7. result' \in {NoData, Whole(q)} /\ (Ends(q, n + 1) => result' = Whole(q))
      BY <3>3, <3>4, <3>5 DEF Ends, Whole
    <3>8. /\ can'.at = "ready" /\ can'.answer.data = n + 1 /\ InHand(q)'
          /\ cursor'[q] = Following(q, n + 1) /\ ~ready'
      BY <1>4, <1>8, <2>1, <3>1, <3>3
    <3>9. None(requests, q)' /\ None(answers, q)'
      BY <2>1, <3>3 DEF None, Elems
    <3>10. /\ \A g \in Elems(answers') : g.object # q
      BY <3>9 DEF None
    <3> QED
      BY <2>1, <2>2, <2>4, <3>3, <3>5, <3>6, <3>7, <3>8, <3>9, <3>10
         DEF Chain, Piecing, Whole, Text, Following, Ends
  <2> QED
    BY <2>3, <2>4
<1>10. ASSUME call \in Scalars, ~stale
       PROVE  /\ can.mine /\ f.object = call /\ call \notin Texts
              /\ result' = IF f.kind = "read" THEN f.data ELSE result
              /\ f.kind = "read" => IsCurrent(f.data)
  <2>1. can.mine /\ f.object = call /\ call \notin Texts
    BY <1>1, <1>5, <1>10, ReadersAssumption DEF ReadersInv, Scalar, Hands, Scalars
  <2> QED
    BY <1>1, <1>3, <1>5, <1>10, <2>1 DEF StoreResult, ReadersInv, Scalar
<1>11. Scalar'
  <2> SUFFICES ASSUME call \in Scalars, ~stale
               PROVE  Scalar'
    BY <1>3 DEF Scalar
  <2>1. \A data : IsCurrent(data)' <=> IsCurrent(data)
    BY <1>3 DEF IsCurrent, None, Elems, nodevars
  <2>2. result' # NoData => IsCurrent(result')
    BY <1>10 DEF ReadersInv, Scalar
  <2>3. \A g \in Elems(answers') : (g.object = call /\ g.kind = "read") => IsCurrent(g.data)
    BY <1>3 DEF ReadersInv, Scalar
  <2>4. ReadIsLast(requests', call')
    BY <1>3 DEF ReadersInv, Scalar
  <2> QED
    BY <1>3, <1>4, <1>10, <2>1, <2>2, <2>3, <2>4 DEF Scalar
<1>12. Reason'
  <2> SUFFICES ASSUME call \in Scalars, ~stale, ~acks
               PROVE  Reason'
    BY <1>3 DEF Reason
  <2>1. NoWrite(requests, call) /\ NoWrite(answers, call) /\ f.kind # "write"
    BY <1>1, <1>5 DEF ReadersInv, Reason
  <2>2. ~refused' => result' # NoData
    <3>1. held[call] \in Data
      BY DEF ReadersInv, Typed
    <3>2. f.kind \in {"read", "write", "abort"}
      BY HandIs
    <3> QED
      BY <1>3, <1>10, <2>1, <3>1, <3>2, ReadersAssumption DEF IsCurrent
  <2> QED
    BY <1>3, <1>4, <2>1, <2>2 DEF Reason, NoWrite
<1>13. WholeString'
  BY <1>3 DEF ReadersInv, WholeString, uivars
<1> QED
  BY <1>6, <1>7, <1>9, <1>11, <1>12, <1>13 DEF ReadersInv

\* _ready comes after _result, so that a reader that is ready has its string.
LEMMA ReadyKeeps ==
  ASSUME ReadersInv, CanReady
  PROVE  ReadersInv'
<1>1. PICK hand \in Hand : hand = can /\ can # Idle
  BY DEF CanReady, ReadersInv, Typed
<1>2. PICK f \in Answer : f = hand.answer
  BY HandIs
<1>3. /\ can.at = "ready"
      /\ can' = IF f.object \in Texts THEN [hand EXCEPT !.at = "ask"] ELSE Idle
      /\ UNCHANGED <<uivars, call, charbuf, result, requests, answers, nodevars, callhistory,
                     disturbed>>
      /\ can.mine => StoreReady(f)
      /\ ready' = ready \/ StoreReady(f)
  BY <1>1, <1>2 DEF CanReady
<1>4. /\ can' # Idle => /\ can' \in Hand /\ can'.at = "ask" /\ can'.answer = f
                        /\ can'.mine = can.mine /\ f.object \in Texts
      /\ f.object \in Texts => can' # Idle
  <2>1. PICK new \in Hand :
          /\ new = [hand EXCEPT !.at = "ask"] /\ new # Idle
          /\ new.at = "ask" /\ new.answer = hand.answer /\ new.mine = hand.mine
    BY HandMoves
  <2> QED
    BY <1>1, <1>2, <1>3, <2>1
<1>5. f.object \in Known /\ can.mine \in BOOLEAN /\ can.answer = f
  BY <1>1, <1>2, HandIs
<1>6. Typed'
  <2>1. ready' \in BOOLEAN
    BY <1>3 DEF StoreReady, ReadersInv, Typed
  <2>2. can' \in Hand \cup {Idle}
    BY <1>4
  <2> QED
    BY <1>3, <2>1, <2>2 DEF ReadersInv, Typed, uivars, nodevars, callhistory
<1>7. Hands'
  BY <1>1, <1>3, <1>4, <1>5 DEF ReadersInv, Hands
<1>8. \A q \in Texts : InHand(q)' <=> InHand(q)
  BY <1>1, <1>4, <1>5 DEF InHand
<1>9. Chains'
  <2> SUFFICES ASSUME NEW q \in Texts \ disturbed
               PROVE  Chain(q)'
    BY <1>3 DEF Chains
  <2>1. Chain(q) /\ UNCHANGED <<call, charbuf, result, requests, answers, cursor>>
    BY <1>3 DEF ReadersInv, Chains, nodevars
  <2>2. Single(q)' /\ (Quiet(q)' <=> Quiet(q))
    BY <1>8, <2>1 DEF Chain, Single, Quiet, None, AtMostOne, Elems
  <2>3. CASE call # q
    BY <2>1, <2>2, <2>3 DEF Chain
  <2>4. CASE call = q
    <3>1. can.mine /\ f.object = q /\ InHand(q)
      BY <1>1, <1>5, <2>4 DEF ReadersInv, Hands, InHand
    <3>2. PICK n : n = Len(charbuf)
      OBVIOUS
    <3>3. /\ charbuf = [i \in 1 .. n |-> i]
          /\ result \in {NoData, Whole(q)} /\ q \notin Missing
          /\ ~ready /\ f.data = n /\ n <= Pieces[q] /\ cursor[q] = Following(q, n)
          /\ (Ends(q, n) => result = Whole(q))
          /\ None(requests, q) /\ None(answers, q)
      BY <1>3, <1>5, <2>1, <2>4, <3>1, <3>2 DEF Chain, Piecing, Quiet, Single
    <3>4. ready' <=> Ends(q, n)
      <4>1. ready' = (ready \/ f.object \notin Texts \/ Ends(f.object, f.data))
        BY <1>3, <3>1 DEF StoreReady
      <4> QED
        BY <3>1, <3>3, <4>1 DEF Ends
    <3>5. can'.at = "ask" /\ can'.answer.data = n /\ InHand(q)'
      BY <1>4, <1>8, <3>1, <3>3
    <3>6. None(requests, q)' /\ None(answers, q)' /\ \A g \in Elems(answers') : g.object # q
      BY <2>1, <3>3 DEF None, Elems
    <3> QED
      BY <2>1, <2>2, <2>4, <3>2, <3>3, <3>4, <3>5, <3>6 DEF Chain, Piecing, Whole, Text, Following, Ends
  <2> QED
    BY <2>3, <2>4
<1>10. ASSUME call \in Scalars, ~stale
       PROVE  can.mine /\ f.object = call /\ can' = Idle
  BY <1>1, <1>3, <1>5, <1>10, ReadersAssumption DEF ReadersInv, Scalar, Hands, Scalars
<1>11. Scalar'
  BY <1>3, <1>10 DEF ReadersInv, Scalar, IsCurrent, None, Elems, nodevars, callhistory
<1>12. Reason'
  BY <1>1, <1>3, <1>10 DEF ReadersInv, Reason, NoWrite, nodevars, callhistory
<1>13. WholeString'
  BY <1>3 DEF ReadersInv, WholeString, uivars
<1> QED
  BY <1>6, <1>7, <1>9, <1>11, <1>12, <1>13 DEF ReadersInv

\* The next piece is asked for by the handler of the one before it, or by
\* nobody.
LEMMA AskKeeps ==
  ASSUME ReadersInv, CanAsk
  PROVE  ReadersInv'
<1>1. PICK hand \in Hand : hand = can /\ can # Idle
  BY DEF CanAsk, ReadersInv, Typed
<1>2. PICK f \in Answer : f = hand.answer
  BY HandIs
<1>3. /\ can.at = "ask" /\ can' = Idle /\ can.answer = f
      /\ UNCHANGED <<uivars, readervars, answers, nodevars, callhistory, disturbed>>
  BY <1>1, <1>2 DEF CanAsk
<1>4. f.object \in Known /\ f.object \in Texts /\ can.mine \in BOOLEAN
  BY <1>1, <1>2, <1>3, HandIs DEF ReadersInv, Hands
<1>5. CASE \E o \in Known \cap Texts :
             /\ Sent([kind |-> "read", object |-> o])
             /\ \/ can.mine /\ ~ready /\ o = call
                \/ ~can.mine /\ o \in disturbed
  <2>1. PICK o \in Known \cap Texts :
          /\ Sent([kind |-> "read", object |-> o])
          /\ (can.mine /\ ~ready /\ o = call) \/ (~can.mine /\ o \in disturbed)
    BY <1>5
  <2>2. PICK r \in Request : r = [kind |-> "read", object |-> o]
    BY RequestIs
  <2>3. /\ requests' \in Seq(Request)
        /\ Elems(requests) \subseteq Elems(requests')
        /\ Elems(requests') \subseteq Elems(requests) \cup {r}
        /\ \A q : /\ AtMostOne(requests, q) /\ o # q => AtMostOne(requests', q)
                  /\ None(requests, q) => AtMostOne(requests', q)
                  /\ None(requests, q) /\ o # q => None(requests', q)
    BY <2>1, <2>2, SentFacts DEF ReadersInv, Typed, None
  <2>4. Typed' /\ Hands'
    BY <1>3, <2>3 DEF ReadersInv, Typed, Hands, uivars, readervars, nodevars, callhistory
  <2>5. Chains'
    <3> SUFFICES ASSUME NEW q \in Texts \ disturbed
                 PROVE  Chain(q)'
      BY <1>3 DEF Chains
    <3>1. Chain(q) /\ UNCHANGED <<call, charbuf, result, ready, answers, cursor>> /\ ~InHand(q)'
      BY <1>3 DEF ReadersInv, Chains, nodevars, readervars, InHand
    <3>2. CASE o # q
      <4>1. ~InHand(q)
        BY <1>1, <1>3, <2>1, <3>2 DEF ReadersInv, Hands, InHand
      <4>2. Single(q)' /\ (Quiet(q) => Quiet(q)') /\ (None(requests, q) <=> None(requests', q))
        BY <2>3, <3>1, <3>2, <4>1 DEF Chain, Single, Quiet, None
      <4> QED
        BY <3>1, <4>1, <4>2 DEF Chain, Piecing, Whole, Text, Following, Ends
    <3>3. CASE o = q
      <4>1. can.mine /\ ~ready /\ call = q /\ InHand(q)
        BY <1>1, <2>1, <3>3 DEF ReadersInv, Hands, InHand
      <4>2. PICK n : n = Len(charbuf)
        OBVIOUS
      <4>3. /\ charbuf = [i \in 1 .. n |-> i]
            /\ result \in {NoData, Whole(q)} /\ q \notin Missing
            /\ n <= Pieces[q] /\ cursor[q] = Following(q, n) /\ ~Ends(q, n)
            /\ None(requests, q) /\ None(answers, q)
        BY <1>3, <3>1, <4>1, <4>2 DEF Chain, Piecing, Quiet, Single
      <4>4. n < Pieces[q] /\ cursor[q] = n + 1
        <5>1. n \in Nat /\ Pieces[q] \in Nat
          BY <4>2, ReadersAssumption DEF ReadersInv, Typed
        <5> QED
          BY <4>3, <5>1 DEF Following, Ends
      <4>5. Single(q)' /\ \A g \in Elems(answers') : g.object # q
        BY <2>3, <3>1, <4>3 DEF Chain, Single, None
      <4> QED
        BY <3>1, <4>1, <4>2, <4>3, <4>4, <4>5 DEF Chain, Piecing, Whole, Text, Following, Ends, None
    <3> QED
      BY <3>2, <3>3
  <2>6. (call \in Scalars /\ ~stale) => FALSE
    BY <1>1, <1>3, <1>4, ReadersAssumption DEF ReadersInv, Scalar, Hands, Scalars
  <2>7. Scalar' /\ Reason'
    BY <1>3, <2>6 DEF Scalar, Reason, readervars, callhistory
  <2>8. WholeString'
    BY <1>3 DEF ReadersInv, WholeString, uivars
  <2> QED
    BY <2>4, <2>5, <2>7, <2>8 DEF ReadersInv
<1>6. CASE requests' = requests /\ (can.mine => ready)
  <2>1. Typed' /\ Hands'
    BY <1>3, <1>6 DEF ReadersInv, Typed, Hands, uivars, readervars, nodevars, callhistory
  <2>2. Chains'
    <3> SUFFICES ASSUME NEW q \in Texts \ disturbed
                 PROVE  Chain(q)'
      BY <1>3 DEF Chains
    <3>1. Chain(q) /\ UNCHANGED <<call, charbuf, result, ready, requests, answers, cursor>>
          /\ ~InHand(q)'
      BY <1>3, <1>6 DEF ReadersInv, Chains, nodevars, readervars, InHand
    <3>2. Single(q)' /\ (Quiet(q) => Quiet(q)')
      BY <3>1 DEF Chain, Single, Quiet
    <3>3. CASE InHand(q) /\ call = q
      <4>1. ready
        BY <1>1, <1>6, <3>3 DEF ReadersInv, Hands, InHand
      <4>2. result = Whole(q) /\ cursor[q] = 1
        BY <1>3, <3>1, <3>3, <4>1 DEF Chain, Piecing, Following
      <4> QED
        BY <1>3, <3>1, <3>2, <3>3, <4>1, <4>2 DEF Chain, Piecing, Quiet, Whole, Text, Following, Ends
    <3>4. CASE ~(InHand(q) /\ call = q)
      BY <3>1, <3>2, <3>4 DEF Chain, Piecing, Quiet, Whole, Text, Following, Ends
    <3> QED
      BY <3>3, <3>4
  <2>3. Scalar' /\ Reason'
    BY <1>3, <1>6 DEF ReadersInv, Scalar, Reason, IsCurrent, None, NoWrite, Elems, readervars,
                      nodevars, callhistory
  <2>4. WholeString'
    BY <1>3 DEF ReadersInv, WholeString, uivars
  <2> QED
    BY <2>1, <2>2, <2>3, <2>4 DEF ReadersInv
<1>7. ASSUME ~(requests' = requests /\ (can.mine => ready))
      PROVE  \E o \in Known \cap Texts :
               /\ Sent([kind |-> "read", object |-> o])
               /\ \/ can.mine /\ ~ready /\ o = call
                  \/ ~can.mine /\ o \in disturbed
  <2>1. PICK o \in {f.object} \cup (IF can.mine THEN {} ELSE {call} \cap (Texts \ Missing)) :
          /\ can.mine => ~ready
          /\ Sent([kind |-> "read", object |-> o])
    BY <1>3, <1>7 DEF CanAsk
  <2>2. o \in Known \cap Texts
    BY <1>4, <2>1 DEF Known, Object
  <2>3. CASE can.mine
    BY <1>1, <1>3, <2>1, <2>2, <2>3 DEF ReadersInv, Hands
  <2>4. CASE ~can.mine
    BY <1>1, <1>3, <2>1, <2>2, <2>4 DEF ReadersInv, Hands
  <2> QED
    BY <2>3, <2>4
<1> QED
  BY <1>5, <1>6, <1>7

-----------------------------------------------------------------------------
(* The node.                                                               *)

\* Which answer the node may give to the request r, and what it changes.
Serves(r, a) ==
  /\ a.object = r.object
  /\ a.kind = "write" => r.kind = "write"
  /\ a.kind = "read" =>
       /\ r.kind = "read" /\ held' = held
       /\ IF r.object \in Texts
          THEN a.data = cursor[r.object] /\ cursor'[r.object] = Following(r.object, a.data)
          ELSE a.data = held[r.object]

\* What the node does to the request it takes, of whichever kind.
LEMMA NodeServes ==
  ASSUME ReadersInv, NodeStep
  PROVE  \E r \in Request :
           /\ r = Head(requests) /\ requests # << >> /\ requests' = Tail(requests)
           /\ answers' = answers \/ (\E a \in Answer : Serves(r, a) /\ answers' = Append(answers, a))
           /\ held' \in [Scalars -> Data]
           /\ \A o \in Scalars :
                held'[o] # held[o] => o = r.object /\ r.kind # "read"
           /\ cursor' \in [Texts -> Nat]
           /\ \A o \in Texts : o # r.object => cursor'[o] = cursor[o]
           /\ UNCHANGED <<uivars, readervars, can, callhistory, disturbed>>
<1>1. PICK r \in Request : r = Head(requests) /\ requests # << >>
  BY DEF NodeStep, ReadersInv, Typed
<1>2. /\ requests' = Tail(requests)
      /\ UNCHANGED <<uivars, readervars, can, callhistory, disturbed>>
  BY DEF NodeStep
<1>3. /\ held \in [Scalars -> Data] /\ cursor \in [Texts -> Nat]
      /\ r.object \in Known /\ r.kind \in {"read", "restore", "write"}
      /\ r.object \in Param \/ r.kind = "read"
      /\ r.kind = "write" => r.data \in Data
  BY ReadersAssumption DEF ReadersInv, Typed, Request, Known, Object
<1>4. ASSUME NEW kind \in {"read", "write", "abort"}, NEW data \in Value,
             Answered([kind |-> kind, object |-> r.object, data |-> data]),
             kind = "write" => r.kind = "write",
             kind = "read" =>
               /\ r.kind = "read" /\ held' = held
               /\ IF r.object \in Texts
                  THEN data = cursor[r.object] /\ cursor'[r.object] = Following(r.object, data)
                  ELSE data = held[r.object]
      PROVE  answers' = answers \/ (\E a \in Answer : Serves(r, a) /\ answers' = Append(answers, a))
  <2>1. PICK a \in Answer : a = [kind |-> kind, object |-> r.object, data |-> data]
    BY <1>3 DEF Answer
  <2>2. a.kind = kind /\ a.object = r.object /\ a.data = data
    BY <2>1
  <2>3. Serves(r, a)
    BY <1>4, <2>2 DEF Serves
  <2> QED
    BY <1>4, <2>1, <2>3 DEF Answered
<1>5. CASE Refuse(r.object)
  <2>1. NoData \in Value
    BY DEF Value
  <2>2. answers' = answers \/ (\E a \in Answer : Serves(r, a) /\ answers' = Append(answers, a))
    BY <1>4, <1>5, <2>1 DEF Refuse
  <2> QED
    BY <1>1, <1>2, <1>3, <1>5, <2>2 DEF Refuse, nodevars
<1>6. CASE r.kind = "read" /\ NodeReads(r.object)
  <2>1. CASE r.object \in Texts
    <3>1. /\ Answered([kind |-> "read", object |-> r.object, data |-> cursor[r.object]])
          /\ cursor' = [cursor EXCEPT ![r.object] = Following(r.object, @)]
          /\ held' = held
      BY <1>6, <2>1 DEF NodeReads, Following
    <3>2. cursor[r.object] \in Nat /\ cursor[r.object] \in Value
      BY <1>3, <2>1 DEF Value
    <3>3. Following(r.object, cursor[r.object]) \in Nat
      BY <3>2 DEF Following
    <3>4. /\ cursor'[r.object] = Following(r.object, cursor[r.object])
          /\ cursor' \in [Texts -> Nat]
          /\ \A o \in Texts : o # r.object => cursor'[o] = cursor[o]
      BY <1>3, <2>1, <3>1, <3>3
    <3>5. answers' = answers \/ (\E a \in Answer : Serves(r, a) /\ answers' = Append(answers, a))
      BY <1>4, <1>6, <2>1, <3>1, <3>2, <3>4
    <3> QED
      BY <1>1, <1>2, <1>3, <3>1, <3>4, <3>5
  <2>2. CASE r.object \notin Texts
    <3>1. /\ Answered([kind |-> "read", object |-> r.object, data |-> held[r.object]])
          /\ held' = held /\ cursor' = cursor
      BY <1>6, <2>2 DEF NodeReads, nodevars
    <3>2. held[r.object] \in Value
      BY <1>3, <2>2 DEF Value, Known, Object, Scalars
    <3>3. answers' = answers \/ (\E a \in Answer : Serves(r, a) /\ answers' = Append(answers, a))
      BY <1>4, <1>6, <2>2, <3>1, <3>2
    <3> QED
      BY <1>1, <1>2, <1>3, <3>1, <3>3
  <2> QED
    BY <2>1, <2>2
<1>7. CASE r.kind = "write" /\ NodeWrites(r.object, r.data)
  <2>1. /\ Answered([kind |-> "write", object |-> r.object, data |-> NoData])
        /\ held' = [held EXCEPT ![r.object] = r.data] /\ cursor' = cursor
    BY <1>7 DEF NodeWrites
  <2>2. NoData \in Value
    BY DEF Value
  <2>3. answers' = answers \/ (\E a \in Answer : Serves(r, a) /\ answers' = Append(answers, a))
    BY <1>4, <1>7, <2>1, <2>2
  <2>4. /\ held' \in [Scalars -> Data]
        /\ \A o \in Scalars : held'[o] # held[o] => o = r.object
    BY <1>3, <1>7, <2>1
  <2> QED
    BY <1>1, <1>2, <1>3, <1>7, <2>1, <2>3, <2>4
<1>8. CASE r.kind = "restore" /\ NodeRestores(r.object)
  <2>1. answers' = answers /\ cursor' = cursor
        /\ (held' = held \/ held' = [held EXCEPT ![r.object] = Default])
    BY <1>8 DEF NodeRestores
  <2>2. /\ held' \in [Scalars -> Data]
        /\ \A o \in Scalars : held'[o] # held[o] => o = r.object
    <3>1. r.object \in Param /\ Default \in Data
      BY <1>3, <1>8, ReadersAssumption DEF Request
    <3>2. CASE held' = held
      BY <1>3, <3>2
    <3>3. CASE held' = [held EXCEPT ![r.object] = Default]
      BY <1>3, <3>1, <3>3
    <3> QED
      BY <2>1, <3>2, <3>3
  <2> QED
    BY <1>1, <1>2, <1>3, <1>8, <2>1, <2>2
<1> QED
  BY <1>1, <1>3, <1>5, <1>6, <1>7, <1>8 DEF NodeStep

\* The node answers in the order it is asked: a write before the read behind it.
LEMMA NodeKeeps ==
  ASSUME ReadersInv, NodeStep
  PROVE  ReadersInv'
<1>1. PICK r \in Request :
        /\ r = Head(requests) /\ requests # << >> /\ requests' = Tail(requests)
        /\ answers' = answers \/ (\E a \in Answer : Serves(r, a) /\ answers' = Append(answers, a))
        /\ held' \in [Scalars -> Data]
        /\ \A o \in Scalars :
             held'[o] # held[o] => o = r.object /\ r.kind # "read"
        /\ cursor' \in [Texts -> Nat]
        /\ \A o \in Texts : o # r.object => cursor'[o] = cursor[o]
        /\ UNCHANGED <<uivars, readervars, can, callhistory, disturbed>>
  BY NodeServes
<1>2. /\ requests' \in Seq(Request) /\ r \in Elems(requests) /\ Elems(requests') \subseteq Elems(requests)
      /\ \A o : /\ AtMostOne(requests, o) => AtMostOne(requests', o)
                /\ (AtMostOne(requests, o) /\ r.object = o) => None(requests', o)
                /\ ReadIsLast(requests, o) => ReadIsLast(requests', o)
                /\ (ReadIsLast(requests, o) /\ r.object = o /\ r.kind = "read") => None(requests', o)
  BY <1>1, TailOf DEF ReadersInv, Typed
<1>3. /\ answers' \in Seq(Answer)
      /\ \A f \in Elems(answers') : f \in Elems(answers) \/ Serves(r, f)
      /\ \A o : /\ None(answers, o) => AtMostOne(answers', o)
                /\ o # r.object /\ AtMostOne(answers, o) => AtMostOne(answers', o)
                /\ o # r.object => (None(answers, o) <=> None(answers', o))
  <2>1. answers \in Seq(Answer)
    BY DEF ReadersInv, Typed
  <2>2. CASE answers' = answers
    <3>1. \A o : None(answers, o) => AtMostOne(answers, o)
      BY DEF None, AtMostOne, Elems
    <3> QED
      BY <2>1, <2>2, <3>1
  <2>3. CASE answers' # answers
    <3>1. PICK a \in Answer : Serves(r, a) /\ answers' = Append(answers, a)
      BY <1>1, <2>3
    <3>2. /\ Append(answers, a) \in Seq(Answer)
          /\ Elems(Append(answers, a)) = Elems(answers) \cup {a}
          /\ \A o : /\ AtMostOne(answers, o) /\ a.object # o => AtMostOne(Append(answers, a), o)
                    /\ None(answers, o) => AtMostOne(Append(answers, a), o)
      BY <2>1, AppendOf
    <3>3. a.object = r.object
      BY <3>1 DEF Serves
    <3> QED
      BY <3>1, <3>2, <3>3 DEF None
  <2> QED
    BY <2>2, <2>3
<1>4. Typed'
  BY <1>1, <1>2, <1>3 DEF ReadersInv, Typed, uivars, readervars, callhistory
<1>5. Hands'
  BY <1>1 DEF ReadersInv, Hands, readervars
<1>6. Chains'
  <2> SUFFICES ASSUME NEW q \in Texts \ disturbed
               PROVE  Chain(q)'
    BY <1>1 DEF Chains
  <2>1. Chain(q) /\ UNCHANGED <<call, charbuf, result, ready, can>>
    BY <1>1 DEF ReadersInv, Chains, readervars
  <2>2. InHand(q)' <=> InHand(q)
    BY <2>1 DEF InHand
  <2>3. CASE r.object # q
    <3>1. /\ AtMostOne(requests, q)' /\ AtMostOne(answers, q)' /\ cursor'[q] = cursor[q]
          /\ None(requests, q) => None(requests, q)'
          /\ None(answers, q)' <=> None(answers, q)
          /\ \A f \in Elems(answers') : f.object = q => f \in Elems(answers)
      BY <1>1, <1>2, <1>3, <2>1, <2>3 DEF Chain, Single, None, Serves
    <3>2. Single(q)' /\ (Quiet(q) => Quiet(q)')
      BY <2>1, <2>2, <3>1 DEF Chain, Single, Quiet
    <3>3. CASE call # q
      BY <2>1, <3>1, <3>2, <3>3 DEF Chain
    <3>4. CASE call = q
      BY <2>1, <2>2, <3>1, <3>2, <3>4 DEF Chain, Piecing, Whole, Text, Following, Ends
    <3> QED
      BY <3>3, <3>4
  <2>4. CASE r.object = q
    <3>1. ~None(requests, q) /\ None(answers, q) /\ ~InHand(q) /\ call = q
      BY <1>2, <2>1, <2>4 DEF None, Chain, Single, Quiet
    <3>2. PICK n : n = Len(charbuf)
      OBVIOUS
    <3>3. /\ charbuf = [i \in 1 .. n |-> i] /\ result \in {NoData, Whole(q)} /\ q \notin Missing
          /\ ~ready /\ n < Pieces[q] /\ cursor[q] = n + 1
      BY <2>1, <3>1, <3>2 DEF Chain, Piecing, Quiet
    <3>4. None(requests, q)' /\ AtMostOne(requests, q)' /\ AtMostOne(answers, q)'
      BY <1>2, <1>3, <2>1, <2>4, <3>1 DEF Chain, Single
    <3>5. Single(q)' /\ ~InHand(q)'
      BY <2>2, <3>1, <3>4 DEF Single
    <3>6. \A f \in Elems(answers') : (f.object = q /\ f.kind = "read")
             => f.data = n + 1 /\ cursor'[q] = Following(q, n + 1)
      <4>1. \A f \in Elems(answers) : f.object # q
        BY <3>1 DEF None
      <4> QED
        BY <1>3, <2>4, <3>3, <4>1 DEF Serves
    <3> QED
      BY <2>1, <3>1, <3>2, <3>3, <3>4, <3>5, <3>6 DEF Chain, Piecing, Whole, Text, Following, Ends
  <2> QED
    BY <2>3, <2>4
<1>7. ASSUME call \in Scalars, ~stale
      PROVE  /\ UNCHANGED <<call, result, can, stale, acks, ready, refused>>
             /\ \A data : IsCurrent(data) => IsCurrent(data)'
             /\ \A f \in Elems(answers') : (f.object = call /\ f.kind = "read") => IsCurrent(f.data)'
  <2>1. UNCHANGED <<call, result, can, stale, acks, ready, refused>>
    BY <1>1 DEF readervars, callhistory
  <2>3. None(requests, call) => None(requests', call) /\ r.object # call
    BY <1>2 DEF None
  <2>4. ASSUME NEW data, IsCurrent(data)
        PROVE  IsCurrent(data)'
    <3>1. data = held[call] /\ None(requests', call) /\ r.object # call
      BY <2>3, <2>4 DEF IsCurrent
    <3>2. held'[call] = held[call]
      BY <1>1, <1>7, <3>1
    <3> QED
      BY <2>1, <3>1, <3>2 DEF IsCurrent
  <2>5. ASSUME NEW f \in Elems(answers'), f.object = call, f.kind = "read"
        PROVE  IsCurrent(f.data)'
    <3>1. CASE f \in Elems(answers)
      BY <1>7, <2>4, <2>5, <3>1 DEF ReadersInv, Scalar
    <3>2. CASE Serves(r, f)
      <4>1. r.object = call /\ r.kind = "read" /\ held' = held /\ call \notin Texts
        BY <1>7, <2>5, <3>2, ReadersAssumption DEF Serves, Scalars
      <4>2. f.data = held[call] /\ None(requests', call)
        BY <1>2, <1>7, <2>5, <3>2, <4>1 DEF Serves, ReadersInv, Scalar
      <4> QED
        BY <2>1, <4>1, <4>2 DEF IsCurrent
    <3> QED
      BY <1>3, <2>5, <3>1, <3>2
  <2> QED
    BY <2>1, <2>4, <2>5
<1>8. Scalar'
  <2> SUFFICES ASSUME call \in Scalars, ~stale
               PROVE  Scalar'
    BY <1>1 DEF Scalar, readervars, callhistory
  <2>1. ReadIsLast(requests', call)
    BY <1>2 DEF ReadersInv, Scalar
  <2>2. (can # Idle /\ can.at = "result" /\ can.answer.kind = "read") => IsCurrent(can.answer.data)'
    BY <1>7 DEF ReadersInv, Scalar
  <2>3. result # NoData => IsCurrent(result)'
    BY <1>7 DEF ReadersInv, Scalar
  <2> QED
    BY <1>7, <2>1, <2>2, <2>3 DEF ReadersInv, Scalar, IsCurrent
<1>9. Reason'
  <2> SUFFICES ASSUME call \in Scalars, ~stale, ~acks
               PROVE  Reason'
    BY <1>1 DEF Reason, readervars, callhistory
  <2>1. NoWrite(requests', call)
    BY <1>2 DEF ReadersInv, Reason, NoWrite
  <2>2. NoWrite(answers', call)
    BY <1>2, <1>3 DEF ReadersInv, Reason, NoWrite, Serves
  <2> QED
    BY <1>7, <2>1, <2>2 DEF ReadersInv, Reason
<1>10. WholeString'
  BY <1>1 DEF ReadersInv, WholeString, uivars
<1> QED
  BY <1>4, <1>5, <1>6, <1>8, <1>9, <1>10 DEF ReadersInv

-----------------------------------------------------------------------------
(* The invariant, and the properties that follow from it.                  *)

\* The program starts with no call, and nothing on the bus.
LEMMA ReadersBegin == ReadersInit => ReadersInv
<1> SUFFICES ASSUME ReadersInit
             PROVE  ReadersInv
  OBVIOUS
<1>1. /\ requests = << >> /\ answers = << >> /\ can = Idle /\ call = NoObject
      /\ call \notin Object
  BY ReadersAssumption DEF ReadersInit, Object
<1>2. \A o : None(requests, o) /\ None(answers, o) /\ ~InHand(o)
             /\ AtMostOne(requests, o) /\ AtMostOne(answers, o)
  BY <1>1 DEF None, Elems, InHand, AtMostOne
<1>3. Typed
  <2>1. << >> \in Seq(Value) /\ << >> \in Seq(Request) /\ << >> \in Seq(Answer)
    OBVIOUS
  <2>2. call \notin Param /\ call \in Object \cup {NoObject}
    BY <1>1 DEF Object
  <2>3. cursor \in [Texts -> Nat]
    BY DEF ReadersInit
  <2> QED
    BY <1>1, <2>1, <2>2, <2>3 DEF ReadersInit, Typed, Scalars
<1>4. Hands
  BY <1>1 DEF Hands
<1>5. Chains
  BY <1>1, <1>2 DEF Chains, Chain, Single, Quiet, ReadersInit, Object
<1>6. Scalar /\ Reason
  BY <1>1 DEF Scalar, Reason, Scalars, Object
<1>7. WholeString
  BY DEF WholeString, ReadersInit
<1> QED
  BY <1>3, <1>4, <1>5, <1>6, <1>7 DEF ReadersInv

\* A step that changes nothing keeps the invariant.
LEMMA StutterKeeps ==
  ASSUME ReadersInv, UNCHANGED readersvars
  PROVE  ReadersInv'
<1>1. /\ UNCHANGED <<shown, selected, value, should_read, ui, call, charbuf, result, ready>>
      /\ UNCHANGED <<can, requests, answers, held, cursor, stale, acks, refused, disturbed>>
  BY DEF readersvars, uivars, readervars, nodevars, callhistory
<1>2. Typed' /\ Hands' /\ WholeString'
  BY <1>1 DEF ReadersInv, Typed, Hands, WholeString
<1>3. Chains'
  <2> SUFFICES ASSUME NEW o \in Texts \ disturbed
               PROVE  Chain(o)'
    BY <1>1 DEF Chains
  <2>1. Chain(o)
    BY DEF ReadersInv, Chains
  <2>2. Single(o)' = Single(o) /\ Quiet(o)' = Quiet(o)
    BY <1>1 DEF Single, Quiet, None, AtMostOne, InHand, Elems
  <2>3. Piecing(o)' = Piecing(o)
    BY <1>1 DEF Piecing, Quiet, None, InHand, Elems, Whole, Text, Ends, Following
  <2> QED
    BY <1>1, <2>1, <2>2, <2>3 DEF Chain
<1>4. Scalar' /\ Reason'
  BY <1>1 DEF ReadersInv, Scalar, Reason, ReadIsLast, NoWrite, IsCurrent, None, Elems
<1> QED
  BY <1>2, <1>3, <1>4 DEF ReadersInv

\* The invariant holds of every run.
THEOREM ReadersInvariance == ReadersSpec => []ReadersInv
<1>1. ReadersInit => ReadersInv
  BY ReadersBegin
<1>2. ReadersInv /\ [ReadersNext]_readersvars => ReadersInv'
  BY UiKeeps, TakesKeeps, ResultKeeps, ReadyKeeps, AskKeeps, NodeKeeps, StutterKeeps
  DEF ReadersNext, CanStep
<1> QED
  BY <1>1, <1>2, PTL DEF ReadersSpec

\* A string that is shown is the node's, whole: neither a part of it nor pieces
\* of two answers mixed, however the CAN thread's steps fall between the UI
\* thread's.  What a lost answer or a call cut short leaves behind excuses that
\* string no longer than until a call for it begins afresh.
THEOREM WholeStringAlways == ReadersSpec => []WholeString
<1>1. ReadersInv => WholeString
  BY DEF ReadersInv
<1> QED
  BY <1>1, ReadersInvariance, PTL

\* A call ends in Return and nowhere else.
LEMMA EndsInReturn ==
  ASSUME [ReadersNext]_readersvars, call # NoObject, call' = NoObject
  PROVE  Return
<1>1. CASE UiStep
  BY <1>1 DEF UiStep, UiRefresh, UiAbout, UiSetup, UiEdit, UiReturns, UiGivesUp
<1>2. CASE CanStep
  BY <1>2 DEF CanStep, CanTakes, CanResult, CanReady, CanAsk, readervars
<1>3. CASE NodeStep
  BY <1>3 DEF NodeStep, readervars
<1>4. CASE UNCHANGED readersvars
  BY <1>4 DEF readersvars, readervars
<1> QED
  BY <1>1, <1>2, <1>3, <1>4 DEF ReadersNext

\* The value shown after a read is the one the node has, after every write of
\* the operator's was carried out, unless an earlier read of the object was
\* still under way.
THEOREM ParamIsCurrentAlways == ReadersSpec => ParamIsCurrent
<1>1. ASSUME ReadersInv, [ReadersNext]_readersvars,
             call \in Param, call' = NoObject, value' # NoData, ~stale
      PROVE  value' = held[selected]
  <2>1. call # NoObject /\ call \in Scalars
    BY <1>1, ReadersAssumption DEF Scalars
  <2>2. value' = result
    BY <1>1, <2>1, EndsInReturn DEF Return
  <2>3. call = selected
    BY <1>1 DEF ReadersInv, Typed
  <2> QED
    BY <1>1, <2>1, <2>2, <2>3 DEF ReadersInv, Scalar, IsCurrent
<1> QED
  BY <1>1, ReadersInvariance, PTL DEF ReadersSpec, ParamIsCurrent

\* A call that was answered comes back empty only because the node refused, or
\* an answer to an earlier request was taken for the call's own, or the string's
\* reader was cut short.
THEOREM EmptyForAReason == ReadersSpec => NothingForAReason
<1>1. ASSUME ReadersInv, [ReadersNext]_readersvars,
             call # NoObject, call' = NoObject, ready, result = NoData
      PROVE  refused \/ acks \/ stale \/ call \in Missing \cup disturbed'
  <2>1. disturbed' = disturbed \cup
          (IF (ready /\ can = Idle) \/ call \in Missing THEN {} ELSE {call} \cap Texts)
    BY <1>1, EndsInReturn DEF Return
  <2>2. call \in Texts \/ call \in Missing \/ call \in Scalars
    BY <1>1 DEF ReadersInv, Typed, Object, Scalars
  <2>3. CASE call \in Scalars
    BY <1>1, <2>3 DEF ReadersInv, Reason
  <2>4. CASE call \in Texts \ (Missing \cup disturbed)
    <3>1. PICK o \in Texts \ disturbed : o = call /\ o \notin Missing
      BY <2>4
    <3>4. Chain(o)
      BY <1>1 DEF ReadersInv, Chains
    <3>5. Piecing(o)
      BY <3>1, <3>4 DEF Chain
    <3>2. result # Whole(o)
      BY <1>1, ReadersValues
    <3>3. can # Idle
      BY <1>1, <3>1, <3>2, <3>5 DEF Piecing, InHand
    <3> QED
      BY <2>1, <2>4, <3>3
  <2> QED
    BY <2>1, <2>2, <2>3, <2>4
<1> QED
  BY <1>1, ReadersInvariance, PTL DEF ReadersSpec, NothingForAReason
=============================================================================
