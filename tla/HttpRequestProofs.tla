------------------------- MODULE HttpRequestProofs -------------------------
(***************************************************************************)
(* CallbacksReferenced, ResponseInOrder and FramesInOrder hold for every   *)
(* number of coroutines, every queue limit and any number of frames.       *)
(*                                                                         *)
(* None of them is inductive.  The reference the close callback needs is   *)
(* kept because the callback goes with the first reply, and no WebSocket   *)
(* exists before it; a bufferevent is live because it is cleared by the    *)
(* only routine that schedules its end; frames stay in order because the   *)
(* queue lies between what was received and what is still in the buffer.   *)
(***************************************************************************)
EXTENDS HttpRequest, SequenceTheorems, TLAPS

Resumers == {"http", "lua", "timer", "ws"}
CoStates == {"ready", "running", "sleeping", "waiting", "done"}

FlagsOK ==
  /\ req \in BOOLEAN /\ gcRef \in BOOLEAN /\ selfRef \in BOOLEAN
  /\ closecb \in BOOLEAN /\ bev \in BOOLEAN /\ cleaning \in BOOLEAN
  /\ freeing \in BOOLEAN /\ output \in BOOLEAN /\ evreq \in BOOLEAN

StatesOK ==
  /\ status \in {"none", "start", "replyed"}
  /\ response \in {"none", "started", "ended"}
  /\ wsState \in {"connecting", "open", "closing", "closed"}
  /\ cb \in {"http", "ws", "flush", "none"}
  /\ conn \in {"open", "freed"}
  /\ peer \in {"open", "closed", "gone"}

\* The coroutines: those on the stack run and are there once, the one a read
\* will resume waits, and only the handler returns to httpd_handler_cgi_bin.
LuaOK ==
  /\ stack \in Seq(Coroutines \X Resumers)
  /\ co \in [Coroutines -> CoStates]
  /\ ref \in Coroutines \cup {NoCo}
  /\ \A i \in 1..Len(stack) :
       /\ co[stack[i][1]] = "running"
       /\ stack[i][2] = "http" => stack[i][1] = Handler
       /\ stack[i][2] = "ws" => wsState # "connecting"
       /\ \A j \in 1..Len(stack) : i # j => stack[i][1] # stack[j][1]
  /\ ref # NoCo => co[ref] = "waiting" /\ wsState # "connecting"

\* The guard of the close callback.
GuardOK ==
  /\ closecb => gcRef /\ req /\ wsState = "connecting"
  /\ (req /\ status # "replyed" /\ co[Handler] # "done") => evreq /\ closecb
  /\ evreq => conn = "open"

\* The life of the bufferevent.
SocketOK ==
  /\ wsState = "connecting" => ~bev /\ ~cleaning /\ ~freeing /\ cb = "http"
  /\ wsState # "connecting" => status = "replyed" /\ (bev \/ cleaning)
  /\ bev => ~cleaning /\ ~freeing /\ cb = "ws" /\ selfRef /\ conn = "open" /\ evreq
  /\ cleaning => cb \in {"flush", "none"}
  /\ cb = "flush" => ~freeing
  /\ (cb = "flush" \/ freeing) => selfRef /\ conn = "open"

\* What was received, what is queued and what is still in the buffer.
FramesOK ==
  /\ sent \in Nat
  /\ received \in Seq(Nat) /\ queue \in Seq(Nat)
  /\ inbox \in Seq(Kinds \X Nat)
  /\ \A i, j \in 1..Len(inbox) : i < j => inbox[i][2] < inbox[j][2]
  /\ \A i \in 1..Len(inbox) : inbox[i][2] =< sent
  /\ \A i, j \in 1..Len(received) : i < j => received[i] < received[j]
  /\ \A i, j \in 1..Len(queue) : i < j => queue[i] < queue[j]
  /\ \A i \in 1..Len(received), j \in 1..Len(queue) : received[i] < queue[j]
  /\ \A i \in 1..Len(received) :
       received[i] =< sent /\ \A j \in 1..Len(inbox) : received[i] < inbox[j][2]
  /\ \A i \in 1..Len(queue) :
       queue[i] =< sent /\ \A j \in 1..Len(inbox) : queue[i] < inbox[j][2]
  /\ Len(queue) =< QueueLimit
  /\ ref # NoCo => queue = <<>>

WireOK ==
  /\ wire \in {"open", "closed"}
  /\ wsState \in {"connecting", "open"} => wire = "open"

IInv ==
  /\ FlagsOK /\ StatesOK /\ LuaOK /\ GuardOK /\ SocketOK
  /\ ResponseInOrder /\ FramesOK /\ WireOK

-----------------------------------------------------------------------------
(* The stack of coroutines *)

\* A sequence without its last element.
LEMMA WithoutLast ==
  ASSUME NEW S, NEW s \in Seq(S), Len(s) # 0
  PROVE  /\ SubSeq(s, 1, Len(s) - 1) \in Seq(S)
         /\ Len(SubSeq(s, 1, Len(s) - 1)) = Len(s) - 1
         /\ \A i \in 1..(Len(s) - 1) : SubSeq(s, 1, Len(s) - 1)[i] = s[i]
<1>1. PICK n \in Nat : n = Len(s) - 1
  OBVIOUS
<1>2. \A i \in 1..n : s[i] \in S
  BY <1>1
<1>3. SubSeq(s, 1, n) \in Seq(S)
  BY <1>2, SubSeqProperties
<1>4. Len(SubSeq(s, 1, n)) = IF 1 =< n THEN n - 1 + 1 ELSE 0
  BY <1>2, SubSeqProperties
<1>5. Len(SubSeq(s, 1, n)) = n
  BY <1>4
<1>6. \A i \in 1..n : SubSeq(s, 1, n)[i] = s[i]
  BY <1>1
<1>7. QED
  BY <1>1, <1>3, <1>5, <1>6

\* A coroutine that is not running is resumed on top of the stack.
LEMMA PushLua ==
  ASSUME LuaOK, NEW c \in Coroutines, NEW by \in Resumers \ {"http"},
         Resume(c, by), co[c] # "running",
         wsState # "connecting" => wsState' # "connecting",
         by = "ws" => wsState' # "connecting",
         ref' \in {ref, NoCo}, ref' # c
  PROVE  LuaOK'
<1> USE DEF LuaOK
<1> DEFINE n == Len(stack)
<1>1. n \in Nat /\ stack' = Append(stack, <<c, by>>)
  BY DEF Resume
<1>2. /\ stack' \in Seq(Coroutines \X Resumers)
      /\ Len(stack') = n + 1
      /\ stack'[n + 1] = <<c, by>>
      /\ \A i \in 1..n : stack'[i] = stack[i]
  BY <1>1
<1>3. /\ co' \in [Coroutines -> CoStates]
      /\ co'[c] = "running"
      /\ \A d \in Coroutines \ {c} : co'[d] = co[d]
  BY DEF Resume, CoStates
<1>4. \A i \in 1..n : stack[i] \in Coroutines \X Resumers /\ stack[i][1] # c
  BY <1>1
<1>5. ASSUME NEW i \in 1..(n + 1)
      PROVE  /\ co'[stack'[i][1]] = "running"
             /\ stack'[i][2] = "http" => stack'[i][1] = Handler
             /\ stack'[i][2] = "ws" => wsState' # "connecting"
             /\ \A j \in 1..(n + 1) : i # j => stack'[i][1] # stack'[j][1]
  <2>1. CASE i = n + 1
    BY <1>1, <1>2, <1>3, <1>4, <2>1
  <2>2. CASE i \in 1..n
    BY <1>1, <1>2, <1>3, <1>4, <2>2
  <2>3. QED
    BY <1>1, <2>1, <2>2
<1>6. /\ ref' \in Coroutines \cup {NoCo}
      /\ ref' # NoCo => co'[ref'] = "waiting" /\ wsState' # "connecting"
  BY <1>3
<1>7. QED
  BY <1>2, <1>3, <1>5, <1>6

\* The coroutine on top of the stack is one that runs.
LEMMA TopRuns ==
  ASSUME LuaOK, NEW c, Running(c)
  PROVE  co[c] = "running"
<1>1. Len(stack) \in 1..Len(stack) /\ Last(stack) = stack[Len(stack)]
  BY DEF LuaOK, Running, Last
<1>2. QED
  BY <1>1 DEF LuaOK, Running

\* The running coroutine leaves the stack; it may be the one that waits.
LEMMA PopLua ==
  ASSUME LuaOK, HttpAssumption, NEW c \in Coroutines, NEW l \in CoStates \ {"running"},
         Running(c), Leave(c, l), wsState' = wsState,
         \/ ref' = ref
         \/ ref' = c /\ l = "waiting" /\ wsState # "connecting"
  PROVE  /\ LuaOK'
         /\ c = Handler \/ co'[Handler] = co[Handler]
         /\ Last(stack)[2] = "http" => c = Handler
         /\ Last(stack)[2] = "ws" => wsState # "connecting"
<1> USE DEF LuaOK
<1> DEFINE n == Len(stack)
<1>1. n \in Nat \ {0} /\ stack[n][1] = c /\ Last(stack) = stack[n]
  BY DEF Running, Last
<1>2. stack' = SubSeq(stack, 1, n - 1)
  BY DEF Leave, Front
<1>3. /\ stack' \in Seq(Coroutines \X Resumers)
      /\ Len(stack') = n - 1
      /\ \A i \in 1..(n - 1) : stack'[i] = stack[i]
  BY <1>1, <1>2, WithoutLast
<1>4. /\ co' \in [Coroutines -> CoStates]
      /\ co'[c] = l
      /\ \A d \in Coroutines \ {c} : co'[d] = co[d]
  BY DEF Leave
<1>5. \A i \in 1..(n - 1) : stack[i] \in Coroutines \X Resumers /\ stack[i][1] # c
  BY <1>1
<1>6. ASSUME NEW i \in 1..(n - 1)
      PROVE  /\ co'[stack'[i][1]] = "running"
             /\ stack'[i][2] = "http" => stack'[i][1] = Handler
             /\ stack'[i][2] = "ws" => wsState' # "connecting"
             /\ \A j \in 1..(n - 1) : i # j => stack'[i][1] # stack'[j][1]
  BY <1>1, <1>3, <1>4, <1>5
<1>7. co[c] = "running"
  BY <1>1
<1>8. /\ ref' \in Coroutines \cup {NoCo}
      /\ ref' # NoCo => co'[ref'] = "waiting" /\ wsState' # "connecting"
  BY <1>4, <1>7
<1>9. /\ c = Handler \/ co'[Handler] = co[Handler]
      /\ Last(stack)[2] = "http" => c = Handler
      /\ Last(stack)[2] = "ws" => wsState # "connecting"
  BY <1>1, <1>4 DEF HttpAssumption
<1>10. QED
  BY <1>3, <1>4, <1>6, <1>8, <1>9

\* No coroutine is resumed and none gives up control.
LEMMA SameLua ==
  ASSUME LuaOK, stack' = stack, co' = co, ref' \in {ref, NoCo},
         wsState # "connecting" => wsState' # "connecting"
  PROVE  LuaOK'
BY DEF LuaOK

-----------------------------------------------------------------------------
(* The frames *)

\* Frames that are dropped, from the buffer or from the queue, leave the rest
\* in order.
LEMMA FewerFrames ==
  ASSUME FramesOK, HttpAssumption, sent' = sent, received' = received,
         queue' \in {queue, <<>>},
         inbox' = inbox \/ inbox' = <<>> \/ (inbox # <<>> /\ inbox' = Tail(inbox)),
         ref' # NoCo => queue' = <<>>
  PROVE  FramesOK'
<1> USE DEF FramesOK
<1>1. /\ queue' \in Seq(Nat) /\ Len(queue') \in Nat /\ Len(queue') =< Len(queue)
      /\ \A i \in 1..Len(queue') : i \in 1..Len(queue) /\ queue'[i] = queue[i]
  <2>1. CASE queue' = queue
    BY <2>1
  <2>2. CASE queue' = <<>>
    BY <2>2
  <2>3. QED
    BY <2>1, <2>2
<1>2. \E k \in {0, 1} :
        /\ inbox' \in Seq(Kinds \X Nat) /\ Len(inbox') \in Nat
        /\ \A i \in 1..Len(inbox') :
             i + k \in 1..Len(inbox) /\ inbox'[i] = inbox[i + k]
  <2>1. CASE inbox' = inbox
    BY <2>1
  <2>2. CASE inbox' = <<>>
    BY <2>2
  <2>3. CASE inbox # <<>> /\ inbox' = Tail(inbox)
    BY <2>3, HeadTailProperties
  <2>4. QED
    BY <2>1, <2>2, <2>3
<1>3. PICK k \in {0, 1} :
        /\ inbox' \in Seq(Kinds \X Nat) /\ Len(inbox') \in Nat
        /\ \A i \in 1..Len(inbox') :
             i + k \in 1..Len(inbox) /\ inbox'[i] = inbox[i + k]
  BY <1>2
<1>4. ASSUME NEW i \in 1..Len(inbox'), NEW j \in 1..Len(inbox'), i < j
      PROVE  inbox'[i][2] < inbox'[j][2]
  <2>1. i + k \in 1..Len(inbox) /\ j + k \in 1..Len(inbox) /\ i + k < j + k
    BY <1>3, <1>4
  <2>2. QED
    BY <1>3, <2>1
<1>5. \A i \in 1..Len(inbox') : inbox'[i][2] =< sent'
  BY <1>3
<1>6. \A i, j \in 1..Len(queue') : i < j => queue'[i] < queue'[j]
  BY <1>1
<1>7. \A i \in 1..Len(received'), j \in 1..Len(queue') : received'[i] < queue'[j]
  BY <1>1
<1>8. \A i \in 1..Len(received') :
        received'[i] =< sent' /\ \A j \in 1..Len(inbox') : received'[i] < inbox'[j][2]
  BY <1>3
<1>9. \A i \in 1..Len(queue') :
        queue'[i] =< sent' /\ \A j \in 1..Len(inbox') : queue'[i] < inbox'[j][2]
  BY <1>1, <1>3
<1>10. Len(queue') =< QueueLimit
  BY <1>1 DEF HttpAssumption
<1>11. QED
  BY <1>1, <1>3, <1>4, <1>5, <1>6, <1>7, <1>8, <1>9, <1>10

\* The oldest queued frame goes to Lua.
LEMMA QueuedFrame ==
  ASSUME FramesOK, HttpAssumption, queue # <<>>, sent' = sent, inbox' = inbox,
         ref' = ref, received' = Append(received, Head(queue)), queue' = Tail(queue)
  PROVE  FramesOK'
<1> USE DEF FramesOK
<1> DEFINE n == Len(received)
           q == Len(queue)
<1>1. /\ n \in Nat /\ q \in Nat \ {0} /\ Head(queue) = queue[1] /\ queue[1] \in Nat
      /\ received' \in Seq(Nat) /\ Len(received') = n + 1
      /\ received'[n + 1] = queue[1]
      /\ \A i \in 1..n : received'[i] = received[i]
  OBVIOUS
<1>2. /\ queue' \in Seq(Nat) /\ Len(queue') = q - 1
      /\ \A i \in 1..(q - 1) : queue'[i] = queue[i + 1] /\ i + 1 \in 1..q
  BY <1>1, HeadTailProperties
<1>3. ASSUME NEW i \in 1..Len(received'), NEW j \in 1..Len(received'), i < j
      PROVE  received'[i] < received'[j]
  <2>1. CASE j = n + 1
    <3>1. i \in 1..n /\ 1 \in 1..q
      BY <1>1, <1>3, <2>1
    <3>2. received[i] < queue[1]
      BY <3>1
    <3>3. QED
      BY <1>1, <2>1, <3>1, <3>2
  <2>2. CASE j \in 1..n
    BY <1>1, <1>3, <2>2
  <2>3. QED
    BY <1>1, <2>1, <2>2
<1>4. ASSUME NEW i \in 1..Len(queue'), NEW j \in 1..Len(queue'), i < j
      PROVE  queue'[i] < queue'[j]
  <2>1. /\ i \in 1..(q - 1) /\ j \in 1..(q - 1)
        /\ i + 1 \in 1..q /\ j + 1 \in 1..q /\ i + 1 < j + 1
    BY <1>1, <1>2, <1>4, SMTT(30)
  <2>2. queue[i + 1] < queue[j + 1]
    BY <2>1
  <2>3. QED
    BY <1>2, <2>1, <2>2
<1>5. ASSUME NEW i \in 1..Len(received'), NEW j \in 1..Len(queue')
      PROVE  received'[i] < queue'[j]
  <2>1. j \in 1..(q - 1) /\ j + 1 \in 1..q /\ 1 \in 1..q /\ 1 < j + 1
    BY <1>1, <1>2, SMTT(30)
  <2>2. queue'[j] = queue[j + 1]
    BY <1>2, <2>1
  <2>3. CASE i = n + 1
    <3>1. queue[1] < queue[j + 1]
      BY <2>1
    <3>2. QED
      BY <1>1, <2>2, <2>3, <3>1
  <2>4. CASE i \in 1..n
    <3>1. received[i] < queue[j + 1]
      BY <2>1, <2>4
    <3>2. QED
      BY <1>1, <2>2, <2>4, <3>1
  <2> HIDE DEF FramesOK
  <2>5. QED
    BY <1>1, <2>3, <2>4
<1>6. \A i \in 1..Len(received') :
        received'[i] =< sent' /\ \A j \in 1..Len(inbox') : received'[i] < inbox'[j][2]
  BY <1>1
<1>7. ASSUME NEW i \in 1..Len(queue')
      PROVE  queue'[i] =< sent' /\ \A j \in 1..Len(inbox') : queue'[i] < inbox'[j][2]
  <2>1. i \in 1..(q - 1) /\ i + 1 \in 1..q
    BY <1>1, <1>2, SMTT(30)
  <2>2. queue'[i] = queue[i + 1]
    BY <1>2, <2>1
  <2>3. queue[i + 1] =< sent /\ \A j \in 1..Len(inbox) : queue[i + 1] < inbox[j][2]
    BY <2>1
  <2>4. QED
    BY <2>2, <2>3
<1>8. Len(queue') =< QueueLimit /\ ref' = NoCo
  BY <1>1, <1>2 DEF HttpAssumption
<1>9. QED
  BY <1>1, <1>2, <1>3, <1>4, <1>5, <1>6, <1>7, <1>8

\* A text frame is handed to the coroutine that waits for it.
LEMMA HandedFrame ==
  ASSUME FramesOK, HttpAssumption, inbox # <<>>, ref # NoCo, sent' = sent,
         inbox' = Tail(inbox), received' = Append(received, Head(inbox)[2]),
         queue' = queue, ref' = NoCo
  PROVE  FramesOK'
<1> USE DEF FramesOK
<1> DEFINE n == Len(received)
           m == Len(inbox)
<1>1. PICK x : x = Head(inbox)[2]
  OBVIOUS
<1>2. n \in Nat /\ m \in Nat \ {0} /\ x = inbox[1][2] /\ x \in Nat /\ 1 \in 1..m /\ x =< sent
  BY <1>1
<1>3. /\ received' \in Seq(Nat) /\ Len(received') = n + 1 /\ received'[n + 1] = x
      /\ \A i \in 1..n : received'[i] = received[i] /\ received[i] < x /\ received[i] \in Nat
  <2>1. ASSUME NEW i \in 1..n PROVE received[i] < x /\ received[i] \in Nat
    <3>1. received[i] < inbox[1][2]
      BY <1>2
    <3>2. received[i] \in Nat
      BY ElementOfSeq
    <3>3. QED
      BY <1>2, <3>1, <3>2
  <2>2. received' = Append(received, x) /\ received \in Seq(Nat)
    BY <1>1
  <2> HIDE DEF FramesOK
  <2>3. QED
    BY <1>2, <2>1, <2>2
<1>4. /\ inbox' \in Seq(Kinds \X Nat) /\ Len(inbox') = m - 1
      /\ \A i \in 1..(m - 1) : inbox'[i] = inbox[i + 1] /\ i + 1 \in 1..m
  BY <1>2, HeadTailProperties
<1>5. queue' = <<>> /\ Len(queue') = 0
  OBVIOUS
<1>6. ASSUME NEW i \in 1..Len(received'), NEW j \in 1..Len(received'), i < j
      PROVE  received'[i] < received'[j]
  <2>1. CASE j = n + 1
    BY <1>2, <1>3, <1>6, <2>1
  <2>2. CASE j \in 1..n
    BY <1>2, <1>3, <1>6, <2>2
  <2>3. QED
    BY <1>2, <1>3, <2>1, <2>2
<1>7. ASSUME NEW i \in 1..Len(inbox'), NEW j \in 1..Len(inbox'), i < j
      PROVE  inbox'[i][2] < inbox'[j][2]
  <2>1. i + 1 \in 1..m /\ j + 1 \in 1..m /\ i + 1 < j + 1
    BY <1>2, <1>4, <1>7
  <2>2. QED
    BY <1>2, <1>4, <2>1
<1>8. ASSUME NEW i \in 1..Len(inbox')
      PROVE  inbox'[i][2] =< sent' /\ x < inbox'[i][2]
  <2>1. i \in 1..(m - 1) /\ i + 1 \in 1..m /\ 1 < i + 1
    BY <1>2, <1>4, SMTT(30)
  <2>2. inbox'[i] = inbox[i + 1]
    BY <1>4, <2>1
  <2>3. inbox[i + 1][2] =< sent /\ inbox[1][2] < inbox[i + 1][2]
    BY <1>2, <2>1
  <2>4. QED
    BY <1>2, <2>2, <2>3
<1>9. ASSUME NEW i \in 1..Len(received')
      PROVE  /\ received'[i] =< sent'
             /\ \A j \in 1..Len(inbox') : received'[i] < inbox'[j][2]
  <2>1. CASE i = n + 1
    BY <1>2, <1>3, <1>8, <2>1
  <2>2. CASE i \in 1..n
    BY <1>2, <1>3, <1>4, <2>2
  <2>3. QED
    BY <1>2, <1>3, <2>1, <2>2
<1>10. Len(queue') =< QueueLimit
  BY <1>5 DEF HttpAssumption
<1>11. QED
  BY <1>3, <1>4, <1>5, <1>6, <1>7, <1>8, <1>9, <1>10, SMTT(40)

\* A text frame nobody waits for is queued, if there is room.
LEMMA PushedFrame ==
  ASSUME FramesOK, HttpAssumption, inbox # <<>>, ref = NoCo, Len(queue) < QueueLimit,
         sent' = sent, inbox' = Tail(inbox), received' = received,
         queue' = Append(queue, Head(inbox)[2]), ref' = ref
  PROVE  FramesOK'
<1> USE DEF FramesOK
<1> DEFINE n == Len(queue)
           m == Len(inbox)
<1>1. PICK x : x = Head(inbox)[2]
  OBVIOUS
<1>2. n \in Nat /\ m \in Nat \ {0} /\ x = inbox[1][2] /\ x \in Nat /\ 1 \in 1..m /\ x =< sent
  BY <1>1
<1>3. /\ queue' \in Seq(Nat) /\ Len(queue') = n + 1 /\ queue'[n + 1] = x
      /\ \A i \in 1..n : queue'[i] = queue[i] /\ queue[i] < x /\ queue[i] \in Nat
  <2>1. ASSUME NEW i \in 1..n PROVE queue[i] < x /\ queue[i] \in Nat
    <3>1. queue[i] < inbox[1][2]
      BY <1>2
    <3>2. queue[i] \in Nat
      BY ElementOfSeq
    <3>3. QED
      BY <1>2, <3>1, <3>2
  <2>2. queue' = Append(queue, x)
    BY <1>1
  <2>3. QED
    BY <1>2, <2>1, <2>2
<1>4. /\ inbox' \in Seq(Kinds \X Nat) /\ Len(inbox') = m - 1
      /\ \A i \in 1..(m - 1) : inbox'[i] = inbox[i + 1] /\ i + 1 \in 1..m
  BY <1>2, HeadTailProperties
<1>5. \A i \in 1..Len(received') : received'[i] < x
  BY <1>2
<1>6. ASSUME NEW i \in 1..Len(queue'), NEW j \in 1..Len(queue'), i < j
      PROVE  queue'[i] < queue'[j]
  <2>1. CASE j = n + 1
    BY <1>2, <1>3, <1>6, <2>1
  <2>2. CASE j \in 1..n
    BY <1>2, <1>3, <1>6, <2>2
  <2>3. QED
    BY <1>2, <1>3, <2>1, <2>2
<1>7. ASSUME NEW i \in 1..Len(inbox'), NEW j \in 1..Len(inbox'), i < j
      PROVE  inbox'[i][2] < inbox'[j][2]
  <2>1. i + 1 \in 1..m /\ j + 1 \in 1..m /\ i + 1 < j + 1
    BY <1>2, <1>4, <1>7
  <2>2. QED
    BY <1>2, <1>4, <2>1
<1>8. ASSUME NEW i \in 1..Len(inbox')
      PROVE  inbox'[i][2] =< sent' /\ x < inbox'[i][2]
  <2>1. i \in 1..(m - 1) /\ i + 1 \in 1..m /\ 1 < i + 1
    BY <1>2, <1>4, SMTT(30)
  <2>2. inbox'[i] = inbox[i + 1]
    BY <1>4, <2>1
  <2>3. inbox[i + 1][2] =< sent /\ inbox[1][2] < inbox[i + 1][2]
    BY <1>2, <2>1
  <2>4. QED
    BY <1>2, <2>2, <2>3
<1>9. ASSUME NEW i \in 1..Len(queue')
      PROVE  /\ queue'[i] =< sent'
             /\ \A j \in 1..Len(inbox') : queue'[i] < inbox'[j][2]
             /\ \A j \in 1..Len(received') : received'[j] < queue'[i]
  <2>1. CASE i \in 1..n
    BY <1>2, <1>3, <1>4, <2>1, SMTT(30)
  <2> HIDE DEF FramesOK
  <2>2. CASE i = n + 1
    BY <1>2, <1>3, <1>5, <1>8, <2>2
  <2>3. i = n + 1 \/ i \in 1..n
    BY <1>2, <1>3
  <2>4. QED
    BY <2>1, <2>2, <2>3, Zenon
<1>10. \A i \in 1..Len(received'), j \in 1..Len(inbox') : received'[i] < inbox'[j][2]
  BY <1>4
<1>11. Len(queue') =< QueueLimit
  BY <1>2, <1>3 DEF HttpAssumption
<1>12. QED
  BY <1>3, <1>4, <1>6, <1>7, <1>8, <1>9, <1>10, <1>11

\* The peer sends one more frame, numbered above all others.
LEMMA SentFrame ==
  ASSUME FramesOK, HttpAssumption, NEW kind \in Kinds, sent' = sent + 1,
         inbox' = Append(inbox, <<kind, sent + 1>>),
         received' = received, queue' = queue, ref' = ref
  PROVE  FramesOK'
<1> USE DEF FramesOK
<1> DEFINE m == Len(inbox)
<1>1. /\ m \in Nat /\ inbox' \in Seq(Kinds \X Nat) /\ Len(inbox') = m + 1
      /\ inbox'[m + 1][2] = sent + 1
      /\ \A i \in 1..m : inbox'[i] = inbox[i] /\ inbox[i][2] \in Nat
  OBVIOUS
<1>2. ASSUME NEW i \in 1..Len(inbox'), NEW j \in 1..Len(inbox'), i < j
      PROVE  inbox'[i][2] < inbox'[j][2]
  <2>1. CASE j = m + 1
    BY <1>1, <1>2, <2>1
  <2>2. CASE j \in 1..m
    BY <1>1, <1>2, <2>2
  <2>3. QED
    BY <1>1, <2>1, <2>2
<1>3. \A i \in 1..Len(inbox') : inbox'[i][2] =< sent'
  BY <1>1
<1>4. /\ \A i \in 1..Len(received) : received[i] \in Nat /\ received[i] =< sent
      /\ \A i \in 1..Len(queue) : queue[i] \in Nat /\ queue[i] =< sent
  <2>1. ASSUME NEW i \in 1..Len(received) PROVE received[i] \in Nat /\ received[i] =< sent
    BY ElementOfSeq
  <2>2. ASSUME NEW i \in 1..Len(queue) PROVE queue[i] \in Nat /\ queue[i] =< sent
    BY ElementOfSeq
  <2>3. QED
    BY <2>1, <2>2
<1>5. ASSUME NEW j \in 1..Len(inbox')
      PROVE  /\ \A i \in 1..Len(received') : received'[i] < inbox'[j][2]
             /\ \A i \in 1..Len(queue') : queue'[i] < inbox'[j][2]
  <2>1. CASE j = m + 1
    <3>1. \A i \in Nat : i =< sent => i < inbox'[j][2]
      BY <1>1, <2>1
    <3>2. QED
      BY <1>4, <3>1
  <2>2. CASE j \in 1..m
    BY <1>1, <2>2, SMTT(30)
  <2> HIDE DEF FramesOK
  <2>3. j = m + 1 \/ j \in 1..m
    BY <1>1
  <2>4. QED
    BY <2>1, <2>2, <2>3, Zenon
<1>6. sent' \in Nat /\ \A i \in Nat : i =< sent => i =< sent'
  OBVIOUS
<1>7. /\ \A i \in 1..Len(received') :
           received'[i] =< sent' /\ \A j \in 1..Len(inbox') : received'[i] < inbox'[j][2]
      /\ \A i \in 1..Len(queue') :
           queue'[i] =< sent' /\ \A j \in 1..Len(inbox') : queue'[i] < inbox'[j][2]
  BY <1>4, <1>5, <1>6
<1>8. /\ received' \in Seq(Nat) /\ queue' \in Seq(Nat)
      /\ Len(queue') =< QueueLimit /\ (ref' # NoCo => queue' = <<>>)
  OBVIOUS
<1>9. /\ \A i, j \in 1..Len(received') : i < j => received'[i] < received'[j]
      /\ \A i, j \in 1..Len(queue') : i < j => queue'[i] < queue'[j]
      /\ \A i \in 1..Len(received'), j \in 1..Len(queue') : received'[i] < queue'[j]
  OBVIOUS
<1> HIDE DEF FramesOK
<1>10. QED
  BY <1>1, <1>2, <1>3, <1>6, <1>7, <1>8, <1>9, Zenon DEF FramesOK

-----------------------------------------------------------------------------
(* The inductive invariant *)

\* The handler about to run.
LEMMA InitInv == Init => IInv
<1> SUFFICES ASSUME Init PROVE IInv
  OBVIOUS
<1> USE HttpAssumption DEF Init
<1>1. FlagsOK /\ StatesOK /\ GuardOK /\ SocketOK /\ ResponseInOrder /\ WireOK
  BY DEF FlagsOK, StatesOK, GuardOK, SocketOK, ResponseInOrder, WireOK, HttpAssumption
<1>2. LuaOK
  <2>1. /\ stack \in Seq(Coroutines \X Resumers) /\ Len(stack) = 1
        /\ stack[1] = <<Handler, "http">>
    BY DEF Resumers, HttpAssumption
  <2>2. co \in [Coroutines -> CoStates] /\ co[Handler] = "running"
    BY DEF CoStates, HttpAssumption
  <2>3. QED
    BY <2>1, <2>2 DEF LuaOK
<1>3. FramesOK
  BY DEF FramesOK, HttpAssumption
<1>4. QED
  BY <1>1, <1>2, <1>3 DEF IInv

\* A call that neither suspends nor touches the frames.
LEMMA CallKeeps ==
  ASSUME IInv, UNCHANGED <<stack, co, ref, sent, received, queue, inbox>>,
         wsState # "connecting" => wsState' # "connecting"
  PROVE  LuaOK' /\ FramesOK'
<1>1. LuaOK'
  BY SameLua DEF IInv
<1>2. FramesOK'
  BY DEF IInv, FramesOK
<1>3. QED
  BY <1>1, <1>2

\* ws_connection_cleanup, of a WebSocket: the first call clears ws_bev and
\* leaves either the flush callbacks or the deferred free.
LEMMA CleanupKeeps ==
  ASSUME IInv, NEW u \in BOOLEAN, Cleanup(u), wsState # "connecting",
         wsState' \in {"open", "closing", "closed"},
         status' = status, selfRef' = selfRef, conn' = conn, evreq' = evreq
  PROVE  /\ SocketOK' /\ queue' \in {queue, <<>>}
         /\ bev' \in BOOLEAN /\ freeing' \in BOOLEAN /\ cleaning' \in BOOLEAN
         /\ cb' \in {"http", "ws", "flush", "none"}
<1> USE DEF IInv, FlagsOK, StatesOK
<1>1. CASE cleaning
  BY <1>1 DEF Cleanup, SocketOK
<1>2. CASE ~cleaning
  BY <1>2 DEF Cleanup, SocketOK
<1>3. QED
  BY <1>1, <1>2

\* A whole reply, or the end of a started one.
LEMMA ReplyInv ==
  ASSUME IInv, NEW c \in Coroutines, Reply(c)
  PROVE  IInv'
<1>1. LuaOK' /\ FramesOK'
  BY CallKeeps DEF Reply, ReleaseGuard, MayReply, socket, peers, luaSide, http
<1> USE DEF IInv, FlagsOK, StatesOK
<1>2. FlagsOK' /\ StatesOK'
  BY DEF Reply, ReleaseGuard, MayReply, socket, peers, http
<1>3. GuardOK'
  BY DEF Reply, ReleaseGuard, MayReply, socket, peers, luaSide, http, GuardOK
<1>4. SocketOK'
  BY DEF Reply, ReleaseGuard, MayReply, socket, http, GuardOK, SocketOK
<1>5. ResponseInOrder'
  BY DEF Reply, ReleaseGuard, MayReply, peers, http, socket, ResponseInOrder, SocketOK
<1>6. WireOK'
  BY DEF Reply, ReleaseGuard, MayReply, socket, WireOK, SocketOK
<1>7. QED
  BY <1>1, <1>2, <1>3, <1>4, <1>5, <1>6

\* The start of a reply in parts.
LEMMA ReplyStartInv ==
  ASSUME IInv, NEW c \in Coroutines, ReplyStart(c)
  PROVE  IInv'
<1>1. LuaOK' /\ FramesOK'
  BY CallKeeps DEF ReplyStart, MayReply, socket, peers, luaSide, http
<1> USE DEF IInv, FlagsOK, StatesOK
<1>2. FlagsOK' /\ StatesOK'
  BY DEF ReplyStart, MayReply, socket, peers, http
<1>3. GuardOK'
  BY DEF ReplyStart, MayReply, socket, peers, luaSide, http, GuardOK
<1>4. SocketOK'
  BY DEF ReplyStart, MayReply, socket, http, GuardOK, SocketOK
<1>5. ResponseInOrder'
  BY DEF ReplyStart, MayReply, peers, http, socket, ResponseInOrder, SocketOK
<1>6. WireOK'
  BY DEF ReplyStart, MayReply, socket, WireOK, SocketOK
<1>7. QED
  BY <1>1, <1>2, <1>3, <1>4, <1>5, <1>6

\* A part of a reply, or the discovery that the peer is gone.
LEMMA ReplyChunkInv ==
  ASSUME IInv, NEW c \in Coroutines, ReplyChunk(c)
  PROVE  IInv'
<1>1. LuaOK' /\ FramesOK'
  BY CallKeeps DEF ReplyChunk, MayReply, socket, peers, luaSide, http
<1> USE DEF IInv, FlagsOK, StatesOK
<1>2. FlagsOK' /\ StatesOK'
  BY DEF ReplyChunk, MayReply, socket, peers, http
<1>3. GuardOK'
  BY DEF ReplyChunk, MayReply, socket, peers, luaSide, http, GuardOK
<1>4. SocketOK'
  BY DEF ReplyChunk, MayReply, socket, http, GuardOK, SocketOK
<1>5. ResponseInOrder'
  BY DEF ReplyChunk, MayReply, peers, http, socket, ResponseInOrder, SocketOK
<1>6. WireOK'
  BY DEF ReplyChunk, MayReply, socket, WireOK, SocketOK
<1>7. QED
  BY <1>1, <1>2, <1>3, <1>4, <1>5, <1>6

\* The end of a reply in parts.
LEMMA ReplyEndInv ==
  ASSUME IInv, NEW c \in Coroutines, ReplyEnd(c)
  PROVE  IInv'
<1>1. LuaOK' /\ FramesOK'
  BY CallKeeps DEF ReplyEnd, ReleaseGuard, MayReply, socket, peers, luaSide, http
<1> USE DEF IInv, FlagsOK, StatesOK
<1>2. FlagsOK' /\ StatesOK'
  BY DEF ReplyEnd, ReleaseGuard, MayReply, socket, peers, http
<1>3. GuardOK'
  BY DEF ReplyEnd, ReleaseGuard, MayReply, socket, peers, luaSide, http, GuardOK
<1>4. SocketOK'
  BY DEF ReplyEnd, ReleaseGuard, MayReply, socket, http, GuardOK, SocketOK
<1>5. ResponseInOrder'
  BY DEF ReplyEnd, ReleaseGuard, MayReply, peers, http, socket, ResponseInOrder, SocketOK
<1>6. WireOK'
  BY DEF ReplyEnd, ReleaseGuard, MayReply, socket, WireOK, SocketOK
<1>7. QED
  BY <1>1, <1>2, <1>3, <1>4, <1>5, <1>6

\* The request turns into a WebSocket.
LEMMA AcceptInv ==
  ASSUME IInv, NEW c \in Coroutines, Accept(c)
  PROVE  IInv'
<1>1. LuaOK' /\ FramesOK'
  BY CallKeeps DEF Accept, MayReply, socket, peers, luaSide, http
<1> USE DEF IInv, FlagsOK, StatesOK
<1>2. FlagsOK' /\ StatesOK'
  BY DEF Accept, MayReply, socket, peers, http
<1>3. GuardOK'
  BY DEF Accept, MayReply, socket, peers, luaSide, http, GuardOK
<1>4. SocketOK'
  BY DEF Accept, MayReply, socket, http, GuardOK, SocketOK
<1>5. ResponseInOrder'
  BY DEF Accept, MayReply, peers, http, socket, ResponseInOrder, SocketOK
<1>6. WireOK'
  BY DEF Accept, MayReply, socket, WireOK, SocketOK
<1>7. QED
  BY <1>1, <1>2, <1>3, <1>4, <1>5, <1>6

\* A frame to the peer.
LEMMA SendInv ==
  ASSUME IInv, NEW c \in Coroutines, Send(c)
  PROVE  IInv'
<1>1. LuaOK' /\ FramesOK'
  BY CallKeeps DEF Send, Wrote, socket, peers, luaSide, http
<1> USE DEF IInv, FlagsOK, StatesOK
<1>2. FlagsOK' /\ StatesOK'
  BY DEF Send, Wrote, socket, peers, http
<1>3. GuardOK'
  BY DEF Send, Wrote, socket, peers, luaSide, http, GuardOK
<1>4. SocketOK'
  BY DEF Send, Wrote, socket, http, GuardOK, SocketOK
<1>5. ResponseInOrder'
  BY DEF Send, Wrote, peers, http, socket, ResponseInOrder, SocketOK
<1>6. WireOK'
  BY DEF Send, Wrote, socket, WireOK, SocketOK
<1>7. QED
  BY <1>1, <1>2, <1>3, <1>4, <1>5, <1>6

\* The close frame to the peer.
LEMMA CloseInv ==
  ASSUME IInv, NEW c \in Coroutines, Close(c)
  PROVE  IInv'
<1>1. LuaOK' /\ FramesOK'
  BY CallKeeps DEF Close, Wrote, socket, peers, luaSide, http
<1> USE DEF IInv, FlagsOK, StatesOK
<1>2. FlagsOK' /\ StatesOK'
  <2>1. CASE bev
    BY <2>1 DEF Close, Wrote, peers, http
  <2>2. CASE ~bev
    BY <2>2 DEF Close, peers, http
  <2>3. QED
    BY <2>1, <2>2
<1>3. GuardOK'
  BY DEF Close, Wrote, socket, peers, luaSide, http, GuardOK
<1>4. SocketOK'
  BY DEF Close, Wrote, socket, http, GuardOK, SocketOK
<1>5. ResponseInOrder'
  BY DEF Close, Wrote, peers, http, socket, ResponseInOrder, SocketOK
<1>6. WireOK'
  <2>1. CASE bev
    BY <2>1 DEF Close, Wrote, WireOK
  <2>2. CASE ~bev
    BY <2>2 DEF Close, WireOK
  <2>3. QED
    BY <2>1, <2>2
<1>7. QED
  BY <1>1, <1>2, <1>3, <1>4, <1>5, <1>6

\* websocket_receive takes a frame from the queue.
LEMMA ReceiveQueuedInv ==
  ASSUME IInv, NEW c \in Coroutines, ReceiveQueued(c)
  PROVE  IInv'
<1>1. LuaOK'
  BY SameLua DEF ReceiveQueued, luaSide, IInv
<1>2. FramesOK'
  BY QueuedFrame, HttpAssumption DEF ReceiveQueued, peers, IInv
<1> USE DEF IInv
<1>3. FlagsOK' /\ StatesOK' /\ GuardOK'
  BY DEF ReceiveQueued, http, peers, luaSide, FlagsOK, StatesOK, GuardOK
<1>4. SocketOK' /\ ResponseInOrder' /\ WireOK'
  BY DEF ReceiveQueued, http, peers, SocketOK, ResponseInOrder, WireOK
<1>5. QED
  BY <1>1, <1>2, <1>3, <1>4

\* websocket_receive waits for a frame.
LEMMA ReceiveWaitInv ==
  ASSUME IInv, NEW c \in Coroutines, ReceiveWait(c)
  PROVE  IInv'
<1>1. LuaOK' /\ (c = Handler \/ co'[Handler] = co[Handler])
  <2>1. "waiting" \in CoStates \ {"running"}
    BY DEF CoStates
  <2>2. QED
    BY <2>1, PopLua, HttpAssumption DEF ReceiveWait, socket, IInv
<1>2. FramesOK'
  BY FewerFrames, HttpAssumption DEF ReceiveWait, socket, peers, IInv, FramesOK
<1>3. co'[Handler] # "done"  => co[Handler] # "done"
  <2>1. CASE c = Handler
    BY <2>1, TopRuns DEF ReceiveWait, IInv
  <2>2. CASE c # Handler
    BY <1>1, <2>2
  <2>3. QED
    BY <2>1, <2>2
<1> USE DEF IInv
<1>4. FlagsOK' /\ StatesOK' /\ GuardOK'
  <2>1. FlagsOK'
    BY <1>3 DEF ReceiveWait, http, socket, peers, FlagsOK
  <2>2. StatesOK'
    BY <1>3 DEF ReceiveWait, http, socket, peers, StatesOK
  <2>3. GuardOK'
    BY <1>3 DEF ReceiveWait, http, socket, peers, GuardOK
  <2>4. QED
    BY <2>1, <2>2, <2>3
<1>5. SocketOK' /\ ResponseInOrder' /\ WireOK'
  BY DEF ReceiveWait, http, socket, peers, SocketOK, ResponseInOrder, WireOK
<1>6. QED
  BY <1>1, <1>2, <1>4, <1>5

\* The coroutine is suspended elsewhere.
LEMMA SleepInv ==
  ASSUME IInv, NEW c \in Coroutines, Sleep(c)
  PROVE  IInv'
<1>1. LuaOK' /\ (c = Handler \/ co'[Handler] = co[Handler])
  <2>1. "sleeping" \in CoStates \ {"running"}
    BY DEF CoStates
  <2>2. QED
    BY <2>1, PopLua, HttpAssumption DEF Sleep, socket, IInv
<1>2. FramesOK'
  BY FewerFrames, HttpAssumption DEF Sleep, socket, peers, IInv, FramesOK
<1>3. co'[Handler] # "done"  => co[Handler] # "done"
  <2>1. CASE c = Handler
    BY <2>1, TopRuns DEF Sleep, IInv
  <2>2. CASE c # Handler
    BY <1>1, <2>2
  <2>3. QED
    BY <2>1, <2>2
<1> USE DEF IInv
<1>4. FlagsOK' /\ StatesOK' /\ GuardOK'
  BY <1>3 DEF Sleep, http, socket, peers, FlagsOK, StatesOK, GuardOK
<1>5. SocketOK' /\ ResponseInOrder' /\ WireOK'
  BY DEF Sleep, http, socket, peers, SocketOK, ResponseInOrder, WireOK
<1>6. QED
  BY <1>1, <1>2, <1>4, <1>5

\* A coroutine starts another.
LEMMA SpawnInv ==
  ASSUME IInv, NEW c \in Coroutines, NEW d \in Coroutines, Spawn(c, d)
  PROVE  IInv'
<1>1. LuaOK' /\ (co'[Handler] # "done" => co[Handler] # "done")
  <2>1. /\ co[d] # "running" /\ "lua" \in Resumers \ {"http"} /\ "timer" \in Resumers \ {"http"}
        /\ co[d] # "done" /\ co[d] # "waiting"
    BY DEF Spawn, Resumers
  <2>2. ref # d /\ NoCo # d
    BY <2>1, HttpAssumption DEF IInv, LuaOK, HttpAssumption
  <2>3. LuaOK'
    BY <2>1, <2>2, PushLua DEF Spawn, socket, IInv
  <2>4. co'[Handler] # "done" => co[Handler] # "done"
    BY <2>1, HttpAssumption DEF Spawn, Resume, IInv, LuaOK, HttpAssumption
  <2>5. QED
    BY <2>3, <2>4
<1>2. FramesOK'
  BY FewerFrames, HttpAssumption DEF Spawn, socket, peers, IInv, FramesOK
<1> USE DEF IInv
<1>3. FlagsOK' /\ StatesOK' /\ GuardOK'
  <2>1. FlagsOK'
    BY <1>1 DEF Spawn, http, socket, peers, FlagsOK
  <2>2. StatesOK'
    BY <1>1 DEF Spawn, http, socket, peers, StatesOK
  <2>3. GuardOK'
    BY <1>1 DEF Spawn, http, socket, peers, GuardOK
  <2>4. QED
    BY <2>1, <2>2, <2>3
<1>4. SocketOK' /\ ResponseInOrder' /\ WireOK'
  BY DEF Spawn, http, socket, peers, SocketOK, ResponseInOrder, WireOK
<1>5. QED
  BY <1>1, <1>2, <1>3, <1>4

\* A timer resumes a coroutine.
LEMMA WakeInv ==
  ASSUME IInv, NEW c \in Coroutines, Wake(c)
  PROVE  IInv'
<1>1. LuaOK' /\ (co'[Handler] # "done" => co[Handler] # "done")
  <2>1. /\ co[c] # "running" /\ "lua" \in Resumers \ {"http"} /\ "timer" \in Resumers \ {"http"}
        /\ co[c] # "done" /\ co[c] # "waiting"
    BY DEF Wake, Resumers
  <2>2. ref # c /\ NoCo # c
    BY <2>1, HttpAssumption DEF IInv, LuaOK, HttpAssumption
  <2>3. LuaOK'
    BY <2>1, <2>2, PushLua DEF Wake, socket, IInv
  <2>4. co'[Handler] # "done" => co[Handler] # "done"
    BY <2>1, HttpAssumption DEF Wake, Resume, IInv, LuaOK, HttpAssumption
  <2>5. QED
    BY <2>3, <2>4
<1>2. FramesOK'
  BY FewerFrames, HttpAssumption DEF Wake, socket, peers, IInv, FramesOK
<1> USE DEF IInv
<1>3. FlagsOK' /\ StatesOK' /\ GuardOK'
  <2>1. FlagsOK'
    BY <1>1 DEF Wake, http, socket, peers, FlagsOK
  <2>2. StatesOK'
    BY <1>1 DEF Wake, http, socket, peers, StatesOK
  <2>3. GuardOK'
    BY <1>1 DEF Wake, http, socket, peers, GuardOK
  <2>4. QED
    BY <2>1, <2>2, <2>3
<1>4. SocketOK' /\ ResponseInOrder' /\ WireOK'
  BY DEF Wake, http, socket, peers, SocketOK, ResponseInOrder, WireOK
<1>5. QED
  BY <1>1, <1>2, <1>3, <1>4

\* A coroutine ends: the guard of an unanswered request is released with the
\* handler, a WebSocket is cleaned up with a coroutine its callbacks resumed.
LEMMA FinishInv ==
  ASSUME IInv, NEW c \in Coroutines, Finish(c)
  PROVE  IInv'
<1>1. PICK by : by = Last(stack)[2]
  OBVIOUS
<1>2. /\ LuaOK' /\ (c = Handler \/ co'[Handler] = co[Handler])
      /\ by = "http" => c = Handler
      /\ by = "ws" => wsState # "connecting"
  <2>1. "done" \in CoStates \ {"running"}
    BY DEF CoStates
  <2>2. QED
    BY <1>1, <2>1, PopLua, HttpAssumption DEF Finish, IInv
<1>3. co'[c] = "done"
  BY DEF Finish, Leave, IInv, LuaOK
<1>4. co'[Handler] # "done" => c # Handler /\ co[Handler] # "done"
  BY <1>2, <1>3
<1>5. /\ IF by = "http" /\ status # "replyed"
         THEN ReleaseGuard ELSE UNCHANGED <<closecb, gcRef>>
      /\ IF by = "ws"
         THEN Cleanup(output) ELSE UNCHANGED <<queue, bev, cb, freeing, cleaning>>
      /\ UNCHANGED <<req, status, response, evreq, conn, wsState, selfRef, ref,
                     output, inbox, peer, sent, received, wire>>
  BY <1>1 DEF Finish, peers
<1>6. /\ SocketOK' /\ queue' \in {queue, <<>>}
      /\ bev' \in BOOLEAN /\ freeing' \in BOOLEAN /\ cleaning' \in BOOLEAN
      /\ cb' \in {"http", "ws", "flush", "none"}
  <2>1. CASE by = "ws"
    BY <1>2, <1>5, <2>1, CleanupKeeps DEF IInv, FlagsOK, StatesOK
  <2>2. CASE by # "ws"
    BY <1>5, <2>2 DEF IInv, FlagsOK, StatesOK, SocketOK
  <2>3. QED
    BY <2>1, <2>2
<1>7. FramesOK'
  BY <1>5, <1>6, FewerFrames, HttpAssumption DEF IInv, FramesOK
<1>8. /\ closecb' \in BOOLEAN /\ gcRef' \in BOOLEAN
      /\ closecb' => gcRef' /\ closecb
      /\ (req /\ status # "replyed" /\ co'[Handler] # "done") => closecb' = closecb
  <2>1. CASE by = "http" /\ status # "replyed"
    BY <1>2, <1>4, <1>5, <2>1 DEF ReleaseGuard, IInv, FlagsOK, GuardOK
  <2>2. CASE ~(by = "http" /\ status # "replyed")
    BY <1>5, <2>2 DEF IInv, FlagsOK, GuardOK
  <2>3. QED
    BY <2>1, <2>2
<1> USE DEF IInv
<1>9. FlagsOK' /\ StatesOK'
  BY <1>5, <1>6, <1>8 DEF FlagsOK, StatesOK
<1>10. GuardOK'
  <2>1. closecb' => gcRef' /\ req' /\ wsState' = "connecting"
    BY <1>5, <1>8 DEF GuardOK
  <2>2. (req' /\ status' # "replyed" /\ co'[Handler] # "done") => evreq' /\ closecb'
    <3>1. req' = req /\ status' = status /\ evreq' = evreq
      BY <1>5
    <3>2. (req /\ status # "replyed" /\ co[Handler] # "done") => evreq /\ closecb
      BY DEF GuardOK
    <3> HIDE DEF IInv
    <3>3. ASSUME req', status' # "replyed", co'[Handler] # "done"
          PROVE  evreq' /\ closecb'
      <4>1. req /\ status # "replyed" /\ co[Handler] # "done"
        BY <1>4, <3>1, <3>3
      <4>2. evreq /\ closecb
        BY <3>2, <4>1
      <4>3. closecb' = closecb
        BY <1>8, <3>3, <4>1
      <4>4. QED
        BY <3>1, <4>2, <4>3
    <3>4. QED
      BY <3>3
  <2>3. evreq' => conn' = "open"
    BY <1>5 DEF GuardOK
  <2>4. QED
    BY <2>1, <2>2, <2>3 DEF GuardOK
<1>11. ResponseInOrder' /\ WireOK'
  BY <1>5 DEF ResponseInOrder, WireOK
<1>12. QED
  BY <1>2, <1>6, <1>7, <1>9, <1>10, <1>11

\* The peer sends a frame.
LEMMA PeerSendInv ==
  ASSUME IInv, NEW kind \in Kinds, PeerSend(kind)
  PROVE  IInv'
<1>1. LuaOK'
  BY SameLua DEF PeerSend, luaSide, socket, IInv
<1>2. FramesOK'
  BY SentFrame, HttpAssumption DEF PeerSend, socket, IInv
<1> USE DEF IInv
<1>3. FlagsOK' /\ StatesOK' /\ GuardOK'
  <2>1. FlagsOK'
    BY DEF PeerSend, http, socket, luaSide, FlagsOK
  <2>2. StatesOK'
    BY DEF PeerSend, http, socket, luaSide, StatesOK
  <2>3. GuardOK'
    BY DEF PeerSend, http, socket, luaSide, GuardOK
  <2>4. QED
    BY <2>1, <2>2, <2>3
<1>4. SocketOK' /\ ResponseInOrder' /\ WireOK'
  BY DEF PeerSend, http, socket, SocketOK, ResponseInOrder, WireOK
<1>5. QED
  BY <1>1, <1>2, <1>3, <1>4

\* The peer closes its end.
LEMMA PeerCloseInv ==
  ASSUME IInv, PeerClose
  PROVE  IInv'
<1>1. LuaOK' /\ FramesOK'
  BY CallKeeps DEF PeerClose, luaSide, socket
<1> USE DEF IInv
<1>2. FlagsOK' /\ StatesOK' /\ GuardOK'
  <2>1. FlagsOK'
    BY DEF PeerClose, http, socket, luaSide, FlagsOK
  <2>2. StatesOK'
    BY DEF PeerClose, http, socket, luaSide, StatesOK
  <2>3. GuardOK'
    BY DEF PeerClose, http, socket, luaSide, GuardOK
  <2>4. QED
    BY <2>1, <2>2, <2>3
<1>3. SocketOK' /\ ResponseInOrder' /\ WireOK'
  BY DEF PeerClose, http, socket, SocketOK, ResponseInOrder, WireOK
<1>4. QED
  BY <1>1, <1>2, <1>3

\* A ping is answered while the WebSocket is open.
LEMMA ReadPingInv ==
  ASSUME IInv, ReadPing
  PROVE  IInv'
<1>1. /\ inbox # <<>> /\ inbox' = Tail(inbox)
      /\ UNCHANGED <<http, peer, sent, selfRef, wsState, bev, queue, cleaning, cb,
                     freeing, ref, co, stack, received>>
      /\ IF wsState = "open" THEN Wrote(FALSE) ELSE UNCHANGED <<output, wire>>
  BY DEF ReadPing, ReadFrame
<1>2. LuaOK'
  BY <1>1, SameLua DEF IInv
<1>3. FramesOK'
  BY <1>1, FewerFrames, HttpAssumption DEF IInv, FramesOK
<1> USE DEF IInv
<1>4. output' \in BOOLEAN /\ WireOK'
  <2>1. CASE wsState = "open"
    BY <1>1, <2>1 DEF Wrote, WireOK
  <2>2. CASE wsState # "open"
    BY <1>1, <2>2 DEF FlagsOK, WireOK
  <2>3. QED
    BY <2>1, <2>2
<1>5. FlagsOK' /\ StatesOK' /\ GuardOK'
  <2>1. FlagsOK'
    BY <1>1, <1>4 DEF http, FlagsOK
  <2>2. StatesOK'
    BY <1>1, <1>4 DEF http, StatesOK
  <2>3. GuardOK'
    BY <1>1, <1>4 DEF http, GuardOK
  <2>4. QED
    BY <2>1, <2>2, <2>3
<1>6. SocketOK' /\ ResponseInOrder'
  BY <1>1 DEF http, SocketOK, ResponseInOrder
<1>7. QED
  BY <1>2, <1>3, <1>4, <1>5, <1>6

\* The end of the connection: the coroutine that waits is told, or the
\* WebSocket is cleaned up at once.
LEMMA HangupKeeps ==
  ASSUME IInv, NEW u \in BOOLEAN, Hangup(u), wsState # "connecting",
         UNCHANGED <<http, selfRef, sent, received>>,
         inbox' = <<>> \/ (inbox # <<>> /\ inbox' = Tail(inbox))
  PROVE  /\ LuaOK' /\ FramesOK' /\ GuardOK' /\ SocketOK' /\ wsState' = "closed"
         /\ bev' \in BOOLEAN /\ freeing' \in BOOLEAN /\ cleaning' \in BOOLEAN
         /\ cb' \in {"http", "ws", "flush", "none"}
<1>1. wsState' = "closed" /\ ref' = NoCo
  BY DEF Hangup
<1>2. /\ SocketOK' /\ queue' \in {queue, <<>>}
      /\ bev' \in BOOLEAN /\ freeing' \in BOOLEAN /\ cleaning' \in BOOLEAN
      /\ cb' \in {"http", "ws", "flush", "none"}
  <2>1. CASE ref # NoCo
    BY <1>1, <2>1 DEF Hangup, http, IInv, FlagsOK, StatesOK, SocketOK
  <2>2. CASE ref = NoCo
    BY <1>1, <2>2, CleanupKeeps DEF Hangup, http
  <2>3. QED
    BY <2>1, <2>2
<1>3. LuaOK' /\ (co'[Handler] # "done" => co[Handler] # "done")
  <2>1. CASE ref # NoCo
    <3>1. /\ ref \in Coroutines /\ co[ref] = "waiting"
          /\ "ws" \in Resumers \ {"http"} /\ Resume(ref, "ws")
      BY <2>1 DEF Hangup, IInv, LuaOK, Resumers
    <3>2. LuaOK'
      BY <1>1, <2>1, <3>1, PushLua DEF IInv
    <3>3. co'[Handler] # "done" => co[Handler] # "done"
      BY <3>1, HttpAssumption DEF Resume, IInv, LuaOK, HttpAssumption
    <3>4. QED
      BY <3>2, <3>3
  <2>2. CASE ref = NoCo
    BY <1>1, <2>2, SameLua DEF Hangup, IInv
  <2>3. QED
    BY <2>1, <2>2
<1>4. FramesOK'
  BY <1>1, <1>2, FewerFrames, HttpAssumption DEF IInv
<1>5. GuardOK'
  BY <1>1, <1>3 DEF http, IInv, GuardOK
<1>6. QED
  BY <1>1, <1>2, <1>3, <1>4, <1>5

\* A close frame is answered and ends the connection.
LEMMA ReadCloseInv ==
  ASSUME IInv, ReadClose
  PROVE  IInv'
<1>1. /\ wsState # "connecting" /\ Hangup(TRUE) /\ TRUE \in BOOLEAN
      /\ UNCHANGED <<http, selfRef, sent, received>>
      /\ inbox' = <<>> \/ (inbox # <<>> /\ inbox' = Tail(inbox))
  BY DEF ReadClose, ReadFrame, IInv, SocketOK, FlagsOK
<1>2. /\ LuaOK' /\ FramesOK' /\ GuardOK' /\ SocketOK' /\ wsState' = "closed"
      /\ bev' \in BOOLEAN /\ freeing' \in BOOLEAN /\ cleaning' \in BOOLEAN
      /\ cb' \in {"http", "ws", "flush", "none"}
  BY <1>1, HangupKeeps
<1> USE DEF IInv
<1>3. output' \in BOOLEAN /\ WireOK'
  BY <1>2 DEF ReadClose, Wrote, FlagsOK, WireOK
<1>4. FlagsOK' /\ StatesOK'
  BY <1>1, <1>2, <1>3 DEF ReadClose, ReadFrame, http, FlagsOK, StatesOK
<1>5. ResponseInOrder'
  BY <1>1 DEF ReadClose, ReadFrame, http, ResponseInOrder
<1>6. QED
  BY <1>2, <1>3, <1>4, <1>5

\* A frame that cannot be allocated ends the connection.
LEMMA ReadHugeInv ==
  ASSUME IInv, ReadHuge
  PROVE  IInv'
<1>1. /\ wsState # "connecting" /\ Hangup(output) /\ output \in BOOLEAN
      /\ UNCHANGED <<http, selfRef, sent, received>>
      /\ inbox' = <<>> \/ (inbox # <<>> /\ inbox' = Tail(inbox))
  BY DEF ReadHuge, ReadFrame, IInv, SocketOK, FlagsOK
<1>2. /\ LuaOK' /\ FramesOK' /\ GuardOK' /\ SocketOK' /\ wsState' = "closed"
      /\ bev' \in BOOLEAN /\ freeing' \in BOOLEAN /\ cleaning' \in BOOLEAN
      /\ cb' \in {"http", "ws", "flush", "none"}
  BY <1>1, HangupKeeps
<1> USE DEF IInv
<1>3. output' \in BOOLEAN /\ WireOK'
  BY <1>2 DEF ReadHuge, FlagsOK, WireOK
<1>4. FlagsOK' /\ StatesOK'
  BY <1>1, <1>2, <1>3 DEF ReadHuge, ReadFrame, http, FlagsOK, StatesOK
<1>5. ResponseInOrder'
  BY <1>1 DEF ReadHuge, ReadFrame, http, ResponseInOrder
<1>6. QED
  BY <1>2, <1>3, <1>4, <1>5

\* libevent reports the end of the connection.
LEMMA EventCbInv ==
  ASSUME IInv, EventCb
  PROVE  IInv'
<1>1. /\ wsState # "connecting" /\ Hangup(output) /\ output \in BOOLEAN
      /\ UNCHANGED <<http, selfRef, sent, received>>
      /\ inbox' = <<>> \/ (inbox # <<>> /\ inbox' = Tail(inbox))
  BY DEF EventCb, IInv, SocketOK, FlagsOK
<1>2. /\ LuaOK' /\ FramesOK' /\ GuardOK' /\ SocketOK' /\ wsState' = "closed"
      /\ bev' \in BOOLEAN /\ freeing' \in BOOLEAN /\ cleaning' \in BOOLEAN
      /\ cb' \in {"http", "ws", "flush", "none"}
  BY <1>1, HangupKeeps
<1> USE DEF IInv
<1>3. output' \in BOOLEAN /\ WireOK'
  BY <1>2 DEF EventCb, FlagsOK, WireOK
<1>4. FlagsOK' /\ StatesOK'
  BY <1>1, <1>2, <1>3 DEF EventCb, http, FlagsOK, StatesOK
<1>5. ResponseInOrder'
  BY <1>1 DEF EventCb, http, ResponseInOrder
<1>6. QED
  BY <1>2, <1>3, <1>4, <1>5

\* A text frame goes to the coroutine that waits, or into the queue.
LEMMA ReadTextInv ==
  ASSUME IInv, ReadText
  PROVE  IInv'
<1>1. /\ inbox # <<>> /\ inbox' = Tail(inbox) /\ wsState # "connecting"
      /\ UNCHANGED <<http, peer, sent, selfRef, wsState, bev, cleaning, cb, freeing,
                     output, wire>>
  BY DEF ReadText, ReadFrame, IInv, SocketOK
<1>2. LuaOK' /\ FramesOK' /\ (co'[Handler] # "done" => co[Handler] # "done")
  <2>1. CASE ref # NoCo
    <3>1. /\ received' = Append(received, Head(inbox)[2]) /\ queue' = queue
          /\ Resume(ref, "ws") /\ ref' = NoCo
      BY <2>1 DEF ReadText
    <3>2. /\ ref \in Coroutines /\ co[ref] = "waiting" /\ "ws" \in Resumers \ {"http"}
      BY <2>1 DEF IInv, LuaOK, Resumers
    <3>3. LuaOK'
      BY <1>1, <2>1, <3>1, <3>2, PushLua DEF IInv
    <3>4. FramesOK'
      BY <1>1, <2>1, <3>1, HandedFrame, HttpAssumption DEF IInv
    <3>5. co'[Handler] # "done" => co[Handler] # "done"
      BY <3>1, <3>2, HttpAssumption DEF Resume, IInv, LuaOK, HttpAssumption
    <3>6. QED
      BY <3>3, <3>4, <3>5
  <2>2. CASE ref = NoCo
    <3>1. /\ queue' = QueuePush(Head(inbox)[2])
          /\ UNCHANGED <<received, co, stack, ref>>
      BY <2>2 DEF ReadText
    <3>2. CASE Len(queue) >= QueueLimit
      BY <1>1, <2>2, <3>1, <3>2, SameLua, FewerFrames, HttpAssumption DEF QueuePush, IInv
    <3>3. CASE ~(Len(queue) >= QueueLimit)
      <4>1. Len(queue) < QueueLimit /\ queue' = Append(queue, Head(inbox)[2])
        <5>1. queue \in Seq(Nat)
          BY DEF IInv, FramesOK
        <5>2. Len(queue) \in Nat /\ QueueLimit \in Nat
          BY <5>1, HttpAssumption DEF HttpAssumption
        <5>3. QED
          BY <3>1, <3>3, <5>2 DEF QueuePush
      <4>2. QED
        BY <1>1, <2>2, <3>1, <4>1, SameLua, PushedFrame, HttpAssumption DEF IInv
    <3>4. QED
      BY <3>2, <3>3
  <2>3. QED
    BY <2>1, <2>2
<1> USE DEF IInv
<1>3. FlagsOK' /\ StatesOK' /\ GuardOK'
  <2>1. FlagsOK'
    BY <1>1 DEF http, FlagsOK
  <2>2. StatesOK'
    BY <1>1 DEF http, StatesOK
  <2>3. GuardOK'
    BY <1>1, <1>2 DEF http, GuardOK
  <2>4. QED
    BY <2>1, <2>2, <2>3
<1>4. SocketOK' /\ ResponseInOrder' /\ WireOK'
  BY <1>1 DEF http, SocketOK, ResponseInOrder, WireOK
<1>5. QED
  BY <1>2, <1>3, <1>4

\* The loop of ws_readcb ends.
LEMMA ReadStopInv ==
  ASSUME IInv, ReadStop
  PROVE  IInv'
<1>1. LuaOK' /\ FramesOK'
  BY CallKeeps DEF ReadStop, peers, socket
<1> USE DEF IInv
<1>2. FlagsOK' /\ StatesOK' /\ GuardOK'
  <2>1. FlagsOK'
    BY DEF ReadStop, http, socket, peers, FlagsOK
  <2>2. StatesOK'
    BY DEF ReadStop, http, socket, peers, StatesOK
  <2>3. GuardOK'
    BY DEF ReadStop, http, socket, peers, GuardOK
  <2>4. QED
    BY <2>1, <2>2, <2>3
<1>3. SocketOK' /\ ResponseInOrder' /\ WireOK'
  BY DEF ReadStop, http, socket, peers, SocketOK, ResponseInOrder, WireOK
<1>4. QED
  BY <1>1, <1>2, <1>3

\* The output is written out, or fails to be.
LEMMA DrainInv ==
  ASSUME IInv, Drain
  PROVE  IInv'
<1>1. LuaOK' /\ FramesOK'
  BY CallKeeps DEF Drain, peers, luaSide, socket
<1> USE DEF IInv, FlagsOK, StatesOK
<1>2. FlagsOK' /\ StatesOK'
  <2>1. freeing' \in BOOLEAN /\ evreq' \in BOOLEAN /\ output' \in BOOLEAN
    BY Zenon DEF Drain
  <2>2. QED
    BY <2>1 DEF Drain, peers
<1>3. GuardOK'
  BY DEF Drain, socket, luaSide, GuardOK, SocketOK, ResponseInOrder
<1>4. SocketOK'
  BY DEF Drain, socket, SocketOK
<1>5. ResponseInOrder' /\ WireOK'
  BY DEF Drain, socket, peers, GuardOK, ResponseInOrder, WireOK
<1>6. QED
  BY <1>1, <1>2, <1>3, <1>4, <1>5

\* libevent finds the peer of an HTTP connection gone.
LEMMA HttpClosedInv ==
  ASSUME IInv, HttpClosed
  PROVE  IInv'
<1>1. LuaOK' /\ FramesOK'
  BY CallKeeps DEF HttpClosed, peers, luaSide, socket
<1> USE DEF IInv, FlagsOK, StatesOK
<1>2. FlagsOK' /\ StatesOK'
  <2>1. FlagsOK'
    BY DEF HttpClosed, CloseCb, socket, peers
  <2>2. StatesOK'
    BY DEF HttpClosed, CloseCb, socket, peers
  <2>3. QED
    BY <2>1, <2>2
<1>3. GuardOK'
  BY DEF HttpClosed, CloseCb, socket, luaSide, GuardOK, SocketOK, ResponseInOrder
<1>4. SocketOK'
  BY DEF HttpClosed, CloseCb, socket, SocketOK
<1>5. ResponseInOrder' /\ WireOK'
  BY DEF HttpClosed, CloseCb, socket, peers, GuardOK, ResponseInOrder, WireOK
<1>6. QED
  BY <1>1, <1>2, <1>3, <1>4, <1>5

\* ws_deferred_free_cb frees the connection.
LEMMA DeferredFreeInv ==
  ASSUME IInv, DeferredFree
  PROVE  IInv'
<1>1. LuaOK' /\ FramesOK'
  BY CallKeeps DEF DeferredFree, peers, luaSide, socket
<1> USE DEF IInv, FlagsOK, StatesOK
<1>2. FlagsOK' /\ StatesOK'
  <2>1. FlagsOK'
    BY DEF DeferredFree, socket, peers
  <2>2. StatesOK'
    BY DEF DeferredFree, socket, peers
  <2>3. QED
    BY <2>1, <2>2
<1>3. GuardOK'
  BY DEF DeferredFree, socket, luaSide, GuardOK, SocketOK, ResponseInOrder
<1>4. SocketOK'
  BY DEF DeferredFree, socket, SocketOK
<1>5. ResponseInOrder' /\ WireOK'
  BY DEF DeferredFree, socket, peers, GuardOK, ResponseInOrder, WireOK
<1>6. QED
  BY <1>1, <1>2, <1>3, <1>4, <1>5

\* Every step keeps the invariant.
LEMMA NextInv == IInv /\ [Next]_vars => IInv'
<1> SUFFICES ASSUME IInv, [Next]_vars PROVE IInv'
  OBVIOUS
<1>1. CASE UNCHANGED vars
  <2>1. LuaOK' /\ FramesOK'
    BY <1>1, CallKeeps DEF vars, luaSide, peers, socket
  <2>2. FlagsOK' /\ StatesOK' /\ GuardOK'
    <3>1. FlagsOK'
      BY <1>1 DEF vars, http, socket, peers, luaSide, IInv, FlagsOK
    <3>2. StatesOK'
      BY <1>1 DEF vars, http, socket, peers, luaSide, IInv, StatesOK
    <3>3. GuardOK'
      BY <1>1 DEF vars, http, socket, peers, luaSide, IInv, GuardOK
    <3>4. QED
      BY <3>1, <3>2, <3>3
  <2>3. SocketOK' /\ ResponseInOrder' /\ WireOK'
    BY <1>1 DEF vars, http, socket, peers, IInv, SocketOK, ResponseInOrder, WireOK
  <2>4. QED
    BY <2>1, <2>2, <2>3 DEF IInv
<1>2. ASSUME NEW c \in Coroutines, Call(c) PROVE IInv'
  BY <1>2, ReplyInv, ReplyStartInv, ReplyChunkInv, ReplyEndInv, AcceptInv, SendInv,
     CloseInv, ReceiveQueuedInv, SpawnInv DEF Call
<1>3. ASSUME NEW c \in Coroutines, Stop(c) PROVE IInv'
  BY <1>3, ReceiveWaitInv, SleepInv, FinishInv DEF Stop
<1>4. CASE Read
  BY <1>4, ReadPingInv, ReadCloseInv, ReadHugeInv, ReadTextInv, ReadStopInv DEF Read
<1>5. QED
  BY <1>1, <1>2, <1>3, <1>4, WakeInv, PeerSendInv, PeerCloseInv, EventCbInv, DrainInv,
     HttpClosedInv, DeferredFreeInv DEF Next

\* The inductive invariant holds in every reachable state.
LEMMA Invariant == Spec => []IInv
BY InitInv, NextInv, PTL DEF Spec

-----------------------------------------------------------------------------
(* The theorems *)

\* libevent never calls back into a collected Request, a handler never
\* replies to a request libevent has freed, and ws_bev is never stale.
THEOREM RequestReferenced == Spec => []CallbacksReferenced
<1>1. IInv => CallbacksReferenced
  BY DEF IInv, FlagsOK, StatesOK, GuardOK, SocketOK, CallbacksReferenced
<1>2. QED
  BY <1>1, Invariant, PTL

\* The response is started once and ended once, in that order, as far as the
\* peer is there to see it.
THEOREM RequestAnswered == Spec => []ResponseInOrder
<1>1. IInv => ResponseInOrder
  BY DEF IInv
<1>2. QED
  BY <1>1, Invariant, PTL

\* Text frames reach Lua in the order they were sent and within the limit of
\* the queue, and nothing is written after a close frame.
THEOREM WebsocketFrames == Spec => []FramesInOrder
<1>1. ASSUME IInv PROVE FramesInOrder
  <2> DEFINE n == Len(received)
             s == received \o queue
  <2>1. received \in Seq(Nat) /\ queue \in Seq(Nat) /\ n \in Nat /\ Len(queue) \in Nat
    <3>1. received \in Seq(Nat) /\ queue \in Seq(Nat)
      BY <1>1 DEF IInv, FramesOK
    <3>2. QED
      BY <3>1
  <2>2. /\ Len(s) = n + Len(queue)
        /\ \A i \in 1..(n + Len(queue)) :
             s[i] = IF i <= n THEN received[i] ELSE queue[i - n]
    BY <2>1, ConcatProperties
  <2>3. ASSUME NEW j \in 2..Len(s) PROVE s[j - 1] < s[j]
    <3>1. j \in Int /\ j - 1 \in 1..(n + Len(queue)) /\ j \in 1..(n + Len(queue))
      BY <2>1, <2>2
    <3>2. CASE j <= n
      <4>1. /\ j - 1 \in 1..n /\ j \in 1..n /\ j - 1 < j
            /\ s[j - 1] = received[j - 1] /\ s[j] = received[j]
        BY <2>1, <2>2, <3>1, <3>2
      <4>2. QED
        BY <1>1, <4>1 DEF IInv, FramesOK
    <3>3. CASE j = n + 1
      <4>1. /\ n \in 1..n /\ 1 \in 1..Len(queue)
            /\ s[j - 1] = received[n] /\ s[j] = queue[1]
        BY <2>1, <2>2, <3>1, <3>3
      <4>2. QED
        BY <1>1, <4>1 DEF IInv, FramesOK
    <3>4. CASE j > n + 1
      <4>1. /\ j - 1 - n \in 1..Len(queue) /\ j - n \in 1..Len(queue)
            /\ j - 1 - n < j - n
            /\ s[j - 1] = queue[j - 1 - n] /\ s[j] = queue[j - n]
        <5>1. /\ j - 1 - n \in 1..Len(queue) /\ j - n \in 1..Len(queue)
              /\ j - 1 - n < j - n /\ ~(j - 1 <= n) /\ ~(j <= n)
          BY <2>1, <3>1, <3>4
        <5>2. s[j - 1] = queue[j - 1 - n] /\ s[j] = queue[j - n]
          BY <2>2, <3>1, <5>1
        <5>3. QED
          BY <5>1, <5>2
      <4>2. QED
        BY <1>1, <4>1 DEF IInv, FramesOK
    <3>5. QED
      BY <2>1, <3>1, <3>2, <3>3, <3>4
  <2>4. /\ ref # NoCo => queue = <<>>
        /\ Len(queue) =< QueueLimit
        /\ wire # "late"
    BY <1>1 DEF IInv, FramesOK, WireOK
  <2>5. QED
    BY <2>3, <2>4 DEF FramesInOrder
<1>2. QED
  BY <1>1, Invariant, PTL

=============================================================================
