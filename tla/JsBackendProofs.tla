--------------------------- MODULE JsBackendProofs ---------------------------
(***************************************************************************)
(* Theorems about JsBackend: handles always lead to something, the caller  *)
(* of a host function is the instance that executes, exports are bound to  *)
(* their instance and have the signatures of their binary, and the         *)
(* accesses of a host function stay inside the memory of that instance.    *)
(***************************************************************************)
EXTENDS JsBackend, FiniteSetTheorems, SequenceTheorems, TLAPS

\* The types of what the store keeps, whose positions are handles.
Signatures == {KthSignature(b, k) : b \in Binaries, k \in Nat}
StoredFunction ==
    [what : {"guest", "host"}, instance : Nat \cup {Absent}, results : Signatures \cup {Absent}]
Exports == UNION {[names -> [kind : STRING, handle : Nat \cup {Absent}]] : names \in SUBSET STRING}
StoredInstance ==
    [binary : Binaries, exports : Exports, imports : SUBSET Nat, wasi : Nat]
Attempt == [binary : Binaries, wasi : Nat \cup {Absent}, imports : SUBSET Nat]
Frame == [what : {"guest", "host"}, instance : Nat, function : Nat]

Shape ==
    /\ wasi_contexts \in Seq(Nat \cup {Absent})
    /\ instances \in Seq(StoredInstance)
    /\ functions \in Seq(StoredFunction)
    /\ wasm_call_stack \in Seq(Nat)
    /\ frames \in Seq(Frame)
    /\ loading # Absent => loading \in Attempt

\* The conjuncts of JsTypeOK, the sequences being typed by Shape.
ContextsLead == \A i \in DOMAIN wasi_contexts : wasi_contexts[i] \in {Absent} \cup DOMAIN instances

InstancesLead ==
    \A i \in DOMAIN instances :
        /\ instances[i].wasi \in DOMAIN wasi_contexts
        /\ instances[i].imports \subseteq DOMAIN functions
        /\ \A name \in DOMAIN instances[i].exports :
            LET export == instances[i].exports[name]
            IN  export.kind = "func" => export.handle \in DOMAIN functions

FunctionsLead ==
    \A f \in DOMAIN functions :
        IF functions[f].what = "guest"
        THEN functions[f].instance \in DOMAIN instances
        ELSE functions[f].what = "host" /\ functions[f].instance = Absent

StackLeads == \A i \in DOMAIN wasm_call_stack : wasm_call_stack[i] \in DOMAIN instances

FramesLead ==
    /\ Len(frames) <= MaxDepth
    /\ \A i \in DOMAIN frames :
        /\ frames[i].what = (IF i % 2 = 1 THEN "guest" ELSE "host")
        /\ frames[i].instance \in DOMAIN instances
        /\ frames[i].function \in DOMAIN functions

LoadingLeads ==
    loading # Absent =>
        /\ frames = <<>>
        /\ loading.wasi \in {Absent} \cup DOMAIN wasi_contexts
        /\ loading.imports \subseteq DOMAIN functions

Counted == attempts \in 0..MaxAttempts /\ panics \in 0..MaxPanics

\* Also after panics there is an entry for each guest frame, so that a host
\* function finds some caller.
StackDeep == Len(wasm_call_stack) >= (Len(frames) + 1) \div 2

StoreInv == ContextsLead /\ InstancesLead /\ FunctionsLead
CallInv == StackLeads /\ FramesLead /\ StackDeep /\ CallerIsExecuting

JsInv ==
    /\ Shape /\ StoreInv /\ CallInv /\ LoadingLeads /\ Counted
    /\ AccessInside

------------------------------------------------------------------------------
(* Sequences.                                                              *)

LEMMA SeqOfElements ==
  ASSUME NEW S, NEW D, NEW s \in Seq(S), \A i \in DOMAIN s : s[i] \in D
  PROVE  s \in Seq(D)
  OBVIOUS

LEMMA Appended ==
  ASSUME NEW S, NEW s \in Seq(S), NEW e \in S
  PROVE  /\ Append(s, e) \in Seq(S)
         /\ Len(Append(s, e)) = Len(s) + 1
         /\ DOMAIN Append(s, e) = 1..(Len(s) + 1)
         /\ \A i \in 1..Len(s) : Append(s, e)[i] = s[i]
         /\ Append(s, e)[Len(s) + 1] = e
  OBVIOUS

\* The first entries of a sequence.
LEMMA Cut ==
  ASSUME NEW S, NEW s \in Seq(S), NEW n \in Nat, n <= Len(s)
  PROVE  /\ SubSeq(s, 1, n) \in Seq(S)
         /\ Len(SubSeq(s, 1, n)) = n
         /\ DOMAIN SubSeq(s, 1, n) = 1..n
         /\ \A i \in 1..n : SubSeq(s, 1, n)[i] = s[i]
  OBVIOUS

LEMMA Element ==
  ASSUME NEW S, NEW s \in Seq(S), NEW i \in DOMAIN s
  PROVE  s[i] \in S /\ i \in 1..Len(s)
  OBVIOUS

LEMMA LastOf ==
  ASSUME NEW S, NEW s \in Seq(S), s # <<>>
  PROVE  Last(s) = s[Len(s)] /\ Len(s) \in Nat \ {0} /\ DOMAIN s = 1..Len(s)
  BY DEF Last

LEMMA Joined ==
  ASSUME NEW S, NEW s \in Seq(S), NEW n \in Nat, NEW t \in [1..n -> S]
  PROVE  /\ s \o t \in Seq(S)
         /\ Len(s \o t) = Len(s) + n /\ Len(s) \in Nat
         /\ DOMAIN (s \o t) = 1..(Len(s) + n) /\ DOMAIN s = 1..Len(s)
         /\ \A i \in 1..Len(s) : (s \o t)[i] = s[i]
         /\ \A i \in 1..n : (s \o t)[Len(s) + i] = t[i]
         /\ \A i \in (Len(s) + 1)..(Len(s) + n) : i - Len(s) \in 1..n /\ (s \o t)[i] = t[i - Len(s)]
<1>1. t \in Seq(S) /\ Len(t) = n
  OBVIOUS
<1> QED
  BY <1>1

LEMMA Halves ==
  ASSUME NEW n \in Nat
  PROVE  /\ n % 2 = 0 \/ n % 2 = 1
         /\ n % 2 = 0 => (n + 1) % 2 = 1 /\ (n + 1) \div 2 = n \div 2
                         /\ (n + 2) \div 2 = n \div 2 + 1
         /\ n % 2 = 1 => (n + 1) % 2 = 0 /\ (n + 1) \div 2 = n \div 2 + 1
                         /\ (n + 2) \div 2 = n \div 2 + 1
         /\ n \div 2 \in Nat
         /\ n # 0 /\ n % 2 = 0 => n - 2 \in Nat /\ n - 1 \in Nat \ {0}
         /\ n # 1 /\ n % 2 = 1 => n - 3 \in Nat
  OBVIOUS

LEMMA Indices ==
  ASSUME NEW n \in Nat, NEW i \in 1..(n + 1)
  PROVE  i \in 1..n \/ i = n + 1
  OBVIOUS

LEMMA TypeFromParts ==
  ASSUME Shape, StoreInv, StackLeads, FramesLead, LoadingLeads, Counted
  PROVE  JsTypeOK
<1>1. wasi_contexts \in Seq({Absent} \cup DOMAIN instances)
  BY SeqOfElements DEF Shape, StoreInv, ContextsLead
<1>2. wasm_call_stack \in Seq(DOMAIN instances)
  BY SeqOfElements DEF Shape, StackLeads
<1>3. \A i \in DOMAIN instances : instances[i].binary \in Binaries
<2>1. \A i \in DOMAIN instances : instances[i] \in StoredInstance
  BY Element DEF Shape
<2> QED
  BY <2>1 DEF StoredInstance
<1> QED
  BY <1>1, <1>2, <1>3
  DEF JsTypeOK, StoreInv, InstancesLead, FunctionsLead, FramesLead, LoadingLeads, Counted

------------------------------------------------------------------------------
(* Steps of calls, which leave the store alone.                            *)

\* What a step of a call has to establish.
LEMMA CallKeeps ==
  ASSUME JsInv, UNCHANGED <<storeVars, loading, attempts>>, loading = Absent,
         wasm_call_stack' \in Seq(Nat), frames' \in Seq(Frame),
         panics' \in 0..MaxPanics, CallInv', AccessInside'
  PROVE  JsInv'
<1>1. Shape'
  BY DEF JsInv, Shape, storeVars
<1>2. StoreInv'
  BY DEF JsInv, StoreInv, ContextsLead, InstancesLead, FunctionsLead, storeVars
<1>3. LoadingLeads' /\ Counted'
  BY DEF JsInv, LoadingLeads, Counted
<1> QED
  BY <1>1, <1>2, <1>3 DEF JsInv

\* Guest code executes at odd depths, host functions at even ones.
LEMMA TopFrame ==
  ASSUME JsInv, frames # <<>>
  PROVE  /\ Len(frames) \in Nat \ {0}
         /\ Len(frames) <= MaxDepth
         /\ Last(frames) = frames[Len(frames)]
         /\ Last(frames) \in Frame
         /\ Last(frames).instance \in DOMAIN instances
         /\ Last(frames).function \in DOMAIN functions
         /\ GuestOnTop <=> Len(frames) % 2 = 1
         /\ HostOnTop <=> Len(frames) % 2 = 0
         /\ loading = Absent
<1>1. frames \in Seq(Frame)
  BY DEF JsInv, Shape
<1>2. /\ Last(frames) = frames[Len(frames)]
      /\ Len(frames) \in Nat \ {0}
      /\ Len(frames) \in DOMAIN frames
  BY <1>1, LastOf
<1>3. frames[Len(frames)] \in Frame
  BY <1>1, <1>2, Element
<1>4. /\ Len(frames) <= MaxDepth
      /\ Last(frames).what = (IF Len(frames) % 2 = 1 THEN "guest" ELSE "host")
      /\ Last(frames).instance \in DOMAIN instances
      /\ Last(frames).function \in DOMAIN functions
  BY <1>2 DEF JsInv, CallInv, FramesLead
<1>5. loading = Absent
  BY DEF JsInv, LoadingLeads
<1> QED
  BY <1>2, <1>3, <1>4, <1>5 DEF GuestOnTop, HostOnTop

LEMMA StackShape ==
  ASSUME JsInv
  PROVE  /\ wasm_call_stack \in Seq(Nat)
         /\ Len(wasm_call_stack) \in Nat
         /\ DOMAIN wasm_call_stack = 1..Len(wasm_call_stack)
         /\ frames \in Seq(Frame)
         /\ Len(frames) \in Nat
         /\ DOMAIN frames = 1..Len(frames)
         /\ Len(wasm_call_stack) >= (Len(frames) + 1) \div 2
         /\ panics \in 0..MaxPanics /\ MaxPanics \in Nat /\ MaxDepth \in Nat
  BY BoundsAssumption DEF JsInv, Shape, CallInv, StackDeep, Counted

\* Entering guest code, from outside or from a host function.
LEMMA EnterStep ==
  ASSUME JsInv, AtRest \/ HostOnTop, NEW handle \in DOMAIN functions, Enter(handle)
  PROVE  JsInv'
<1> DEFINE frame == [what |-> "guest", instance |-> functions[handle].instance, function |-> handle]
<1>1. functions[handle].instance \in DOMAIN instances
  BY DEF Enter, JsInv, StoreInv, FunctionsLead
<1>2. handle \in Nat /\ functions[handle].instance \in Nat
  BY <1>1 DEF JsInv, Shape
<1>3. loading = Absent /\ Len(frames) % 2 = 0
  <2>1. CASE AtRest
    BY <2>1 DEF AtRest
  <2>2. CASE HostOnTop
    BY <2>2, TopFrame DEF HostOnTop
  <2> QED
    BY <2>1, <2>2
<1>4. /\ wasm_call_stack' = Append(wasm_call_stack, functions[handle].instance)
      /\ frames' = Append(frames, frame)
      /\ frame \in Frame
  BY <1>2 DEF Enter, Frame
<1>5. /\ wasm_call_stack' \in Seq(Nat)
      /\ Len(wasm_call_stack') = Len(wasm_call_stack) + 1
      /\ DOMAIN wasm_call_stack' = 1..(Len(wasm_call_stack) + 1)
      /\ \A i \in 1..Len(wasm_call_stack) : wasm_call_stack'[i] = wasm_call_stack[i]
      /\ wasm_call_stack'[Len(wasm_call_stack) + 1] = functions[handle].instance
  BY <1>2, <1>4, StackShape, Appended
<1>6. /\ frames' \in Seq(Frame)
      /\ Len(frames') = Len(frames) + 1
      /\ DOMAIN frames' = 1..(Len(frames) + 1)
      /\ \A i \in 1..Len(frames) : frames'[i] = frames[i]
      /\ frames'[Len(frames) + 1] = frame
  <2> HIDE DEF frame
  <2> QED
    BY <1>4, StackShape, Appended
<1>7. StackLeads'
  BY <1>1, <1>5, StackShape DEF Enter, storeVars, JsInv, CallInv, StackLeads
<1>8. FramesLead'
  <2>1. \A i \in 1..Len(frames) :
            /\ frames'[i].what = (IF i % 2 = 1 THEN "guest" ELSE "host")
            /\ frames'[i].instance \in DOMAIN instances
            /\ frames'[i].function \in DOMAIN functions
    BY <1>6, StackShape DEF JsInv, CallInv, FramesLead
  <2>2. (Len(frames) + 1) % 2 = 1 /\ Len(frames) + 1 <= MaxDepth
    <3>1. Len(frames) < MaxDepth
      BY DEF Enter
    <3> QED
      BY <1>3, <3>1, StackShape, Halves
  <2>3. /\ frames'[Len(frames) + 1].what = "guest"
        /\ frames'[Len(frames) + 1].instance \in DOMAIN instances
        /\ frames'[Len(frames) + 1].function \in DOMAIN functions
    BY <1>1, <1>6
  <2>4. UNCHANGED <<instances, functions>> /\ Len(frames') <= MaxDepth
    BY <1>6, <2>2 DEF Enter, storeVars
  <2>5. \A i \in 1..(Len(frames) + 1) : i \in 1..Len(frames) \/ i = Len(frames) + 1
    BY StackShape, Indices
  <2> QED
    BY <1>6, <2>1, <2>2, <2>3, <2>4, <2>5 DEF FramesLead
<1>9. StackDeep'
  BY <1>5, <1>6, StackShape DEF StackDeep
<1>10. CallerIsExecuting'
  <2> SUFFICES ASSUME panics = 0
      PROVE  /\ Len(wasm_call_stack') = (Len(frames') + 1) \div 2
             /\ \A i \in DOMAIN frames' :
                  IF i % 2 = 1
                  THEN wasm_call_stack'[(i + 1) \div 2] = frames'[i].instance
                  ELSE frames'[i].instance = frames'[i - 1].instance
    BY DEF CallerIsExecuting, Enter
  <2>1. /\ Len(wasm_call_stack) = (Len(frames) + 1) \div 2
        /\ \A i \in DOMAIN frames :
             IF i % 2 = 1
             THEN wasm_call_stack[(i + 1) \div 2] = frames[i].instance
             ELSE frames[i].instance = frames[i - 1].instance
    BY DEF JsInv, CallInv, CallerIsExecuting
  <2>2. /\ Len(wasm_call_stack') = (Len(frames') + 1) \div 2
        /\ (Len(frames) + 2) \div 2 = Len(wasm_call_stack) + 1
        /\ (Len(frames) + 1) % 2 = 1
    <3>1. (Len(frames) + 1) \div 2 = Len(frames) \div 2 /\ (Len(frames) + 1) % 2 = 1
          /\ (Len(frames) + 2) \div 2 = Len(frames) \div 2 + 1 /\ Len(frames) \in Nat
      BY <1>3, StackShape, Halves
    <3> QED
      BY <1>5, <1>6, <2>1, <3>1
  <2>3. \A i \in 1..Len(frames) : i % 2 = 1 => (i + 1) \div 2 \in 1..Len(wasm_call_stack)
    BY <2>1, StackShape
  <2>4. \A i \in 1..Len(frames) : i % 2 # 1 => i - 1 \in 1..Len(frames)
    BY StackShape
  <2>5. ASSUME NEW i \in 1..Len(frames)
        PROVE  IF i % 2 = 1
               THEN wasm_call_stack'[(i + 1) \div 2] = frames'[i].instance
               ELSE frames'[i].instance = frames'[i - 1].instance
    BY <1>5, <1>6, <2>1, <2>3, <2>4, StackShape
  <2>6. wasm_call_stack'[(Len(frames) + 2) \div 2] = frames'[Len(frames) + 1].instance
    BY <1>5, <1>6, <2>2
  <2>7. \A i \in 1..(Len(frames) + 1) : i \in 1..Len(frames) \/ i = Len(frames) + 1
    BY StackShape, Indices
  <2>8. Len(frames) + 1 + 1 = Len(frames) + 2
    BY StackShape
  <2> QED
    BY <1>6, <2>2, <2>5, <2>6, <2>7, <2>8
<1>11. AccessInside' /\ panics' \in 0..MaxPanics
  BY StackShape DEF AccessInside, Enter
<1> QED
  BY <1>3, <1>5, <1>6, <1>7, <1>8, <1>9, <1>10, <1>11, CallKeeps DEF CallInv, Enter

\* Frames end, and entries of the stack with them.
LEMMA Unwound ==
  ASSUME JsInv, frames # <<>>, UNCHANGED <<storeVars, loading, attempts>>, access' = Absent,
         NEW n \in Nat, n <= Len(frames), frames' = SubSeq(frames, 1, n),
         NEW m \in Nat, m <= Len(wasm_call_stack), wasm_call_stack' = SubSeq(wasm_call_stack, 1, m),
         m >= (n + 1) \div 2, panics' \in 0..MaxPanics,
         panics' = 0 => panics = 0 /\ m = (n + 1) \div 2
  PROVE  JsInv'
<1>1. /\ wasm_call_stack' \in Seq(Nat)
      /\ Len(wasm_call_stack') = m
      /\ DOMAIN wasm_call_stack' = 1..m
      /\ \A i \in 1..m : wasm_call_stack'[i] = wasm_call_stack[i]
  BY StackShape, Cut
<1>2. /\ frames' \in Seq(Frame)
      /\ Len(frames') = n
      /\ DOMAIN frames' = 1..n
      /\ \A i \in 1..n : frames'[i] = frames[i]
  BY StackShape, Cut
<1>3. 1..n \subseteq 1..Len(frames) /\ 1..m \subseteq 1..Len(wasm_call_stack)
  BY StackShape
<1>4. StackLeads'
  BY <1>1, <1>3, StackShape DEF storeVars, JsInv, CallInv, StackLeads
<1>5. FramesLead'
  <2>1. n <= MaxDepth
    BY TopFrame, StackShape
  <2> QED
    BY <1>2, <1>3, <2>1, StackShape DEF storeVars, JsInv, CallInv, FramesLead
<1>6. StackDeep'
  BY <1>1, <1>2 DEF StackDeep
<1>7. CallerIsExecuting'
  <2> SUFFICES ASSUME panics' = 0
      PROVE  /\ Len(wasm_call_stack') = (Len(frames') + 1) \div 2
             /\ \A i \in DOMAIN frames' :
                  IF i % 2 = 1
                  THEN wasm_call_stack'[(i + 1) \div 2] = frames'[i].instance
                  ELSE frames'[i].instance = frames'[i - 1].instance
    BY DEF CallerIsExecuting
  <2>1. \A i \in DOMAIN frames :
             IF i % 2 = 1
             THEN wasm_call_stack[(i + 1) \div 2] = frames[i].instance
             ELSE frames[i].instance = frames[i - 1].instance
    BY DEF JsInv, CallInv, CallerIsExecuting
  <2>2. m = (n + 1) \div 2
    OBVIOUS
  <2>3. \A i \in 1..n : i % 2 = 1 => (i + 1) \div 2 \in 1..m
    BY <2>2
  <2>4. \A i \in 1..n : i % 2 # 1 => i - 1 \in 1..n
    OBVIOUS
  <2> QED
    BY <1>1, <1>2, <1>3, <2>1, <2>2, <2>3, <2>4, StackShape
<1>8. AccessInside'
  BY DEF AccessInside
<1> QED
  BY <1>1, <1>2, <1>4, <1>5, <1>6, <1>7, <1>8, TopFrame, CallKeeps DEF CallInv

\* Guest code ends, by a return or a trap.
LEMMA GuestEnds ==
  ASSUME JsInv, GuestReturns \/ GuestTraps
  PROVE  JsInv'
<1> DEFINE n == Len(frames) - 1
           m == Len(wasm_call_stack) - 1
<1>1. frames # <<>> /\ Len(frames) % 2 = 1
  BY TopFrame DEF GuestReturns, GuestTraps, GuestOnTop
<1>2. /\ n \in Nat /\ n <= Len(frames) /\ (n + 1) \div 2 = Len(frames) \div 2
      /\ (Len(frames) + 1) \div 2 = Len(frames) \div 2 + 1 /\ Len(frames) \div 2 \in Nat
  <2>1. Len(frames) \in Nat \ {0}
    BY <1>1, TopFrame
  <2> QED
    BY <1>1, <2>1, Halves
<1>3. m \in Nat /\ m <= Len(wasm_call_stack) /\ m >= (n + 1) \div 2
  BY <1>2, StackShape
<1>4. panics' = 0 => panics = 0 /\ m = (n + 1) \div 2
  <2>1. panics = 0 => Len(wasm_call_stack) = (Len(frames) + 1) \div 2
    BY DEF JsInv, CallInv, CallerIsExecuting
  <2>2. panics' = panics
    BY DEF GuestReturns, GuestTraps
  <2>3. Len(wasm_call_stack) \in Nat
    BY StackShape
  <2> QED
    BY <1>2, <2>1, <2>2, <2>3
<1>5. /\ frames' = SubSeq(frames, 1, n) /\ wasm_call_stack' = SubSeq(wasm_call_stack, 1, m)
      /\ UNCHANGED <<storeVars, loading, attempts>> /\ access' = Absent /\ panics' \in 0..MaxPanics
  BY StackShape DEF GuestReturns, GuestTraps, Without, Pop
<1> QED
  <2> HIDE DEF n, m
  <2> QED
    BY <1>1, <1>2, <1>3, <1>4, <1>5, Unwound

LEMMA HostReturnsStep ==
  ASSUME JsInv, HostReturns
  PROVE  JsInv'
<1> DEFINE n == Len(frames) - 1
           m == Len(wasm_call_stack)
<1>1. frames # <<>> /\ Len(frames) % 2 = 0
  BY TopFrame DEF HostReturns, HostOnTop
<1>2. /\ n \in Nat /\ n <= Len(frames) /\ (n + 1) \div 2 = (Len(frames) + 1) \div 2
  <2>1. Len(frames) \in Nat \ {0}
    BY <1>1, TopFrame
  <2> QED
    BY <1>1, <2>1, Halves
<1>3. m \in Nat /\ m <= Len(wasm_call_stack) /\ m >= (n + 1) \div 2
  BY <1>2, StackShape
<1>4. panics' = 0 => panics = 0 /\ m = (n + 1) \div 2
  <2>1. panics = 0 => Len(wasm_call_stack) = (Len(frames) + 1) \div 2
    BY DEF JsInv, CallInv, CallerIsExecuting
  <2> QED
    BY <1>2, <2>1 DEF HostReturns
<1>5. /\ frames' = SubSeq(frames, 1, n) /\ wasm_call_stack' = SubSeq(wasm_call_stack, 1, m)
      /\ UNCHANGED <<storeVars, loading, attempts>> /\ access' = Absent /\ panics' \in 0..MaxPanics
  <2>1. SubSeq(wasm_call_stack, 1, Len(wasm_call_stack)) = wasm_call_stack
    BY StackShape, SubSeqFull
  <2> QED
    BY <2>1, StackShape DEF HostReturns, Without
<1> QED
  <2> HIDE DEF n, m
  <2> QED
    BY <1>1, <1>2, <1>3, <1>4, <1>5, Unwound

LEMMA HostThrowsStep ==
  ASSUME JsInv, HostThrows
  PROVE  JsInv'
<1> DEFINE n == Len(frames) - 2
           m == Len(wasm_call_stack) - 1
<1>1. frames # <<>> /\ Len(frames) % 2 = 0
  BY TopFrame DEF HostThrows, HostOnTop
<1>2. /\ n \in Nat /\ n <= Len(frames) /\ (n + 1) \div 2 = (Len(frames) + 1) \div 2 - 1
      /\ (n + 1) \div 2 \in Nat /\ (Len(frames) + 1) \div 2 \in Nat
  <2>1. Len(frames) \in Nat \ {0}
    BY <1>1, TopFrame
  <2>2. Len(frames) - 2 \in Nat
    BY <1>1, <2>1, Halves
  <2> QED
    BY <1>1, <2>1, <2>2
<1>3. m \in Nat /\ m <= Len(wasm_call_stack) /\ m >= (n + 1) \div 2
  BY <1>2, StackShape
<1>4. panics' = 0 => panics = 0 /\ m = (n + 1) \div 2
  <2>1. panics = 0 => Len(wasm_call_stack) = (Len(frames) + 1) \div 2
    BY DEF JsInv, CallInv, CallerIsExecuting
  <2> QED
    BY <1>2, <2>1, StackShape DEF HostThrows
<1>5. /\ frames' = SubSeq(frames, 1, n) /\ wasm_call_stack' = SubSeq(wasm_call_stack, 1, m)
      /\ UNCHANGED <<storeVars, loading, attempts>> /\ access' = Absent /\ panics' \in 0..MaxPanics
  BY StackShape DEF HostThrows, Without, Pop
<1> QED
  <2> HIDE DEF n, m
  <2> QED
    BY <1>1, <1>2, <1>3, <1>4, <1>5, Unwound

\* After the panic the stack has an entry too many, at least.
LEMMA UnsupportedStep ==
  ASSUME JsInv, GuestReturnsUnsupported
  PROVE  JsInv'
<1>1. frames # <<>> /\ Len(frames) % 2 = 1 /\ Len(frames) \in Nat \ {0}
  BY TopFrame DEF GuestReturnsUnsupported, GuestOnTop
<1>2. /\ UNCHANGED <<storeVars, loading, attempts>> /\ access' = Absent
      /\ panics' \in 0..MaxPanics /\ panics' # 0
  BY StackShape DEF GuestReturnsUnsupported
<1>3. CASE Len(frames) = 1
  <2>1. frames' = SubSeq(frames, 1, 0) /\ wasm_call_stack' = SubSeq(wasm_call_stack, 1, Len(wasm_call_stack))
    <3>1. SubSeq(wasm_call_stack, 1, Len(wasm_call_stack)) = wasm_call_stack
      BY StackShape, SubSeqFull
    <3>2. SubSeq(frames, 1, 0) = <<>>
      BY StackShape
    <3> QED
      BY <1>3, <3>1, <3>2 DEF GuestReturnsUnsupported
  <2>2. Len(wasm_call_stack) >= (0 + 1) \div 2 /\ Len(wasm_call_stack) \in Nat
    BY StackShape
  <2> QED
    BY <1>1, <1>2, <2>1, <2>2, Unwound
<1>4. CASE Len(frames) # 1
  <2> DEFINE n == Len(frames) - 3
             m == Len(wasm_call_stack) - 1
  <2>1. n \in Nat /\ n <= Len(frames)
    <3>1. Len(frames) \in Nat
      BY <1>1
    <3>2. Len(frames) - 3 \in Nat
      BY <1>1, <1>4, <3>1, Halves
    <3> QED
      BY <3>1, <3>2
  <2>2. m \in Nat /\ m <= Len(wasm_call_stack) /\ m >= (n + 1) \div 2
    <3>1. (n + 1) \div 2 <= (Len(frames) + 1) \div 2 - 1 /\ (n + 1) \div 2 \in Nat
          /\ (Len(frames) + 1) \div 2 \in Nat
      BY <1>1, <2>1
    <3> QED
      BY <3>1, StackShape
  <2>3. frames' = SubSeq(frames, 1, n) /\ wasm_call_stack' = SubSeq(wasm_call_stack, 1, m)
    BY <1>4 DEF GuestReturnsUnsupported, Without, Pop
  <2> HIDE DEF n, m
  <2> QED
    BY <1>1, <1>2, <2>1, <2>2, <2>3, Unwound
<1> QED
  BY <1>3, <1>4

\* An import is called: the host function takes the top of the stack for
\* its caller.
LEMMA GuestCallsImportStep ==
  ASSUME JsInv, GuestCallsImport
  PROVE  JsInv'
<1>1. frames # <<>> /\ Len(frames) % 2 = 1 /\ Len(frames) \in Nat \ {0} /\ loading = Absent
  BY TopFrame DEF GuestCallsImport, GuestOnTop
<1>2. PICK handle \in instances[Last(frames).instance].imports :
        frames' = Append(frames, [what |-> "host", instance |-> Last(wasm_call_stack),
                                  function |-> handle])
  BY DEF GuestCallsImport
<1> DEFINE frame == [what |-> "host", instance |-> Last(wasm_call_stack), function |-> handle]
<1>3. handle \in DOMAIN functions /\ handle \in Nat
  <2>1. instances[Last(frames).instance].imports \subseteq DOMAIN functions
    BY <1>1, TopFrame DEF JsInv, StoreInv, InstancesLead
  <2> QED
    BY <2>1, <1>2 DEF JsInv, Shape
<1>4. /\ (Len(frames) + 1) % 2 = 0 /\ (Len(frames) + 1) \div 2 \in Nat \ {0}
      /\ (Len(frames) + 2) \div 2 = (Len(frames) + 1) \div 2
  BY <1>1, Halves
<1>5. /\ wasm_call_stack # <<>>
      /\ Last(wasm_call_stack) = wasm_call_stack[Len(wasm_call_stack)]
      /\ Len(wasm_call_stack) \in DOMAIN wasm_call_stack
  <2>1. Len(wasm_call_stack) # 0
    BY <1>4, StackShape
  <2> QED
    BY <2>1, StackShape, LastOf
<1>6. Last(wasm_call_stack) \in DOMAIN instances /\ Last(wasm_call_stack) \in Nat
  BY <1>5, StackShape, Element DEF JsInv, CallInv, StackLeads
<1>7. frame \in Frame
  BY <1>3, <1>6 DEF Frame
<1>8. /\ frames' \in Seq(Frame)
      /\ Len(frames') = Len(frames) + 1
      /\ DOMAIN frames' = 1..(Len(frames) + 1)
      /\ \A i \in 1..Len(frames) : frames'[i] = frames[i]
      /\ frames'[Len(frames) + 1] = frame
  <2> HIDE DEF frame
  <2>1. frames' = Append(frames, frame)
    BY <1>2 DEF frame
  <2> QED
    BY <1>7, <2>1, StackShape, Appended
<1>9. /\ UNCHANGED <<storeVars, wasm_call_stack, loading, attempts, panics>>
      /\ access' = Absent /\ Len(frames) < MaxDepth
  BY DEF GuestCallsImport
<1>10. \A i \in 1..(Len(frames) + 1) : i \in 1..Len(frames) \/ i = Len(frames) + 1
  BY <1>1, Indices
<1>11. FramesLead'
  <2>1. \A i \in 1..Len(frames) :
            /\ frames'[i].what = (IF i % 2 = 1 THEN "guest" ELSE "host")
            /\ frames'[i].instance \in DOMAIN instances
            /\ frames'[i].function \in DOMAIN functions
    BY <1>8, StackShape DEF JsInv, CallInv, FramesLead
  <2>2. /\ frames'[Len(frames) + 1].what = "host"
        /\ frames'[Len(frames) + 1].instance \in DOMAIN instances
        /\ frames'[Len(frames) + 1].function \in DOMAIN functions
    BY <1>3, <1>6, <1>8
  <2>3. UNCHANGED <<instances, functions>>
    BY <1>9 DEF storeVars
  <2>4. Len(frames') <= MaxDepth
    <3>1. MaxDepth \in Nat
      BY StackShape
    <3> QED
      BY <1>1, <1>8, <1>9, <3>1
  <2> QED
    BY <1>4, <1>8, <1>10, <2>1, <2>2, <2>3, <2>4 DEF FramesLead
<1>12. StackLeads' /\ StackDeep'
  <2>1. StackLeads'
    BY <1>9 DEF JsInv, CallInv, StackLeads, storeVars
  <2>2. Len(frames) + 1 + 1 = Len(frames) + 2
    BY <1>1
  <2>3. StackDeep'
    BY <1>4, <1>8, <1>9, <2>2, StackShape DEF StackDeep
  <2> QED
    BY <2>1, <2>3
<1>13. CallerIsExecuting'
  <2> SUFFICES ASSUME panics = 0
      PROVE  /\ Len(wasm_call_stack) = (Len(frames') + 1) \div 2
             /\ \A i \in DOMAIN frames' :
                  IF i % 2 = 1
                  THEN wasm_call_stack[(i + 1) \div 2] = frames'[i].instance
                  ELSE frames'[i].instance = frames'[i - 1].instance
    BY <1>9 DEF CallerIsExecuting
  <2>1. /\ Len(wasm_call_stack) = (Len(frames) + 1) \div 2
        /\ \A i \in DOMAIN frames :
             IF i % 2 = 1
             THEN wasm_call_stack[(i + 1) \div 2] = frames[i].instance
             ELSE frames[i].instance = frames[i - 1].instance
    BY DEF JsInv, CallInv, CallerIsExecuting
  <2>2. Len(wasm_call_stack) = (Len(frames') + 1) \div 2
    <3>1. Len(frames) + 1 + 1 = Len(frames) + 2
      BY <1>1
    <3> QED
      BY <1>4, <1>8, <2>1, <3>1
  <2>3. \A i \in 1..Len(frames) : i % 2 # 1 => i - 1 \in 1..Len(frames)
    BY <1>1
  <2>4. \A i \in 1..Len(frames) :
            IF i % 2 = 1
            THEN wasm_call_stack[(i + 1) \div 2] = frames'[i].instance
            ELSE frames'[i].instance = frames'[i - 1].instance
    BY <1>8, <2>1, <2>3, StackShape
  <2>5. frames'[Len(frames) + 1].instance = frames'[Len(frames)].instance
    <3>1. Len(frames) \in 1..Len(frames)
      BY <1>1
    <3>2. wasm_call_stack[Len(wasm_call_stack)] = frames[Len(frames)].instance
      BY <1>1, <2>1, <3>1, StackShape
    <3> QED
      BY <1>5, <1>8, <3>1, <3>2
  <2>6. Len(frames) + 1 - 1 = Len(frames)
    BY <1>1
  <2> QED
    BY <1>4, <1>8, <1>10, <2>2, <2>4, <2>5, <2>6
<1>14. AccessInside'
  BY <1>9 DEF AccessInside
<1> QED
  BY <1>1, <1>8, <1>9, <1>11, <1>12, <1>13, <1>14, StackShape, CallKeeps DEF CallInv

\* Calls of guest code by the host.
LEMMA HostEnters ==
  ASSUME JsInv, HostCalls \/ HostCallsCaller \/ HostCallsLinked
  PROVE  JsInv'
<1>1. CASE HostCalls
  <2>1. PICK handle \in DOMAIN functions : Enter(handle)
    BY <1>1 DEF HostCalls
  <2> QED
    BY <1>1, <2>1, EnterStep DEF HostCalls
<1>2. CASE HostCallsCaller
  <2> DEFINE i == Last(frames).instance
  <2>1. HostOnTop /\ i \in DOMAIN instances
    BY <1>2, TopFrame DEF HostCallsCaller, HostOnTop
  <2>2. PICK name \in DOMAIN instances[i].exports :
            instances[i].exports[name].kind = "func" /\ Enter(instances[i].exports[name].handle)
    BY <1>2 DEF HostCallsCaller
  <2>3. instances[i].exports[name].handle \in DOMAIN functions
    BY <2>1, <2>2 DEF JsInv, StoreInv, InstancesLead
  <2> QED
    BY <2>1, <2>2, <2>3, EnterStep
<1>3. CASE HostCallsLinked
  <2>1. PICK handle \in DOMAIN functions : Enter(handle)
    BY <1>3 DEF HostCallsLinked
  <2> QED
    BY <1>3, <2>1, EnterStep DEF HostCallsLinked
<1> QED
  BY <1>1, <1>2, <1>3

\* A checked access to the memory of the caller.
LEMMA HostAccessesStep ==
  ASSUME JsInv, NEW offset \in Nat, NEW size \in Nat, HostAccesses(offset, size)
  PROVE  JsInv'
<1> DEFINE i == Last(frames).instance
<1>1. HostOnTop /\ frames # <<>>
  BY DEF HostAccesses, HostOnTop
<1>2. /\ Len(frames) \in Nat \ {0} /\ Len(frames) % 2 = 0 /\ loading = Absent
      /\ i \in DOMAIN instances /\ Last(frames) = frames[Len(frames)]
  BY <1>1, TopFrame
<1>3. /\ access' = [instance |-> i, guest |-> frames[Len(frames) - 1].instance, end |-> offset + size]
      /\ offset + size < instances[i].binary.size
      /\ UNCHANGED <<storeVars, wasm_call_stack, loading, frames, attempts, panics>>
  BY DEF HostAccesses, CheckBounds
<1>4. instances[i].binary.size \in Nat
  <2>1. instances[i] \in StoredInstance
    BY <1>2, Element DEF JsInv, Shape
  <2> QED
    BY <2>1, BinariesAssumption DEF StoredInstance, BinaryType
<1>5. panics = 0 => i = frames[Len(frames) - 1].instance
  <2>1. Len(frames) \in DOMAIN frames /\ Len(frames) % 2 # 1
    BY <1>2, StackShape
  <2>2. panics = 0 => frames[Len(frames)].instance = frames[Len(frames) - 1].instance
    BY <2>1 DEF JsInv, CallInv, CallerIsExecuting
  <2> QED
    BY <1>2, <2>2
<1>6. AccessInside'
  BY <1>3, <1>4, <1>5 DEF AccessInside, storeVars
<1>7. CallInv'
  BY <1>3 DEF storeVars, JsInv, CallInv, StackLeads, FramesLead, StackDeep, CallerIsExecuting
<1> QED
  BY <1>2, <1>3, <1>6, <1>7, StackShape, CallKeeps

------------------------------------------------------------------------------
(* Steps of loading, while no code executes.                               *)

LEMMA StoreKeeps ==
  ASSUME JsInv, frames = <<>>, UNCHANGED <<wasm_call_stack, frames, panics>>, access' = Absent,
         attempts' \in 0..MaxAttempts, Shape', StoreInv', LoadingLeads',
         DOMAIN instances \subseteq DOMAIN instances'
  PROVE  JsInv'
<1>1. StackLeads' /\ StackDeep' /\ CallerIsExecuting' /\ Counted' /\ AccessInside'
  BY DEF JsInv, CallInv, StackLeads, StackDeep, CallerIsExecuting, Counted, AccessInside
<1>2. FramesLead'
  BY DEF JsInv, CallInv, FramesLead
<1> QED
  BY <1>1, <1>2 DEF JsInv, CallInv

\* Ranks count the members of a finite set of naturals.
LEMMA RankFacts ==
  ASSUME NEW S \in SUBSET Nat, IsFiniteSet(S)
  PROVE  /\ Cardinality(S) \in Nat
         /\ \A i \in S : /\ Rank(S, i) \in 1..Cardinality(S)
                         /\ Kth(S, Rank(S, i)) = i
                         /\ Cardinality({m \in S : m < i}) = Rank(S, i) - 1
         /\ \A k \in 1..Cardinality(S) : Kth(S, k) \in S /\ Rank(S, Kth(S, k)) = k
<1>1. Cardinality(S) \in Nat
  BY FS_CardinalityType
<1> DEFINE upTo(i) == {j \in S : j <= i}
<1>2. ASSUME NEW i \in S
      PROVE  /\ IsFiniteSet(upTo(i)) /\ Cardinality(upTo(i)) \in Nat
             /\ Cardinality(upTo(i)) <= Cardinality(S)
             /\ Cardinality(upTo(i)) # 0
             /\ i \in upTo(i)
  <2>1. upTo(i) \subseteq S /\ i \in upTo(i)
    OBVIOUS
  <2> HIDE DEF upTo
  <2>2. IsFiniteSet(upTo(i)) /\ Cardinality(upTo(i)) <= Cardinality(S)
    BY <2>1, FS_Subset
  <2>3. Cardinality(upTo(i)) \in Nat
    BY <2>2, FS_CardinalityType
  <2> QED
    BY <2>1, <2>2, <2>3, FS_EmptySet
<1>3. \A i \in S : Rank(S, i) = Cardinality(upTo(i)) /\ Rank(S, i) \in 1..Cardinality(S)
  <2>1. \A i \in S : Rank(S, i) = Cardinality(upTo(i))
    BY DEF Rank
  <2> HIDE DEF upTo
  <2> QED
    BY <1>1, <1>2, <2>1
<1>4. ASSUME NEW i \in S, NEW j \in S, i < j PROVE Rank(S, i) # Rank(S, j)
  <2>1. upTo(i) \subseteq upTo(j) /\ j \notin upTo(i) /\ j \in upTo(j)
    <3>1. \A m \in S : m \in Nat
      OBVIOUS
    <3>2. i \in Nat /\ j \in Nat /\ ~(j <= i)
      BY <1>4, <3>1
    <3>3. (\A m \in S : m <= i => m <= j) /\ j <= j
      BY <1>4, <3>1, <3>2
    <3> QED
      BY <3>2, <3>3
  <2> HIDE DEF upTo
  <2>2. Cardinality(upTo(i)) # Cardinality(upTo(j))
    BY <1>2, <2>1, FS_Subset
  <2> QED
    BY <1>3, <2>2
<1>5. \A i, j \in S : Rank(S, i) = Rank(S, j) => i = j
  <2> SUFFICES ASSUME NEW i \in S, NEW j \in S, Rank(S, i) = Rank(S, j), i # j
               PROVE  FALSE
    OBVIOUS
  <2>1. i < j \/ j < i
    OBVIOUS
  <2> QED
    BY <1>4, <2>1
<1>6. \A i \in S : Kth(S, Rank(S, i)) = i
  BY <1>5 DEF Kth
<1>7. ASSUME NEW i \in S PROVE Cardinality({m \in S : m < i}) = Rank(S, i) - 1
  <2> DEFINE below == {m \in S : m < i}
  <2>1. upTo(i) \ {i} = below
    <3>1. \A m \in S : m \in Nat
      OBVIOUS
    <3>2. \A m \in S : m < i <=> m <= i /\ m # i
      BY <3>1
    <3> QED
      BY <3>2
  <2>2. Cardinality(upTo(i) \ {i}) = Cardinality(upTo(i)) - 1
    <3> HIDE DEF upTo
    <3> QED
      BY <1>2, FS_RemoveElement
  <2> QED
    BY <1>3, <2>1, <2>2
<1> HIDE DEF upTo
<1>8. ASSUME NEW k \in 1..Cardinality(S) PROVE \E i \in S : Rank(S, i) = k
  <2> DEFINE T == 1..Cardinality(S)
             f == [i \in S |-> Rank(S, i)]
  <2>1. IsFiniteSet(T) /\ Cardinality(T) = Cardinality(S)
    BY <1>1, FS_Interval
  <2>2. f \in Injection(S, T)
    BY <1>3, <1>5 DEF Injection, IsInjective
  <2> HIDE DEF T, f
  <2>3. f \in Surjection(S, T)
    BY <2>1, <2>2, FS_Injection
  <2>4. PICK i \in S : f[i] = k
    BY <2>3 DEF Surjection, T
  <2> QED
    BY <2>4 DEF f
<1>9. \A k \in 1..Cardinality(S) : Kth(S, k) \in S /\ Rank(S, Kth(S, k)) = k
  BY <1>8 DEF Kth
<1> QED
  BY <1>1, <1>3, <1>6, <1>7, <1>9

LEMMA BinaryParts ==
  ASSUME NEW b \in Binaries
  PROVE  /\ FunctionImports(b) \in SUBSET Nat /\ IsFiniteSet(FunctionImports(b))
         /\ IsFiniteSet(HostImports(b)) /\ Cardinality(HostImports(b)) \in Nat
         /\ FunctionExports(b) \in SUBSET Nat /\ IsFiniteSet(FunctionExports(b))
         /\ Cardinality(FunctionExports(b)) \in Nat
         /\ \A i \in FunctionExports(b) :
              Rank(FunctionExports(b), i) \in 1..Cardinality(FunctionExports(b))
<1>1. b \in BinaryType
  BY BinariesAssumption
<1>2. /\ b.imports \in Seq([name : STRING, kind : STRING, type : Nat])
      /\ b.exports \in Seq([name : STRING, kind : STRING, index : Nat])
  BY <1>1 DEF BinaryType
<1>3. /\ DOMAIN b.imports = 1..Len(b.imports) /\ Len(b.imports) \in Nat
      /\ DOMAIN b.exports = 1..Len(b.exports) /\ Len(b.exports) \in Nat
  BY <1>2
<1>4. IsFiniteSet(1..Len(b.imports)) /\ IsFiniteSet(1..Len(b.exports))
  <2>1. 1 \in Int /\ Len(b.imports) \in Int /\ Len(b.exports) \in Int
    BY <1>3
  <2> QED
    BY <2>1, FS_Interval
<1>5. FunctionImports(b) \in SUBSET Nat /\ IsFiniteSet(FunctionImports(b))
  <2>1. FunctionImports(b) \subseteq 1..Len(b.imports)
    BY <1>3 DEF FunctionImports
  <2> QED
    BY <1>3, <1>4, <2>1, FS_Subset
<1>6. IsFiniteSet(HostImports(b)) /\ Cardinality(HostImports(b)) \in Nat
  <2> DEFINE places == FunctionImports(b)
             Named(j) == b.imports[j].name
  <2>1. HostImports(b) = {Named(j) : j \in places}
    BY DEF HostImports
  <2>2. IsFiniteSet({Named(j) : j \in places})
    <3> HIDE DEF Named
    <3> DEFINE f == [j \in places |-> Named(j)]
    <3>1. f \in Surjection(places, {Named(j) : j \in places})
      BY DEF Surjection
    <3> HIDE DEF f
    <3> QED
      BY <1>5, <3>1, FS_Surjection
  <2> QED
    BY <2>1, <2>2, FS_CardinalityType
<1>7. FunctionExports(b) \in SUBSET Nat /\ IsFiniteSet(FunctionExports(b))
  <2>1. FunctionExports(b) \subseteq 1..Len(b.exports)
    BY <1>3 DEF FunctionExports
  <2> QED
    BY <1>3, <1>4, <2>1, FS_Subset
<1> QED
  BY <1>5, <1>6, <1>7, RankFacts

LEMMA NewModuleStep ==
  ASSUME JsInv, NEW b \in Binaries, NewModule(b) \/ ModuleRefused(b)
  PROVE  JsInv'
<1>1. frames = <<>> /\ attempts' \in 0..MaxAttempts
  BY BoundsAssumption DEF NewModule, ModuleRefused, AtRest, JsInv, Counted
<1>2. UNCHANGED <<storeVars, wasm_call_stack, frames, panics>> /\ access' = Absent
  BY DEF NewModule, ModuleRefused
<1>3. loading' = loading \/ loading' = [binary |-> b, wasi |-> Absent, imports |-> {}]
  BY DEF NewModule, ModuleRefused
<1>4. Shape' /\ StoreInv'
  BY <1>2, <1>3 DEF JsInv, Shape, Attempt, storeVars, StoreInv, ContextsLead, InstancesLead,
     FunctionsLead
<1>5. LoadingLeads'
  BY <1>1, <1>2, <1>3 DEF JsInv, LoadingLeads, storeVars
<1> QED
  BY <1>1, <1>2, <1>4, <1>5, StoreKeeps DEF storeVars

\* Functions are added to the store: what was there stays where it is.
LEMMA RegisterImportsStep ==
  ASSUME JsInv, RegisterImports
  PROVE  JsInv'
<1>1. /\ loading # Absent /\ frames = <<>> /\ loading \in Attempt
      /\ loading.wasi \in {Absent} \cup DOMAIN wasi_contexts
  BY DEF RegisterImports, JsInv, Shape, LoadingLeads
<1> DEFINE n == Cardinality(HostImports(loading.binary))
           new == [i \in 1..n |-> HostFunction]
<1>2. n \in Nat
  BY <1>1, BinaryParts DEF Attempt
<1>3. HostFunction \in StoredFunction /\ new \in [1..n -> StoredFunction]
  BY DEF HostFunction, StoredFunction
<1>4. /\ functions' = functions \o new
      /\ loading' = [loading EXCEPT !.imports = Len(functions) + 1 .. Len(functions')]
      /\ UNCHANGED <<wasi_contexts, instances, wasm_call_stack, frames, attempts, panics>>
      /\ access' = Absent
  BY DEF RegisterImports
<1>5. /\ functions' \in Seq(StoredFunction)
      /\ Len(functions') = Len(functions) + n /\ Len(functions) \in Nat
      /\ DOMAIN functions' = 1..(Len(functions) + n) /\ DOMAIN functions = 1..Len(functions)
      /\ \A i \in 1..Len(functions) : functions'[i] = functions[i]
      /\ \A i \in (Len(functions) + 1)..(Len(functions) + n) : functions'[i] = HostFunction
  <2>1. functions \in Seq(StoredFunction)
    BY DEF JsInv, Shape
  <2>2. /\ functions' \in Seq(StoredFunction)
        /\ Len(functions') = Len(functions) + n /\ Len(functions) \in Nat
        /\ DOMAIN functions' = 1..(Len(functions) + n) /\ DOMAIN functions = 1..Len(functions)
        /\ \A i \in 1..Len(functions) : functions'[i] = functions[i]
        /\ \A i \in (Len(functions) + 1)..(Len(functions) + n) :
                i - Len(functions) \in 1..n /\ functions'[i] = new[i - Len(functions)]
    <3> HIDE DEF n, new
    <3> QED
      BY <1>2, <1>3, <1>4, <2>1, Joined
  <2> QED
    BY <2>2
<1> HIDE DEF n, new
<1>6. /\ loading' \in Attempt /\ loading'.wasi = loading.wasi
      /\ loading'.imports = Len(functions) + 1 .. Len(functions')
      /\ loading'.imports \subseteq DOMAIN functions'
  <2>1. Len(functions) + 1 .. Len(functions') \subseteq Nat
    BY <1>2, <1>5
  <2>2. Len(functions) + 1 .. Len(functions') \subseteq DOMAIN functions'
    BY <1>2, <1>5
  <2> QED
    BY <1>1, <1>4, <2>1, <2>2 DEF Attempt
<1>7. Shape'
  BY <1>4, <1>5, <1>6 DEF JsInv, Shape
<1>8. LoadingLeads'
  BY <1>1, <1>4, <1>6 DEF LoadingLeads
<1>9. StoreInv'
  <2>1. DOMAIN functions \subseteq DOMAIN functions'
    BY <1>2, <1>5
  <2>2. ContextsLead' /\ InstancesLead'
    BY <1>4, <2>1 DEF JsInv, StoreInv, ContextsLead, InstancesLead
  <2>3. \A i \in DOMAIN functions' : i \in DOMAIN functions \/ functions'[i] = HostFunction
    BY <1>2, <1>5
  <2>4. FunctionsLead'
    BY <1>4, <1>5, <2>3 DEF JsInv, StoreInv, FunctionsLead, HostFunction
  <2> QED
    BY <2>2, <2>4 DEF StoreInv
<1> QED
  BY <1>1, <1>4, <1>7, <1>8, <1>9, StoreKeeps DEF JsInv, Counted

LEMMA DuplicateImportStep ==
  ASSUME JsInv, DuplicateImport
  PROVE  JsInv'
<1>1. frames = <<>> /\ functions \in Seq(StoredFunction) /\ HostFunction \in StoredFunction
  BY DEF DuplicateImport, JsInv, Shape, LoadingLeads, HostFunction, StoredFunction
<1>2. /\ functions' = Append(functions, HostFunction) /\ loading' = Absent /\ access' = Absent
      /\ UNCHANGED <<wasi_contexts, instances, wasm_call_stack, frames, attempts, panics>>
  BY DEF DuplicateImport
<1>3. /\ functions' \in Seq(StoredFunction) /\ Len(functions) \in Nat
      /\ DOMAIN functions' = 1..(Len(functions) + 1) /\ DOMAIN functions = 1..Len(functions)
      /\ \A i \in 1..Len(functions) : functions'[i] = functions[i]
      /\ functions'[Len(functions) + 1] = HostFunction
  <2>1. Len(functions) \in Nat /\ DOMAIN functions = 1..Len(functions)
    BY <1>1
  <2> QED
    BY <1>1, <1>2, <2>1, Appended
<1>4. Shape' /\ LoadingLeads'
  BY <1>2, <1>3 DEF JsInv, Shape, LoadingLeads
<1>5. StoreInv'
  <2>1. \A i \in DOMAIN functions' : i \in DOMAIN functions \/ functions'[i] = HostFunction
    BY <1>3, Indices
  <2>2. ContextsLead' /\ InstancesLead'
    BY <1>2, <1>3 DEF JsInv, StoreInv, ContextsLead, InstancesLead
  <2>3. FunctionsLead'
    BY <1>2, <1>3, <2>1 DEF JsInv, StoreInv, FunctionsLead, HostFunction
  <2> QED
    BY <2>2, <2>3 DEF StoreInv
<1> QED
  BY <1>1, <1>2, <1>4, <1>5, StoreKeeps DEF JsInv, Counted

LEMMA AddWasiStep ==
  ASSUME JsInv, AddWasi
  PROVE  JsInv'
<1>1. /\ frames = <<>> /\ loading \in Attempt /\ loading # Absent
      /\ loading.imports \subseteq DOMAIN functions
      /\ wasi_contexts \in Seq(Nat \cup {Absent})
  BY DEF AddWasi, JsInv, Shape, LoadingLeads
<1>2. /\ wasi_contexts' = Append(wasi_contexts, Absent) /\ access' = Absent
      /\ loading' = [loading EXCEPT !.wasi = Len(wasi_contexts')]
      /\ UNCHANGED <<instances, functions, wasm_call_stack, frames, attempts, panics>>
  BY DEF AddWasi
<1>3. /\ wasi_contexts' \in Seq(Nat \cup {Absent}) /\ Len(wasi_contexts) \in Nat
      /\ DOMAIN wasi_contexts' = 1..(Len(wasi_contexts) + 1)
      /\ DOMAIN wasi_contexts = 1..Len(wasi_contexts)
      /\ Len(wasi_contexts') = Len(wasi_contexts) + 1
      /\ \A i \in 1..Len(wasi_contexts) : wasi_contexts'[i] = wasi_contexts[i]
      /\ wasi_contexts'[Len(wasi_contexts) + 1] = Absent
  <2>1. Len(wasi_contexts) \in Nat /\ DOMAIN wasi_contexts = 1..Len(wasi_contexts)
    BY <1>1
  <2>2. Absent \in Nat \cup {Absent}
    OBVIOUS
  <2> QED
    BY <1>1, <1>2, <2>1, <2>2, Appended
<1>4. /\ loading' \in Attempt /\ loading'.imports = loading.imports
      /\ loading'.wasi \in DOMAIN wasi_contexts'
  BY <1>1, <1>2, <1>3 DEF Attempt
<1>5. Shape' /\ LoadingLeads'
  BY <1>1, <1>2, <1>3, <1>4 DEF JsInv, Shape, LoadingLeads
<1>6. StoreInv'
  <2>1. \A i \in DOMAIN wasi_contexts' : i \in DOMAIN wasi_contexts \/ wasi_contexts'[i] = Absent
    BY <1>3, Indices
  <2>2. ContextsLead'
    BY <1>2, <1>3, <2>1 DEF JsInv, StoreInv, ContextsLead
  <2>3. InstancesLead' /\ FunctionsLead'
    BY <1>2, <1>3 DEF JsInv, StoreInv, InstancesLead, FunctionsLead
  <2> QED
    BY <2>2, <2>3 DEF StoreInv
<1> QED
  BY <1>1, <1>2, <1>5, <1>6, StoreKeeps DEF JsInv, Counted

LEMMA InstantiationFailsStep ==
  ASSUME JsInv, InstantiationFails
  PROVE  JsInv'
<1>1. frames = <<>>
  BY DEF InstantiationFails, JsInv, LoadingLeads
<1>2. /\ UNCHANGED <<storeVars, wasm_call_stack, frames, attempts, panics>>
      /\ loading' = Absent /\ access' = Absent
  BY DEF InstantiationFails
<1>3. Shape' /\ LoadingLeads' /\ StoreInv'
  BY <1>2 DEF JsInv, Shape, LoadingLeads, StoreInv, ContextsLead, InstancesLead, FunctionsLead,
     storeVars
<1> QED
  BY <1>1, <1>2, <1>3, StoreKeeps DEF JsInv, Counted, storeVars

\* The exports of a new instance have handles of functions that are stored
\* with it.
LEMMA ExportsOfInstance ==
  ASSUME JsInv, NEW b \in Binaries
  PROVE  /\ ExportMap(b) \in Exports
         /\ \A name \in DOMAIN ExportMap(b) : ExportMap(b)[name].kind = "func" =>
              ExportMap(b)[name].handle \in
                (Len(functions) + 1)..(Len(functions) + Cardinality(FunctionExports(b)))
<1> DEFINE names == {b.exports[i].name : i \in DOMAIN b.exports}
           Place(name) == CHOOSE i \in DOMAIN b.exports : b.exports[i].name = name
           Export(i) == [kind   |-> b.exports[i].kind,
                         handle |-> IF i \in FunctionExports(b)
                                    THEN Len(functions) + Rank(FunctionExports(b), i)
                                    ELSE Absent]
<1>1. ExportMap(b) = [name \in names |-> Export(Place(name))]
  BY DEF ExportMap
<1>2. \A name \in names : Place(name) \in DOMAIN b.exports
  OBVIOUS
<1>3. \A i \in DOMAIN b.exports : b.exports[i].kind \in STRING /\ b.exports[i].name \in STRING
  <2>1. b.exports \in Seq([name : STRING, kind : STRING, index : Nat])
    BY BinariesAssumption DEF BinaryType
  <2>2. ASSUME NEW i \in DOMAIN b.exports
        PROVE  b.exports[i] \in [name : STRING, kind : STRING, index : Nat]
    <3> HIDE DEF Export, Place, names
    <3> QED
      BY <2>1, Element
  <2> HIDE DEF Export, Place, names
  <2> QED
    BY <2>2
<1>4. Len(functions) \in Nat
  BY DEF JsInv, Shape
<1>5. \A i \in DOMAIN b.exports :
        /\ Export(i) \in [kind : STRING, handle : Nat \cup {Absent}]
        /\ Export(i).kind = "func" =>
             Export(i).handle \in (Len(functions) + 1)..(Len(functions) + Cardinality(FunctionExports(b)))
  <2> SUFFICES ASSUME NEW i \in DOMAIN b.exports
               PROVE  /\ Export(i) \in [kind : STRING, handle : Nat \cup {Absent}]
                      /\ Export(i).kind = "func" => Export(i).handle \in
                            (Len(functions) + 1)..(Len(functions) + Cardinality(FunctionExports(b)))
    <3> HIDE DEF Export
    <3> QED
      OBVIOUS
  <2>1. CASE i \in FunctionExports(b)
    <3>1. /\ Rank(FunctionExports(b), i) \in 1..Cardinality(FunctionExports(b))
          /\ Cardinality(FunctionExports(b)) \in Nat
      BY <2>1, BinaryParts
    <3>2. /\ Len(functions) + Rank(FunctionExports(b), i) \in Nat
          /\ Len(functions) + Rank(FunctionExports(b), i) \in
                (Len(functions) + 1)..(Len(functions) + Cardinality(FunctionExports(b)))
      BY <1>4, <3>1
    <3> QED
      BY <1>3, <2>1, <3>2
  <2>2. CASE i \notin FunctionExports(b)
    BY <1>3, <2>2 DEF FunctionExports
  <2> QED
    BY <2>1, <2>2
<1> HIDE DEF Export, Place
<1>6. names \in SUBSET STRING
  BY <1>3
<1> HIDE DEF names
<1>7. ExportMap(b) \in [names -> [kind : STRING, handle : Nat \cup {Absent}]]
  BY <1>1, <1>2, <1>5
<1> QED
  BY <1>1, <1>2, <1>5, <1>6, <1>7 DEF Exports

LEMMA InstantiateStep ==
  ASSUME JsInv, Instantiate
  PROVE  JsInv'
<1> DEFINE b == loading.binary
           n == Cardinality(FunctionExports(b))
           id == Len(instances) + 1
           instance == [binary |-> b, exports |-> ExportMap(b), imports |-> loading.imports,
                        wasi |-> loading.wasi]
           new == BoundTo(id, b)
<1>1. /\ frames = <<>> /\ loading \in Attempt /\ b \in Binaries
      /\ loading.wasi \in DOMAIN wasi_contexts
      /\ loading.imports \in SUBSET Nat /\ loading.imports \subseteq DOMAIN functions
  BY DEF Instantiate, JsInv, Shape, LoadingLeads, Attempt
<1>2. /\ functions' = functions \o new
      /\ instances' = Append(instances, instance)
      /\ wasi_contexts' = [wasi_contexts EXCEPT ![loading.wasi] = Len(instances')]
      /\ loading' = Absent /\ access' = Absent
      /\ UNCHANGED <<wasm_call_stack, frames, attempts, panics>>
  BY DEF Instantiate, JsInstanceNew
<1>3. /\ wasi_contexts \in Seq(Nat \cup {Absent}) /\ DOMAIN wasi_contexts = 1..Len(wasi_contexts)
      /\ Len(wasi_contexts) \in Nat
      /\ instances \in Seq(StoredInstance) /\ Len(instances) \in Nat
      /\ DOMAIN instances = 1..Len(instances)
      /\ functions \in Seq(StoredFunction) /\ Len(functions) \in Nat
      /\ n \in Nat /\ id \in Nat
  BY <1>1, BinaryParts DEF JsInv, Shape
<1>4. new \in [1..n -> StoredFunction] /\ \A k \in 1..n : new[k].what = "guest" /\ new[k].instance = id
  <2>1. \A k \in 1..n : KthSignature(b, k) \in Signatures
    BY <1>1, <1>3 DEF Signatures
  <2> HIDE DEF id, b
  <2> QED
    BY <1>3, <2>1 DEF BoundTo, StoredFunction
<1>5. /\ functions' \in Seq(StoredFunction)
      /\ DOMAIN functions' = 1..(Len(functions) + n) /\ DOMAIN functions = 1..Len(functions)
      /\ \A i \in 1..Len(functions) : functions'[i] = functions[i]
      /\ \A i \in (Len(functions) + 1)..(Len(functions) + n) :
              i - Len(functions) \in 1..n /\ functions'[i] = new[i - Len(functions)]
  <2>1. /\ functions' = functions \o new /\ functions \in Seq(StoredFunction)
        /\ n \in Nat /\ new \in [1..n -> StoredFunction]
    BY <1>2, <1>3, <1>4
  <2> HIDE DEF n, new, id, b, instance
  <2>2. /\ functions \o new \in Seq(StoredFunction)
        /\ DOMAIN (functions \o new) = 1..(Len(functions) + n)
        /\ DOMAIN functions = 1..Len(functions)
        /\ \A i \in 1..Len(functions) : (functions \o new)[i] = functions[i]
        /\ \A i \in (Len(functions) + 1)..(Len(functions) + n) :
              i - Len(functions) \in 1..n /\ (functions \o new)[i] = new[i - Len(functions)]
    BY <2>1, Joined
  <2> QED
    BY <2>1, <2>2
<1>6. /\ ExportMap(b) \in Exports
      /\ \A name \in DOMAIN ExportMap(b) : ExportMap(b)[name].kind = "func" =>
            ExportMap(b)[name].handle \in (Len(functions) + 1)..(Len(functions) + n)
  BY <1>1, ExportsOfInstance
<1>7. instance \in StoredInstance
  <2>1. loading.wasi \in Nat
    BY <1>1, <1>3
  <2> QED
    BY <1>1, <1>6, <2>1 DEF StoredInstance
<1>8. /\ instances' \in Seq(StoredInstance)
      /\ Len(instances') = id
      /\ DOMAIN instances' = 1..id
      /\ \A i \in 1..Len(instances) : instances'[i] = instances[i]
      /\ instances'[id] = instance
  <2> HIDE DEF instance
  <2> QED
    BY <1>2, <1>3, <1>7, Appended
<1>9. /\ wasi_contexts' \in Seq(Nat \cup {Absent})
      /\ DOMAIN wasi_contexts' = DOMAIN wasi_contexts
      /\ \A i \in DOMAIN wasi_contexts : wasi_contexts'[i] = wasi_contexts[i] \/ wasi_contexts'[i] = id
  <2> HIDE DEF id
  <2> QED
    BY <1>1, <1>2, <1>3, <1>8
<1>10. Shape' /\ LoadingLeads'
  BY <1>2, <1>5, <1>8, <1>9 DEF JsInv, Shape, LoadingLeads
<1>11. /\ DOMAIN functions \subseteq DOMAIN functions'
       /\ DOMAIN instances \subseteq DOMAIN instances' /\ id \in DOMAIN instances'
       /\ (Len(functions) + 1)..(Len(functions) + n) \subseteq DOMAIN functions'
       /\ \A i \in DOMAIN instances' : i \in DOMAIN instances \/ i = id
       /\ \A i \in DOMAIN functions' : i \in DOMAIN functions
                \/ i \in (Len(functions) + 1)..(Len(functions) + n)
  <2> HIDE DEF n
  <2> QED
    BY <1>3, <1>5, <1>8
<1>12. ContextsLead'
  BY <1>9, <1>11 DEF JsInv, StoreInv, ContextsLead
<1>13. InstancesLead'
  <2>1. ASSUME NEW i \in DOMAIN instances
        PROVE  /\ instances'[i].wasi \in DOMAIN wasi_contexts'
               /\ instances'[i].imports \subseteq DOMAIN functions'
               /\ \A name \in DOMAIN instances'[i].exports :
                    instances'[i].exports[name].kind = "func" =>
                        instances'[i].exports[name].handle \in DOMAIN functions'
    <3>1. instances'[i] = instances[i]
      BY <1>3, <1>8
    <3> QED
      BY <1>9, <1>11, <3>1 DEF JsInv, StoreInv, InstancesLead
  <2>2. /\ instances'[id].wasi \in DOMAIN wasi_contexts'
        /\ instances'[id].imports \subseteq DOMAIN functions'
        /\ \A name \in DOMAIN instances'[id].exports :
             instances'[id].exports[name].kind = "func" =>
                 instances'[id].exports[name].handle \in DOMAIN functions'
    <3>1. /\ instances'[id].wasi = loading.wasi /\ instances'[id].imports = loading.imports
          /\ instances'[id].exports = ExportMap(b)
      BY <1>8
    <3> HIDE DEF id, n, b, instance, new
    <3> QED
      BY <1>1, <1>6, <1>9, <1>11, <3>1
  <2> HIDE DEF id
  <2> QED
    BY <1>11, <2>1, <2>2 DEF InstancesLead
<1>14. FunctionsLead'
  <2>1. ASSUME NEW f \in DOMAIN functions
        PROVE  IF functions'[f].what = "guest"
               THEN functions'[f].instance \in DOMAIN instances'
               ELSE functions'[f].what = "host" /\ functions'[f].instance = Absent
    <3>1. functions'[f] = functions[f]
      BY <1>5
    <3> QED
      BY <1>11, <3>1 DEF JsInv, StoreInv, FunctionsLead
  <2>2. ASSUME NEW f \in (Len(functions) + 1)..(Len(functions) + n)
        PROVE  functions'[f].what = "guest" /\ functions'[f].instance \in DOMAIN instances'
    <3> HIDE DEF id, n, new
    <3> QED
      BY <1>4, <1>5, <1>11, <2>2
  <2> QED
    BY <1>11, <2>1, <2>2 DEF FunctionsLead
<1> QED
  BY <1>1, <1>2, <1>10, <1>11, <1>12, <1>13, <1>14, StoreKeeps DEF JsInv, Counted, StoreInv

------------------------------------------------------------------------------
(* Exports: what an instance was made of stays what it is bound to.        *)

\* The functions that an instance exports are its own, with the signatures
\* that its binary, which could be read, gives them.
HandleOf(instance, j) == instance.exports[instance.binary.exports[j].name].handle
SignatureOf(instance, j) == ExportSignature(instance.binary, instance.binary.exports[j].index)
IsExport(f, i, signature) == f.what = "guest" /\ f.instance = i /\ f.results = signature

SignaturesRead ==
    \A i \in DOMAIN instances :
        /\ Readable(instances[i].binary)
        /\ \A j \in FunctionExports(instances[i].binary) :
            /\ HandleOf(instances[i], j) \in DOMAIN functions
            /\ IsExport(functions[HandleOf(instances[i], j)], i, SignatureOf(instances[i], j))

ContextsBound ==
    \A i \in DOMAIN instances : wasi_contexts[instances[i].wasi] = i

ImportsApart ==
    \A i, k \in DOMAIN instances :
        i # k => instances[i].imports \cap instances[k].imports = {}

\* What is being loaded shares nothing with the instances there are.
LoadingNew ==
    loading # Absent =>
        /\ Readable(loading.binary)
        /\ \A i \in DOMAIN instances :
            /\ loading.wasi # Absent => instances[i].wasi # loading.wasi
            /\ instances[i].imports \cap loading.imports = {}

BoundInv == SignaturesRead /\ ContextsBound /\ ImportsApart /\ LoadingNew

\* The index space of functions: the imported ones in their order, then
\* the others.
LEMMA FunctionTypesAre ==
  ASSUME NEW b \in Binaries
  PROVE  LET n == Cardinality(FunctionImports(b))
             m == Len(b.functions)
         IN  /\ n \in Nat /\ m \in Nat
             /\ Len(FunctionTypes(b)) = n + m
             /\ \A k \in 1..n :
                  FunctionTypes(b)[k] = b.imports[Kth(FunctionImports(b), k)].type
             /\ \A k \in 1..m : FunctionTypes(b)[n + k] = b.functions[k]
<1> DEFINE n == Cardinality(FunctionImports(b))
           m == Len(b.functions)
           first == [k \in 1..n |-> TypeOf(b.imports[Kth(FunctionImports(b), k)])]
<1>1. b.functions \in Seq(Nat) /\ b.imports \in Seq([name : STRING, kind : STRING, type : Nat])
  BY BinariesAssumption DEF BinaryType
<1>2. n \in Nat /\ \A k \in 1..n : Kth(FunctionImports(b), k) \in FunctionImports(b)
  BY BinaryParts, RankFacts
<1>3. \A j \in FunctionImports(b) : TypeOf(b.imports[j]) \in Nat
  <2>1. ASSUME NEW j \in DOMAIN b.imports
        PROVE  b.imports[j] \in [name : STRING, kind : STRING, type : Nat]
    BY <1>1, Element
  <2> QED
    BY <2>1 DEF FunctionImports, TypeOf
<1> HIDE DEF n
<1>4. first \in [1..n -> Nat]
  BY <1>2, <1>3
<1>5. m \in Nat /\ b.functions \in [1..m -> Nat]
  BY <1>1
<1>6. first \in Seq(Nat) /\ Len(first) = n
  BY <1>2, <1>4
<1>7. /\ Len(first \o b.functions) = n + m
      /\ \A k \in 1..n : (first \o b.functions)[k] = first[k]
      /\ \A k \in 1..m : (first \o b.functions)[n + k] = b.functions[k]
  <2> DEFINE others == b.functions
             T == Nat
  <2>1. others \in [1..m -> T] /\ first \in Seq(T) /\ m \in Nat
    BY <1>5, <1>6
  <2> HIDE DEF first, m, others, T
  <2>2. /\ Len(first \o others) = Len(first) + m
        /\ \A k \in 1..Len(first) : (first \o others)[k] = first[k]
        /\ \A k \in 1..m : (first \o others)[Len(first) + k] = others[k]
    BY <2>1, Joined
  <2> QED
    BY <1>6, <2>2 DEF others
<1>8. FunctionTypes(b) = first \o b.functions
  BY DEF FunctionTypes, n
<1> QED
  BY <1>2, <1>5, <1>7, <1>8 DEF n, TypeOf

\* The signature of an export, found by counting.
LEMMA SignatureIs ==
  ASSUME NEW b \in Binaries, Readable(b), NEW j \in FunctionExports(b)
  PROVE  LET index == b.exports[j].index
             imported == FunctionImports(b)
             n == Cardinality(imported)
         IN  \/ \E k \in imported :
                  /\ Cardinality({m \in imported : m < k}) = index
                  /\ ExportSignature(b, index) = b.types[b.imports[k].type + 1]
             \/ /\ index >= n
                /\ ExportSignature(b, index) = b.types[b.functions[index - n + 1] + 1]
<1> DEFINE index == b.exports[j].index
           imported == FunctionImports(b)
           n == Cardinality(imported)
           m == Len(b.functions)
           types == FunctionTypes(b)
<1>1. index \in Nat
  <2>1. b.exports \in Seq([name : STRING, kind : STRING, index : Nat]) /\ j \in DOMAIN b.exports
    BY BinariesAssumption DEF BinaryType, FunctionExports
  <2>2. b.exports[j] \in [name : STRING, kind : STRING, index : Nat]
    BY <2>1, Element
  <2> QED
    BY <2>2
<1>2. /\ n \in Nat /\ m \in Nat /\ Len(types) = n + m
      /\ \A k \in 1..n : types[k] = b.imports[Kth(imported, k)].type
      /\ \A k \in 1..m : types[n + k] = b.functions[k]
  BY FunctionTypesAre
<1>3. ExportSignature(b, index) # Absent
  BY DEF Readable, FunctionExports
<1>4. index < Len(types) /\ ExportSignature(b, index) = b.types[types[index + 1] + 1]
  BY <1>3 DEF ExportSignature
<1> HIDE DEF index, n, m, types
<1>5. CASE index < n
  <2> DEFINE k == Kth(imported, index + 1)
  <2>1. index + 1 \in 1..n
    BY <1>1, <1>2, <1>5
  <2>2. k \in imported /\ Rank(imported, k) = index + 1
    BY <2>1, BinaryParts, RankFacts DEF n
  <2>3. Cardinality({i \in imported : i < k}) = index
    <3>1. Cardinality({i \in imported : i < k}) = Rank(imported, k) - 1
      BY <2>2, BinaryParts, RankFacts
    <3> QED
      BY <1>1, <2>2, <3>1
  <2>4. types[index + 1] = b.imports[k].type
    BY <1>2, <2>1
  <2>5. ExportSignature(b, index) = b.types[b.imports[k].type + 1]
    BY <1>4, <2>4
  <2> HIDE DEF k
  <2> QED
    BY <2>2, <2>3, <2>5 DEF index
<1>6. CASE ~(index < n)
  <2>1. index >= n /\ index - n + 1 \in 1..m /\ n + (index - n + 1) = index + 1
    BY <1>1, <1>2, <1>4, <1>6
  <2>2. types[index + 1] = b.functions[index - n + 1]
    BY <1>2, <2>1
  <2> QED
    BY <1>4, <2>1, <2>2 DEF index, n
<1> QED
  BY <1>5, <1>6

LEMMA BoundSuffices ==
  ASSUME JsInv, BoundInv
  PROVE  ExportsBound
<1> SUFFICES ASSUME NEW i \in DOMAIN instances
             PROVE  LET b == instances[i].binary
                        imported == FunctionImports(b)
                    IN  /\ \A j \in FunctionExports(b) :
                             LET e == b.exports[j]
                                 f == functions[instances[i].exports[e.name].handle]
                             IN  /\ f.what = "guest" /\ f.instance = i
                                 /\ \/ \E k \in imported :
                                         /\ Cardinality({m \in imported : m < k}) = e.index
                                         /\ f.results = b.types[b.imports[k].type + 1]
                                    \/ /\ e.index >= Cardinality(imported)
                                       /\ f.results = b.types[b.functions[e.index - Cardinality(imported) + 1] + 1]
                        /\ wasi_contexts[instances[i].wasi] = i
                        /\ \A k \in DOMAIN instances \ {i} :
                             instances[i].imports \cap instances[k].imports = {}
  BY DEF ExportsBound
<1> DEFINE b == instances[i].binary
<1>1. b \in Binaries
  <2>1. instances[i] \in StoredInstance
    BY Element DEF JsInv, Shape
  <2> QED
    BY <2>1 DEF StoredInstance
<1>2. ASSUME NEW j \in FunctionExports(b)
      PROVE  LET e == b.exports[j]
                 f == functions[instances[i].exports[e.name].handle]
                 imported == FunctionImports(b)
             IN  /\ f.what = "guest" /\ f.instance = i
                 /\ \/ \E k \in imported :
                         /\ Cardinality({m \in imported : m < k}) = e.index
                         /\ f.results = b.types[b.imports[k].type + 1]
                    \/ /\ e.index >= Cardinality(imported)
                       /\ f.results = b.types[b.functions[e.index - Cardinality(imported) + 1] + 1]
  <2>1. Readable(b)
    BY DEF BoundInv, SignaturesRead
  <2>2. LET f == functions[instances[i].exports[b.exports[j].name].handle]
        IN  /\ f.what = "guest" /\ f.instance = i
            /\ f.results = ExportSignature(b, b.exports[j].index)
    BY DEF BoundInv, SignaturesRead, HandleOf, SignatureOf, IsExport
  <2> HIDE DEF b
  <2> QED
    BY <1>1, <2>1, <2>2, SignatureIs
<1>3. wasi_contexts[instances[i].wasi] = i
  BY DEF BoundInv, ContextsBound
<1>4. \A k \in DOMAIN instances \ {i} : instances[i].imports \cap instances[k].imports = {}
  BY DEF BoundInv, ImportsApart
<1> HIDE DEF b
<1> QED
  BY <1>2, <1>3, <1>4 DEF b

\* The store only grows: the instances there are keep what they have.
LEMMA BoundKeeps ==
  ASSUME JsInv, BoundInv, UNCHANGED instances,
         DOMAIN functions \subseteq DOMAIN functions',
         \A f \in DOMAIN functions : functions'[f] = functions[f],
         \A i \in DOMAIN wasi_contexts : wasi_contexts'[i] = wasi_contexts[i],
         LoadingNew'
  PROVE  BoundInv'
<1>1. SignaturesRead'
  BY DEF BoundInv, SignaturesRead
<1>2. ContextsBound'
  BY DEF BoundInv, ContextsBound, JsInv, StoreInv, InstancesLead
<1>3. ImportsApart'
  BY DEF BoundInv, ImportsApart
<1> QED
  BY <1>1, <1>2, <1>3 DEF BoundInv

LEMMA BoundNewModule ==
  ASSUME JsInv, BoundInv, NEW b \in Binaries, NewModule(b) \/ ModuleRefused(b)
  PROVE  BoundInv'
<1>1. UNCHANGED <<instances, functions, wasi_contexts>>
  BY DEF NewModule, ModuleRefused, storeVars
<1>2. LoadingNew'
  BY <1>1 DEF NewModule, ModuleRefused, BoundInv, LoadingNew
<1> QED
  BY <1>1, <1>2, BoundKeeps

LEMMA BoundRegister ==
  ASSUME JsInv, BoundInv, RegisterImports
  PROVE  BoundInv'
<1> DEFINE n == Cardinality(HostImports(loading.binary))
           new == [i \in 1..n |-> HostFunction]
<1>1. loading \in Attempt /\ loading # Absent /\ functions \in Seq(StoredFunction)
  BY DEF RegisterImports, JsInv, Shape
<1>2. n \in Nat /\ new \in [1..n -> StoredFunction]
  <2>1. n \in Nat
    BY <1>1, BinaryParts DEF Attempt
  <2> QED
    BY <2>1 DEF HostFunction, StoredFunction
<1>3. functions' = functions \o new
  BY DEF RegisterImports
<1>4. /\ Len(functions) \in Nat /\ DOMAIN functions = 1..Len(functions)
      /\ DOMAIN functions' = 1..(Len(functions) + n)
      /\ \A f \in 1..Len(functions) : functions'[f] = functions[f]
  <2> HIDE DEF n, new
  <2> QED
    BY <1>1, <1>2, <1>3, Joined
<1>5. /\ loading'.binary = loading.binary /\ loading'.wasi = loading.wasi
      /\ loading'.imports = Len(functions) + 1 .. Len(functions')
      /\ UNCHANGED <<instances, wasi_contexts>>
  BY <1>1 DEF RegisterImports, Attempt
<1> HIDE DEF n, new
<1>6. DOMAIN functions \subseteq DOMAIN functions'
  BY <1>2, <1>4
<1>7. DOMAIN functions \cap loading'.imports = {}
  BY <1>4, <1>5
<1>8. \A i \in DOMAIN instances : instances[i].imports \subseteq DOMAIN functions
  BY DEF JsInv, StoreInv, InstancesLead
<1>9. LoadingNew'
  BY <1>1, <1>5, <1>7, <1>8 DEF BoundInv, LoadingNew
<1> QED
  BY <1>4, <1>5, <1>6, <1>9, BoundKeeps

LEMMA BoundDuplicate ==
  ASSUME JsInv, BoundInv, DuplicateImport
  PROVE  BoundInv'
<1>1. functions \in Seq(StoredFunction) /\ HostFunction \in StoredFunction
  BY DEF JsInv, Shape, HostFunction, StoredFunction
<1>2. functions' = Append(functions, HostFunction)
  BY DEF DuplicateImport
<1>3. /\ DOMAIN functions \subseteq DOMAIN functions'
      /\ \A f \in DOMAIN functions : functions'[f] = functions[f]
  <2>1. /\ DOMAIN functions' = 1..(Len(functions) + 1)
        /\ \A i \in 1..Len(functions) : functions'[i] = functions[i]
    BY <1>1, <1>2, Appended
  <2>2. DOMAIN functions = 1..Len(functions) /\ Len(functions) \in Nat
    BY <1>1
  <2> QED
    BY <2>1, <2>2
<1> QED
  BY <1>3, BoundKeeps DEF DuplicateImport, LoadingNew

LEMMA BoundAddWasi ==
  ASSUME JsInv, BoundInv, AddWasi
  PROVE  BoundInv'
<1>1. /\ wasi_contexts \in Seq(Nat \cup {Absent}) /\ Absent \in Nat \cup {Absent}
      /\ loading \in Attempt /\ loading # Absent
  BY DEF AddWasi, JsInv, Shape
<1>2. wasi_contexts' = Append(wasi_contexts, Absent)
  BY DEF AddWasi
<1>3. /\ \A i \in DOMAIN wasi_contexts : wasi_contexts'[i] = wasi_contexts[i]
      /\ Len(wasi_contexts') \notin DOMAIN wasi_contexts
  <2>1. /\ Len(wasi_contexts') = Len(wasi_contexts) + 1
        /\ \A i \in 1..Len(wasi_contexts) : wasi_contexts'[i] = wasi_contexts[i]
    BY <1>1, <1>2, Appended
  <2>2. DOMAIN wasi_contexts = 1..Len(wasi_contexts) /\ Len(wasi_contexts) \in Nat
    BY <1>1
  <2> QED
    BY <2>1, <2>2
<1>4. /\ loading'.binary = loading.binary /\ loading'.imports = loading.imports
      /\ loading'.wasi = Len(wasi_contexts') /\ UNCHANGED <<instances, functions>>
  BY <1>1 DEF AddWasi, Attempt
<1>5. \A i \in DOMAIN instances : instances[i].wasi \in DOMAIN wasi_contexts
  BY DEF JsInv, StoreInv, InstancesLead
<1>6. LoadingNew'
  BY <1>1, <1>3, <1>4, <1>5 DEF BoundInv, LoadingNew
<1> QED
  BY <1>3, <1>4, <1>6, BoundKeeps

\* What instantiation adds to the store.
LEMMA Instantiated ==
  ASSUME JsInv, Instantiate
  PROVE  LET b == loading.binary
             n == Cardinality(FunctionExports(b))
             id == Len(instances) + 1
         IN  /\ b \in Binaries /\ n \in Nat
             /\ Len(instances) \in Nat /\ DOMAIN instances = 1..Len(instances)
             /\ DOMAIN instances' = 1..id
             /\ \A i \in 1..Len(instances) : instances'[i] = instances[i]
             /\ instances'[id].binary = b /\ instances'[id].exports = ExportMap(b)
             /\ instances'[id].imports = loading.imports /\ instances'[id].wasi = loading.wasi
             /\ Len(functions) \in Nat /\ DOMAIN functions = 1..Len(functions)
             /\ DOMAIN functions' = 1..(Len(functions) + n)
             /\ \A f \in 1..Len(functions) : functions'[f] = functions[f]
             /\ \A k \in 1..n : functions'[Len(functions) + k] =
                    [what |-> "guest", instance |-> id, results |-> KthSignature(b, k)]
             /\ loading.wasi \in DOMAIN wasi_contexts
             /\ \A i \in DOMAIN wasi_contexts :
                  wasi_contexts'[i] = IF i = loading.wasi THEN id ELSE wasi_contexts[i]
             /\ loading # Absent /\ loading.wasi # Absent /\ loading' = Absent
<1> DEFINE b == loading.binary
           n == Cardinality(FunctionExports(b))
           id == Len(instances) + 1
           instance == [binary |-> b, exports |-> ExportMap(b), imports |-> loading.imports,
                        wasi |-> loading.wasi]
           new == BoundTo(id, b)
<1>1. /\ loading \in Attempt /\ b \in Binaries
      /\ loading.wasi \in DOMAIN wasi_contexts
      /\ loading.imports \in SUBSET Nat
      /\ loading # Absent /\ loading.wasi # Absent
  BY DEF Instantiate, JsInv, Shape, LoadingLeads, Attempt
<1>2. /\ functions' = functions \o new
      /\ instances' = Append(instances, instance)
      /\ wasi_contexts' = [wasi_contexts EXCEPT ![loading.wasi] = Len(instances')]
      /\ loading' = Absent
  BY DEF Instantiate, JsInstanceNew
<1>3. /\ wasi_contexts \in Seq(Nat \cup {Absent}) /\ DOMAIN wasi_contexts = 1..Len(wasi_contexts)
      /\ Len(wasi_contexts) \in Nat
      /\ instances \in Seq(StoredInstance) /\ Len(instances) \in Nat
      /\ DOMAIN instances = 1..Len(instances)
      /\ functions \in Seq(StoredFunction) /\ Len(functions) \in Nat
      /\ DOMAIN functions = 1..Len(functions)
      /\ n \in Nat /\ id \in Nat
  BY <1>1, BinaryParts DEF JsInv, Shape
<1>4. /\ new \in [1..n -> StoredFunction]
      /\ \A k \in 1..n :
           new[k] = [what |-> "guest", instance |-> id, results |-> KthSignature(b, k)]
  <2>1. \A k \in 1..n : KthSignature(b, k) \in Signatures
    BY <1>1, <1>3 DEF Signatures
  <2> HIDE DEF id, b
  <2> QED
    BY <1>3, <2>1 DEF BoundTo, StoredFunction
<1>5. /\ DOMAIN functions' = 1..(Len(functions) + n)
      /\ \A i \in 1..Len(functions) : functions'[i] = functions[i]
      /\ \A k \in 1..n : functions'[Len(functions) + k] = new[k]
  <2>1. /\ functions' = functions \o new /\ functions \in Seq(StoredFunction)
        /\ n \in Nat /\ new \in [1..n -> StoredFunction]
    BY <1>2, <1>3, <1>4
  <2> HIDE DEF n, new, id, b, instance
  <2>2. /\ DOMAIN (functions \o new) = 1..(Len(functions) + n)
        /\ \A i \in 1..Len(functions) : (functions \o new)[i] = functions[i]
        /\ \A k \in 1..n : (functions \o new)[Len(functions) + k] = new[k]
    BY <2>1, Joined
  <2> QED
    BY <2>1, <2>2
<1>6. instance \in StoredInstance
  <2>1. loading.wasi \in Nat /\ ExportMap(b) \in Exports
    BY <1>1, <1>3, ExportsOfInstance
  <2> QED
    BY <1>1, <2>1 DEF StoredInstance
<1>7. /\ Len(instances') = id
      /\ DOMAIN instances' = 1..id
      /\ \A i \in 1..Len(instances) : instances'[i] = instances[i]
      /\ instances'[id] = instance
  <2> HIDE DEF instance
  <2> QED
    BY <1>2, <1>3, <1>6, Appended
<1>8. \A i \in DOMAIN wasi_contexts :
        wasi_contexts'[i] = IF i = loading.wasi THEN id ELSE wasi_contexts[i]
  BY <1>1, <1>2, <1>3, <1>7
<1> HIDE DEF n, new
<1> QED
  BY <1>1, <1>2, <1>3, <1>4, <1>5, <1>7, <1>8 DEF n

LEMMA BoundInstantiate ==
  ASSUME JsInv, BoundInv, Instantiate
  PROVE  BoundInv'
<1> DEFINE b == loading.binary
           n == Cardinality(FunctionExports(b))
           id == Len(instances) + 1
<1>1. /\ b \in Binaries /\ n \in Nat
      /\ Len(instances) \in Nat /\ DOMAIN instances = 1..Len(instances)
      /\ DOMAIN instances' = 1..id
      /\ \A i \in 1..Len(instances) : instances'[i] = instances[i]
      /\ instances'[id].binary = b /\ instances'[id].exports = ExportMap(b)
      /\ instances'[id].imports = loading.imports /\ instances'[id].wasi = loading.wasi
      /\ Len(functions) \in Nat /\ DOMAIN functions = 1..Len(functions)
      /\ DOMAIN functions' = 1..(Len(functions) + n)
      /\ \A f \in 1..Len(functions) : functions'[f] = functions[f]
      /\ \A k \in 1..n : functions'[Len(functions) + k] =
            [what |-> "guest", instance |-> id, results |-> KthSignature(b, k)]
      /\ loading.wasi \in DOMAIN wasi_contexts
      /\ \A i \in DOMAIN wasi_contexts :
            wasi_contexts'[i] = IF i = loading.wasi THEN id ELSE wasi_contexts[i]
      /\ loading # Absent /\ loading.wasi # Absent /\ loading' = Absent
  BY Instantiated
<1>2. /\ Readable(b)
      /\ \A i \in DOMAIN instances :
            /\ instances[i].wasi # loading.wasi
            /\ instances[i].imports \cap loading.imports = {}
  BY <1>1 DEF BoundInv, LoadingNew
<1>3. ASSUME NEW j \in FunctionExports(b)
      PROVE  LET handle == ExportMap(b)[b.exports[j].name].handle
             IN  /\ handle \in DOMAIN functions'
                 /\ functions'[handle].what = "guest"
                 /\ functions'[handle].instance = id
                 /\ functions'[handle].results = ExportSignature(b, b.exports[j].index)
  <2> DEFINE name == b.exports[j].name
             rank == Rank(FunctionExports(b), j)
  <2>1. j \in DOMAIN b.exports
    BY DEF FunctionExports
  <2>2. \A i \in DOMAIN b.exports : b.exports[i].name = name => i = j
    BY <1>1, <2>1, BinariesAssumption DEF Compiled
  <2>3. ExportMap(b)[name].handle = Len(functions) + rank
    <3>1. (CHOOSE i \in DOMAIN b.exports : b.exports[i].name = name) = j
      BY <2>1, <2>2
    <3>2. name \in {b.exports[i].name : i \in DOMAIN b.exports}
      BY <2>1
    <3> HIDE DEF name, b
    <3> QED
      BY <3>1, <3>2 DEF ExportMap
  <2>4. rank \in 1..n /\ Kth(FunctionExports(b), rank) = j
    BY <1>1, BinaryParts, RankFacts
  <2>5. KthSignature(b, rank) = ExportSignature(b, b.exports[j].index)
    BY <2>4 DEF KthSignature
  <2> HIDE DEF rank, n, name, b, id
  <2>6. Len(functions) + rank \in DOMAIN functions'
    BY <1>1, <2>4
  <2>7. functions'[Len(functions) + rank] =
            [what |-> "guest", instance |-> id, results |-> KthSignature(b, rank)]
    BY <1>1, <2>4
  <2> QED
    BY <2>3, <2>5, <2>6, <2>7 DEF name
<1> HIDE DEF b, n
<1>4. \A i \in 1..id : i \in DOMAIN instances \/ i = id
  BY <1>1
<1>5. SignaturesRead'
  <2>1. DOMAIN functions \subseteq DOMAIN functions'
    BY <1>1
  <2>2. ASSUME NEW i \in DOMAIN instances
        PROVE  /\ Readable(instances'[i].binary)
               /\ \A j \in FunctionExports(instances'[i].binary) :
                    /\ HandleOf(instances'[i], j) \in DOMAIN functions'
                    /\ IsExport(functions'[HandleOf(instances'[i], j)], i,
                                SignatureOf(instances'[i], j))
    <3>1. instances'[i] = instances[i]
      BY <1>1
    <3>2. \A f \in DOMAIN functions : f \in DOMAIN functions' /\ functions'[f] = functions[f]
      BY <1>1, <2>1
    <3> QED
      BY <3>1, <3>2 DEF BoundInv, SignaturesRead
  <2>3. /\ Readable(instances'[id].binary)
        /\ \A j \in FunctionExports(instances'[id].binary) :
             /\ HandleOf(instances'[id], j) \in DOMAIN functions'
             /\ IsExport(functions'[HandleOf(instances'[id], j)], id,
                         SignatureOf(instances'[id], j))
    <3> HIDE DEF id
    <3> QED
      BY <1>1, <1>2, <1>3 DEF HandleOf, SignatureOf, IsExport
  <2> HIDE DEF id
  <2> QED
    BY <1>1, <1>4, <2>2, <2>3 DEF SignaturesRead
<1>6. ContextsBound'
  <2>1. ASSUME NEW i \in DOMAIN instances
        PROVE  wasi_contexts'[instances'[i].wasi] = i
    <3>1. /\ instances'[i] = instances[i]
          /\ wasi_contexts[instances[i].wasi] = i
          /\ instances[i].wasi \in DOMAIN wasi_contexts
          /\ instances[i].wasi # loading.wasi
      BY <1>1, <1>2 DEF BoundInv, ContextsBound, JsInv, StoreInv, InstancesLead
    <3> QED
      BY <1>1, <3>1
  <2>2. wasi_contexts'[instances'[id].wasi] = id
    BY <1>1
  <2> HIDE DEF id
  <2> QED
    BY <1>1, <1>4, <2>1, <2>2 DEF ContextsBound
<1>7. ImportsApart'
  <2>1. \A i \in DOMAIN instances : instances'[i].imports = instances[i].imports
    BY <1>1
  <2>2. instances'[id].imports = loading.imports
    BY <1>1
  <2> HIDE DEF id
  <2> QED
    BY <1>1, <1>2, <1>4, <2>1, <2>2 DEF ImportsApart, BoundInv
<1>8. LoadingNew'
  BY <1>1 DEF LoadingNew
<1> QED
  BY <1>5, <1>6, <1>7, <1>8 DEF BoundInv

------------------------------------------------------------------------------
(* The theorems.                                                           *)

LEMMA JsInvInit == Init => JsInv
<1> SUFFICES ASSUME Init PROVE JsInv
  OBVIOUS
<1>1. Shape /\ StoreInv /\ LoadingLeads /\ AccessInside
  BY DEF Init, Shape, StoreInv, ContextsLead, InstancesLead, FunctionsLead, LoadingLeads,
     AccessInside
<1>2. CallInv
  BY BoundsAssumption DEF Init, CallInv, StackLeads, FramesLead, StackDeep, CallerIsExecuting
<1>3. Counted
  BY BoundsAssumption DEF Init, Counted
<1> QED
  BY <1>1, <1>2, <1>3 DEF JsInv

LEMMA JsInvStutter ==
  ASSUME JsInv, UNCHANGED vars
  PROVE  JsInv'
<1>1. Shape' /\ StoreInv' /\ LoadingLeads' /\ Counted' /\ AccessInside'
  BY DEF vars, JsInv, Shape, StoreInv, ContextsLead, InstancesLead, FunctionsLead, LoadingLeads,
     Counted, AccessInside
<1>2. CallInv'
  BY DEF vars, JsInv, CallInv, StackLeads, FramesLead, StackDeep, CallerIsExecuting
<1> QED
  BY <1>1, <1>2 DEF JsInv

LEMMA JsInvNext ==
  ASSUME JsInv, Next
  PROVE  JsInv'
<1>1. ASSUME NEW b \in Binaries, NewModule(b) \/ ModuleRefused(b)
      PROVE  JsInv'
  BY <1>1, NewModuleStep
<1>2. ASSUME NEW offset \in 0..MaxU32, NEW size \in 0..MaxU32, HostAccesses(offset, size)
      PROVE  JsInv'
  <2>1. offset \in Nat /\ size \in Nat
    BY BoundsAssumption
  <2> QED
    BY <1>2, <2>1, HostAccessesStep
<1> QED
  BY <1>1, <1>2, RegisterImportsStep, DuplicateImportStep, AddWasiStep, InstantiateStep,
     InstantiationFailsStep, HostEnters, GuestCallsImportStep, GuestEnds, UnsupportedStep,
     HostReturnsStep, HostThrowsStep
  DEF Next

(* The inductive invariant holds in every reachable state.                 *)
THEOREM JsCorrect == Spec => []JsInv
<1>1. JsInv /\ [Next]_vars => JsInv'
  BY JsInvNext, JsInvStutter
<1> QED
  BY JsInvInit, <1>1, PTL DEF Spec

(* Every variable keeps its type, and every handle in the store, in an     *)
(* export map or on the stack leads to something (JsStoreInner).           *)
THEOREM JsTypeCorrect == Spec => []JsTypeOK
<1>1. JsInv => JsTypeOK
  BY TypeFromParts DEF JsInv, CallInv
<1> QED
  BY JsCorrect, <1>1, PTL

(* As long as nothing panicked between a push and its pop, a host function *)
(* takes the instance that called it for its caller, whatever trapped,     *)
(* threw or returned before (call_async, wasm_call_stack).                 *)
THEOREM CallerCorrect == Spec => []CallerIsExecuting
<1>1. JsInv => CallerIsExecuting
  BY DEF JsInv, CallInv
<1> QED
  BY JsCorrect, <1>1, PTL

(* The accesses of a host function stay inside the memory of the guest     *)
(* that called it (check_bounds, JsImportCallContext::memory).             *)
THEOREM AccessCorrect == Spec => []AccessInside
<1>1. JsInv => AccessInside
  BY DEF JsInv
<1> QED
  BY JsCorrect, <1>1, PTL

LEMMA BoundInvInit == Init => BoundInv
BY DEF Init, BoundInv, SignaturesRead, ContextsBound, ImportsApart, LoadingNew

LEMMA BoundInvNext ==
  ASSUME JsInv, BoundInv, [Next]_vars
  PROVE  BoundInv'
<1>1. CASE \E b \in Binaries : NewModule(b) \/ ModuleRefused(b)
  BY <1>1, BoundNewModule
<1>2. CASE InstantiationFails
  BY <1>2, BoundKeeps DEF InstantiationFails, storeVars, LoadingNew
<1>3. CASE \/ HostCalls \/ GuestCallsImport \/ GuestReturns \/ GuestReturnsUnsupported
           \/ GuestTraps \/ HostReturns \/ HostThrows \/ HostCallsCaller \/ HostCallsLinked
           \/ \E offset, size \in 0..MaxU32 : HostAccesses(offset, size)
           \/ UNCHANGED vars
  <2>1. UNCHANGED <<wasi_contexts, instances, functions, loading>>
    BY <1>3 DEF HostCalls, GuestCallsImport, GuestReturns, GuestReturnsUnsupported, GuestTraps,
       HostReturns, HostThrows, HostCallsCaller, HostCallsLinked, HostAccesses, Enter, vars,
       storeVars
  <2>2. LoadingNew'
    BY <2>1 DEF BoundInv, LoadingNew
  <2> QED
    BY <2>1, <2>2, BoundKeeps
<1> QED
  BY <1>1, <1>2, <1>3, BoundRegister, BoundDuplicate, BoundAddWasi, BoundInstantiate DEF Next

(* Whatever was loaded, refused or failed before, an export runs in the    *)
(* instance it is an export of with the signature its binary declares, a   *)
(* host function serves one instance, and WASI functions have the memory   *)
(* of the instance they were made for (build_export_map, extract_exports,  *)
(* bind_to_instance).                                                      *)
THEOREM BoundCorrect == Spec => []ExportsBound
<1>1. Spec => []BoundInv
  <2>1. BoundInv /\ JsInv /\ [Next]_vars => BoundInv'
    BY BoundInvNext
  <2> QED
    BY BoundInvInit, JsCorrect, <2>1, PTL DEF Spec
<1>2. JsInv /\ BoundInv => ExportsBound
  BY BoundSuffices
<1> QED
  BY JsCorrect, <1>1, <1>2, PTL

=============================================================================
