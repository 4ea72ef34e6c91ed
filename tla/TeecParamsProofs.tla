-------------------------- MODULE TeecParamsProofs --------------------------
(***************************************************************************)
(* Lemmas about the parameters of a TEEC_InvokeCommand, for the proofs of  *)
(* the shims: the shape of the TA's copy, and what the agent's entry point *)
(* may make of its sizes.                                                  *)
(***************************************************************************)
EXTENDS TeecParams, SequenceTheorems, TLAPS

----------------------------------------------------------------------------
(* The sizes of the TA's copy of the parameters.                           *)

\* Anything that is a sequence of that length; what it holds is of no matter.
IsBuffer(b) == \E S : b \in Seq(S)

\* A copy of which the size field does not exceed the buffer.
Sized(p) ==
    /\ p = [value |-> p.value, buffer |-> p.buffer, size |-> p.size]
    /\ IsBuffer(p.buffer)
    /\ p.size \in Nat /\ p.size <= Len(p.buffer)

\* A function on 1 .. n is a sequence of length n.
LEMMA FunctionIsBuffer ==
    ASSUME NEW n \in Nat, NEW f, f = [j \in 1 .. n |-> f[j]]
    PROVE  IsBuffer(f) /\ Len(f) = n
<1> DEFINE S == {f[j] : j \in 1 .. n}
<1>1. f \in [1 .. n -> S]
  OBVIOUS
<1>2. f \in Seq(S)
  BY <1>1, SeqDef
<1>3. IsBuffer(f)
  BY <1>2, Zenon DEF IsBuffer
<1>4. Len(f) \in Nat /\ DOMAIN f = 1 .. Len(f) /\ DOMAIN f = 1 .. n
  BY <1>1, <1>2, LenProperties
<1>5. Len(f) = n
  BY <1>4
<1>6. QED
  BY <1>3, <1>5

\* memcpy into a buffer does not change its length.
LEMMA OverwriteLength ==
    ASSUME NEW b, IsBuffer(b), NEW offset, NEW data
    PROVE  IsBuffer(Overwrite(b, offset, data)) /\ Len(Overwrite(b, offset, data)) = Len(b)
<1>1. Len(b) \in Nat /\ DOMAIN b = 1 .. Len(b)
  BY LenProperties DEF IsBuffer
<1> DEFINE f == Overwrite(b, offset, data)
<1>2. f = [j \in 1 .. Len(b) |-> f[j]]
  BY <1>1 DEF Overwrite
<1>3. QED
  BY <1>1, <1>2, FunctionIsBuffer

\* The TA's copy of an operation, field by field and byte by byte.
LEMMA PreparedShape ==
    ASSUME NEW op \in Operation
    PROVE  /\ prepare_params(op) = [i \in Index |-> prepare_params(op)[i]]
           /\ \A i \in Index :
                LET p == op.params[i]  t == op.types[i]  q == prepare_params(op)[i]
                IN  /\ q = [value |-> q.value, buffer |-> q.buffer, size |-> q.size]
                    /\ q.value = IF t \in ValueIn THEN p.value ELSE Zero
                    /\ q.size = IF t \in Mem THEN p.size ELSE 0
                    /\ q.size \in Nat /\ q.size <= Len(p.buffer)
                    /\ q.buffer = [j \in 1 .. q.size |-> q.buffer[j]]
                    /\ \A j \in 1 .. q.size :
                          q.buffer[j] = IF t \in MemIn THEN p.buffer[j] ELSE Zero
<1>1. prepare_params(op) = [i \in Index |-> prepare_params(op)[i]]
  BY DEF prepare_params
<1> SUFFICES ASSUME NEW i \in Index
             PROVE  LET p == op.params[i]  t == op.types[i]  q == prepare_params(op)[i]
                    IN  /\ q = [value |-> q.value, buffer |-> q.buffer, size |-> q.size]
                        /\ q.value = IF t \in ValueIn THEN p.value ELSE Zero
                        /\ q.size = IF t \in Mem THEN p.size ELSE 0
                        /\ q.size \in Nat /\ q.size <= Len(p.buffer)
                        /\ q.buffer = [j \in 1 .. q.size |-> q.buffer[j]]
                        /\ \A j \in 1 .. q.size :
                              q.buffer[j] = IF t \in MemIn THEN p.buffer[j] ELSE Zero
  BY <1>1
<1> DEFINE p == op.params[i]
           t == op.types[i]
           q == prepare_params(op)[i]
<1>2. /\ p.size \in Nat /\ p.buffer \in Seq(Datum) /\ p.size <= Len(p.buffer)
      /\ Len(p.buffer) \in Nat
  BY LenProperties DEF Operation, Param
<1>3. q = [value |-> IF t \in ValueIn THEN p.value ELSE Zero,
           buffer |-> IF t \in MemIn THEN SubSeq(p.buffer, 1, p.size)
                      ELSE IF t \in Mem THEN Filled(Zero, p.size) ELSE <<>>,
           size |-> IF t \in Mem THEN p.size ELSE 0]
  BY DEF prepare_params
<1> HIDE DEF p, t, q
<1>4. /\ q = [value |-> q.value, buffer |-> q.buffer, size |-> q.size]
      /\ q.value = IF t \in ValueIn THEN p.value ELSE Zero
      /\ q.size = IF t \in Mem THEN p.size ELSE 0
      /\ q.buffer = IF t \in MemIn THEN SubSeq(p.buffer, 1, p.size)
                    ELSE IF t \in Mem THEN Filled(Zero, p.size) ELSE <<>>
      /\ q.size \in Nat /\ q.size <= Len(p.buffer)
  BY <1>2, <1>3
<1>5. /\ q.buffer = [j \in 1 .. q.size |-> q.buffer[j]]
      /\ \A j \in 1 .. q.size : q.buffer[j] = IF t \in MemIn THEN p.buffer[j] ELSE Zero
  <2>1. CASE t \in MemIn
    <3>1. SubSeq(p.buffer, 1, p.size) = [j \in 1 .. p.size |-> p.buffer[j]]
      BY <1>2
    <3>2. q.size = p.size /\ q.buffer = [j \in 1 .. p.size |-> p.buffer[j]]
      BY <1>4, <2>1, <3>1 DEF Mem
    <3>3. QED
      BY <2>1, <3>2
  <2>2. CASE t \in Mem \ MemIn
    <3>1. q.size = p.size /\ q.buffer = [j \in 1 .. p.size |-> Zero]
      BY <1>4, <2>2 DEF Filled
    <3>2. QED
      BY <2>2, <3>1
  <2>3. CASE t \notin Mem
    <3>1. q.size = 0 /\ q.buffer = <<>> /\ 1 .. 0 = {}
      BY <1>4, <2>3 DEF Mem
    <3>2. QED
      BY <3>1
  <2>4. QED
    BY <2>1, <2>2, <2>3
<1>6. QED
  BY <1>4, <1>5 DEF p, t, q

\* prepare_params gives every parameter a buffer of at least its size field, and
\* a memory reference the size that the client gave.
LEMMA PreparedSizes ==
    ASSUME NEW op \in Operation, NEW i \in Index
    PROVE  /\ Sized(prepare_params(op)[i])
           /\ op.types[i] \in Mem => prepare_params(op)[i].size = op.params[i].size
<1> DEFINE q == prepare_params(op)[i]
<1>1. /\ q = [value |-> q.value, buffer |-> q.buffer, size |-> q.size]
      /\ q.size = IF op.types[i] \in Mem THEN op.params[i].size ELSE 0
      /\ q.size \in Nat
      /\ q.buffer = [j \in 1 .. q.size |-> q.buffer[j]]
  BY PreparedShape
<1> HIDE DEF q
<1>2. IsBuffer(q.buffer) /\ Len(q.buffer) = q.size
  BY <1>1, FunctionIsBuffer
<1>3. QED
  BY <1>1, <1>2 DEF Sized, q

\* copyout_param shrinks the size field or leaves it, and stays in the buffer.
LEMMA CopyoutFits ==
    ASSUME NEW p, Sized(p), NEW data \in Seq(Datum)
    PROVE  Sized(copyout_param(p, data)) /\ copyout_param(p, data).size <= p.size
<1> DEFINE b == Overwrite(p.buffer, 0, data)
<1>1. Len(data) \in Nat
  BY LenProperties
<1>2. CASE p.size < Len(data)
  BY <1>2 DEF copyout_param, Sized
<1>3. CASE ~(p.size < Len(data))
  <2>1. IsBuffer(b) /\ Len(b) = Len(p.buffer)
    BY OverwriteLength DEF Sized
  <2> HIDE DEF b
  <2>2. copyout_param(p, data) = [p EXCEPT !.buffer = b, !.size = Len(data)]
    BY <1>3 DEF copyout_param, b
  <2>3. copyout_param(p, data) = [value |-> p.value, buffer |-> b, size |-> Len(data)]
    BY <2>2 DEF Sized
  <2>4. Len(p.buffer) \in Nat
    BY LenProperties DEF Sized, IsBuffer
  <2>5. QED
    BY <1>1, <1>3, <2>1, <2>3, <2>4 DEF Sized
<1>4. QED
  BY <1>2, <1>3

\* Only a query changes the parameters.
LEMMA OutcomeCases ==
    ASSUME NEW ps, NEW cmd, NEW types, NEW out \in Outcome(cmd, types, ps)
    PROVE  \/ out \in QueryOutcome(ps)
           \/ \E results : out \in [result : results, params : {ps}]
<1> DEFINE Only(results) == [result : results, params : {ps}]
           ok == ReachesSession(cmd, types, ps)
<1>1. \A results : out \in Only(results) => \E rs : out \in [result : rs, params : {ps}]
  OBVIOUS
<1> HIDE DEF Only
<1>2. CASE cmd \notin AgentCommand
  BY <1>1, <1>2 DEF Outcome, Only
<1>3. CASE cmd \in AgentCommand /\ ~ok
  BY <1>1, <1>3 DEF Outcome, Only
<1>4. CASE ok /\ cmd = "SET_DEV_OPTION"
  BY <1>1, <1>4 DEF Outcome, Only, AgentCommand
<1>5. CASE ok /\ cmd = "BROKER_TASK_DONE"
  BY <1>1, <1>5 DEF Outcome, Only, AgentCommand
<1>6. CASE ok /\ cmd = "QUERY_NEXT_BROKER_TASK"
  BY <1>6 DEF Outcome, AgentCommand
<1>7. QED
  BY <1>2, <1>3, <1>4, <1>5, <1>6 DEF AgentCommand

\* Neither a query nor any other command makes a size field grow.
LEMMA OutcomeFits ==
    ASSUME NEW ps, ps = [i \in Index |-> ps[i]],
           \A i \in Index : Sized(ps[i]),
           NEW cmd, NEW types, NEW out \in Outcome(cmd, types, ps)
    PROVE  \A i \in Index : Sized(out.params[i]) /\ out.params[i].size <= ps[i].size
<1>1. CASE out.params = ps
  BY <1>1 DEF Sized
<1>2. CASE out \in QueryOutcome(ps)
  <2>1. PICK cmnd \in Datum \ {Uninit}, uri \in Uri, data \in PostData :
          out.params = TaskCopied(ps, cmnd, uri, data)
    BY <1>2 DEF QueryOutcome
  <2>2. uri \in Seq(Datum) /\ data \in Seq(Datum)
    BY TeecParamsAssumption
  <2>3. /\ Sized(ps[1]) /\ Sized(ps[2]) /\ Sized(ps[3]) /\ Sized(ps[4])
        /\ 1 \in Index /\ 2 \in Index /\ 3 \in Index /\ 4 \in Index
    BY DEF Index
  <2>4. /\ Sized(copyout_param(ps[2], uri))
        /\ copyout_param(ps[2], uri).size <= ps[2].size
        /\ Sized(copyout_param(ps[3], data))
        /\ copyout_param(ps[3], data).size <= ps[3].size
    BY <2>2, <2>3, CopyoutFits
  <2>5. /\ out.params[1] = [ps[1] EXCEPT !.value = cmnd]
        /\ out.params[2] = copyout_param(ps[2], uri)
        /\ out.params[3] \in {ps[3], copyout_param(ps[3], data)}
        /\ out.params[4] = ps[4]
    BY <2>1, <2>3 DEF TaskCopied
  <2>6. Sized(out.params[1]) /\ out.params[1].size <= ps[1].size
    <3>1. out.params[1] = [value |-> cmnd, buffer |-> ps[1].buffer, size |-> ps[1].size]
      BY <2>3, <2>5 DEF Sized
    <3>2. QED
      BY <2>3, <3>1 DEF Sized
  <2>7. /\ Sized(out.params[2]) /\ out.params[2].size <= ps[2].size
        /\ Sized(out.params[3]) /\ out.params[3].size <= ps[3].size
        /\ Sized(out.params[4]) /\ out.params[4].size <= ps[4].size
    BY <2>3, <2>4, <2>5 DEF Sized
  <2>8. QED
    BY <2>6, <2>7 DEF Index
<1>3. QED
  BY <1>1, <1>2, OutcomeCases

\* An outcome is a result and four parameters.
LEMMA OutcomeShape ==
    ASSUME NEW ps, ps = [i \in Index |-> ps[i]],
           NEW cmd, NEW types, NEW out \in Outcome(cmd, types, ps)
    PROVE  /\ out = [result |-> out.result, params |-> out.params]
           /\ out.params = [i \in Index |-> out.params[i]]
<1>1. CASE out \in QueryOutcome(ps)
  <2>1. PICK cmnd \in Datum \ {Uninit}, uri \in Uri, data \in PostData :
          out = [result |-> IF Len(uri) <= ps[2].size /\ Len(data) <= ps[3].size
                            THEN "SUCCESS" ELSE "BAD_PARAMETERS",
                 params |-> TaskCopied(ps, cmnd, uri, data)]
    BY <1>1 DEF QueryOutcome
  <2> DEFINE qs == TaskCopied(ps, cmnd, uri, data)
  <2>2. qs = [i \in Index |-> qs[i]]
    BY DEF TaskCopied
  <2> HIDE DEF qs
  <2>3. QED
    BY <2>1, <2>2 DEF qs
<1>2. CASE \E results : out \in [result : results, params : {ps}]
  BY <1>2
<1>3. QED
  BY <1>1, <1>2, OutcomeCases

=============================================================================
