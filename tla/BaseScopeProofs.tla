-------------------------- MODULE BaseScopeProofs --------------------------
(***************************************************************************)
(* The base-scope loop, for every number of rows, prompt and vocabulary:   *)
(* every real row attends to the real tokens up to itself and to nothing   *)
(* else, the loop stops in time, and it implements plain generation.       *)
(***************************************************************************)
EXTENDS BaseScope, TLAPS

(* The tokens up to a position, in the columns from first on.              *)
Columns(first, toks, pos) == { <<first + p, Entry(p, toks[p + 1])>> : p \in 0 .. pos }

(* The real tokens up to a position, under the columns of a run in which   *)
(* the newest token had not been generated yet.                            *)
SeenUpTo(pos) == Columns(seq - (Len(tokens) - 1), tokens, pos)

(* Every step of the loop fills one more row.                              *)
CountInv ==
  /\ Len(tokens) >= 1
  /\ pc \in {"start", "rejected"} => step = 0
  /\ pc \in {"loop", "raised"} => Len(tokens) + maxNew = seq + step
  /\ pc \in {"loop", "done", "raised"} => Len(tokens) <= seq /\ step <= maxNew
  /\ pc = "done" => Len(tokens) = seq \/ tokens[Len(tokens)] = Eos

(* What the latest run attended to, the promise of the whole layout.       *)
AttendedInv ==
  /\ step = 0 => attended = << >>
  /\ step > 0 => /\ Len(tokens) >= 2
                 /\ attended = [pos \in 0 .. Len(tokens) - 2 |-> SeenUpTo(pos)]

IInv == TypeOK /\ CountInv /\ AttendedInv

-----------------------------------------------------------------------------

(* build_mask for rows right-aligned under padding: a real row sees the    *)
(* real rows down to itself.                                               *)
LEMMA MaskOfRealRows ==
  ASSUME NEW n \in Nat, NEW len \in Nat, len <= n,
         NEW pos \in 0 .. len - 1, NEW col \in 0 .. n - 1
  PROVE  <<n - len + pos, col>> \in BuildMask(n, len, n)
           <=> n - len <= col /\ col <= n - len + pos
<1>1. Larger(n - len, 0) = n - len /\ Smaller(len, n) = len
  BY DEF Larger, Smaller
<1>. QED BY <1>1 DEF BuildMask

(* The entries among <<column, entry>> pairs. *)
LEMMA EntriesOfPairs ==
  ASSUME NEW first, NEW toks, NEW pos
  PROVE  { seen[2] : seen \in Columns(first, toks, pos) } = { Entry(p, toks[p + 1]) : p \in 0 .. pos }
<1>1. ASSUME NEW x \in { seen[2] : seen \in Columns(first, toks, pos) }
      PROVE  x \in { Entry(p, toks[p + 1]) : p \in 0 .. pos }
  <2>1. PICK seen \in Columns(first, toks, pos) : x = seen[2]
    OBVIOUS
  <2>2. PICK p \in 0 .. pos : seen = <<first + p, Entry(p, toks[p + 1])>>
    BY DEF Columns
  <2>. QED BY <2>1, <2>2
<1>2. ASSUME NEW p \in 0 .. pos
      PROVE  Entry(p, toks[p + 1]) \in { seen[2] : seen \in Columns(first, toks, pos) }
  <2>1. <<first + p, Entry(p, toks[p + 1])>> \in Columns(first, toks, pos)
    BY DEF Columns
  <2>2. <<first + p, Entry(p, toks[p + 1])>>[2] = Entry(p, toks[p + 1])
    OBVIOUS
  <2>. QED BY <2>1, <2>2
<1>. QED BY <1>1, <1>2

(* One run, in terms of the tokens it was made with. *)
LEMMA RunSeesPrefix ==
  ASSUME seq \in Nat, tokens \in Seq(Vocab), Len(tokens) <= seq
  PROVE  Attended = [ pos \in 0 .. Len(tokens) - 1 |->
                        { <<seq - Len(tokens) + p, Entry(p, tokens[p + 1])>> : p \in 0 .. pos } ]
<1>1. SUFFICES ASSUME NEW pos \in 0 .. Len(tokens) - 1
               PROVE  { <<col, Row(col)>> :
                          col \in { c \in 0 .. seq - 1 : <<PadRows + pos, c>> \in Mask } }
                      = { <<seq - Len(tokens) + p, Entry(p, tokens[p + 1])>> : p \in 0 .. pos }
  BY DEF Attended
<1>2. Len(tokens) \in Nat /\ PadRows = seq - Len(tokens)
  BY DEF PadRows
<1>3. { c \in 0 .. seq - 1 : <<PadRows + pos, c>> \in Mask } = { PadRows + p : p \in 0 .. pos }
  <2>1. \A c \in 0 .. seq - 1 :
          <<PadRows + pos, c>> \in Mask <=> PadRows <= c /\ c <= PadRows + pos
    BY <1>2, MaskOfRealRows DEF Mask
  <2>2. \A c \in 0 .. seq - 1 :
          PadRows <= c /\ c <= PadRows + pos => c - PadRows \in 0 .. pos /\ c = PadRows + (c - PadRows)
    BY <1>2
  <2>3. \A p \in 0 .. pos : /\ PadRows + p \in 0 .. seq - 1
                            /\ PadRows <= PadRows + p /\ PadRows + p <= PadRows + pos
    BY <1>2
  <2>. QED BY <2>1, <2>2, <2>3
<1>4. \A p \in 0 .. pos : Row(PadRows + p) = Entry(p, tokens[p + 1])
  <2>. SUFFICES ASSUME NEW p \in 0 .. pos PROVE Row(PadRows + p) = Entry(p, tokens[p + 1])
    OBVIOUS
  <2>1. ~ (PadRows + p < PadRows) /\ (PadRows + p) - PadRows = p
    BY <1>2
  <2>. QED BY <2>1 DEF Row
<1>5. { <<col, Row(col)>> : col \in { PadRows + p : p \in 0 .. pos } }
        = { <<PadRows + p, Row(PadRows + p)>> : p \in 0 .. pos }
  OBVIOUS
<1>6. { <<PadRows + p, Row(PadRows + p)>> : p \in 0 .. pos }
        = { <<seq - Len(tokens) + p, Entry(p, tokens[p + 1])>> : p \in 0 .. pos }
  BY <1>2, <1>4
<1>. QED BY <1>3, <1>5, <1>6

-----------------------------------------------------------------------------

(* The invariant holds initially. *)
LEMMA InitInv == Init => IInv
<1>. SUFFICES ASSUME Init PROVE IInv
  OBVIOUS
<1>1. tokens \in Seq(Vocab) /\ Len(tokens) >= 1
  BY PromptsAssumption DEF Init
<1>. QED BY <1>1 DEF Init, IInv, TypeOK, CountInv, AttendedInv

(* A turn of the loop. *)
LEMMA GenerateKeepsInv == IInv /\ Generate => IInv'
<1>. SUFFICES ASSUME IInv, Generate PROVE IInv'
  OBVIOUS
<1>1. seq \in Nat /\ tokens \in Seq(Vocab) /\ Len(tokens) \in Nat /\ Len(tokens) >= 1
      /\ maxNew \in Nat /\ step \in Nat /\ seq' = seq /\ maxNew' = maxNew /\ step' = step + 1
  BY SizesAssumption DEF IInv, TypeOK, CountInv, Generate
<1>2. Len(tokens) + maxNew = seq + step /\ step < maxNew
  BY DEF IInv, CountInv, Generate
<1>3. PICK tok \in Vocab : /\ tokens' = Append(tokens, tok)
                           /\ pc' = IF tok = Eos THEN "done" ELSE "loop"
  BY DEF Generate
<1>4. /\ tokens' \in Seq(Vocab) /\ Len(tokens') = Len(tokens) + 1
      /\ tokens'[Len(tokens')] = tok
      /\ \A i \in 1 .. Len(tokens) : tokens'[i] = tokens[i]
  BY <1>1, <1>3
<1>5. attended' = [pos \in 0 .. Len(tokens') - 2 |-> SeenUpTo(pos)']
  <2>1. attended' = [ pos \in 0 .. Len(tokens) - 1 |->
                        { <<seq - Len(tokens) + p, Entry(p, tokens[p + 1])>> : p \in 0 .. pos } ]
    BY <1>1, <1>2, RunSeesPrefix DEF Generate
  <2>2. ASSUME NEW pos \in 0 .. Len(tokens) - 1
        PROVE  SeenUpTo(pos)' =
                 { <<seq - Len(tokens) + p, Entry(p, tokens[p + 1])>> : p \in 0 .. pos }
    <3>1. \A p \in 0 .. pos : tokens'[p + 1] = tokens[p + 1]
      BY <1>1, <1>4
    <3>2. Len(tokens') - 1 = Len(tokens)
      BY <1>1, <1>4
    <3>. QED BY <1>1, <3>1, <3>2 DEF SeenUpTo, Columns
  <2>3. Len(tokens') - 2 = Len(tokens) - 1
    BY <1>1, <1>4
  <2>. QED BY <2>1, <2>2, <2>3
<1>6. TypeOK'
  BY <1>1, <1>3, <1>4, <1>5 DEF IInv, TypeOK
<1>7. CountInv'
  BY <1>1, <1>2, <1>3, <1>4 DEF CountInv
<1>8. AttendedInv'
  BY <1>1, <1>4, <1>5 DEF AttendedInv
<1>. QED BY <1>6, <1>7, <1>8 DEF IInv

(* Every other step leaves the tokens and the latest run alone. *)
LEMMA OtherStepsKeepInv == IInv /\ (Start \/ RunRaises \/ Exhausted \/ UNCHANGED vars) => IInv'
<1>. SUFFICES ASSUME IInv, Start \/ RunRaises \/ Exhausted \/ UNCHANGED vars PROVE IInv'
  OBVIOUS
<1>1. seq \in Nat /\ Len(tokens) \in Nat /\ maxNew \in Nat /\ step \in Nat
  BY SizesAssumption DEF IInv, TypeOK
<1>2. UNCHANGED <<seq, tokens, step, attended>>
  BY DEF Start, RunRaises, Exhausted, vars
<1>3. AttendedInv'
  BY <1>2 DEF IInv, AttendedInv, SeenUpTo
<1>4. CASE Start
  BY <1>1, <1>2, <1>3, <1>4 DEF Start, IInv, TypeOK, CountInv
<1>5. CASE RunRaises \/ Exhausted
  BY <1>1, <1>2, <1>3, <1>5 DEF RunRaises, Exhausted, IInv, TypeOK, CountInv
<1>6. CASE UNCHANGED vars
  BY <1>3, <1>6 DEF vars, IInv, TypeOK, CountInv
<1>. QED BY <1>4, <1>5, <1>6

(* The invariant holds always. *)
LEMMA InvHolds == Spec => []IInv
<1>1. IInv /\ [Next]_vars => IInv'
  BY GenerateKeepsInv, OtherStepsKeepInv DEF Next
<1>. QED BY <1>1, InitInv, PTL DEF Spec

-----------------------------------------------------------------------------

(* The state of main() keeps its types.                                    *)
THEOREM TypeCorrectness == Spec => []TypeOK
<1>1. IInv => TypeOK
  BY DEF IInv
<1>. QED BY <1>1, InvHolds, PTL

(* The loop, whose number of steps is fixed before it starts, ends at the  *)
(* end-of-sequence token or with every row in use.                         *)
THEOREM StopsInTime == Spec => []StopsAtEosOrFull
<1>1. IInv => StopsAtEosOrFull
  BY DEF IInv, CountInv, StopsAtEosOrFull
<1>. QED BY <1>1, InvHolds, PTL

(* With the layout right-aligned under padding, every real row sees the    *)
(* real tokens up to itself, each once, and no padding row.                *)
THEOREM RealRowsAreExact == Spec => []RealRowsExact
<1>1. ASSUME IInv PROVE RealRowsExact
  <2>. SUFFICES ASSUME NEW pos \in DOMAIN attended
                PROVE  /\ { seen[2] : seen \in attended[pos] }
                            = { Entry(p, tokens[p + 1]) : p \in 0 .. pos }
                       /\ \A a, b \in attended[pos] : a[2] = b[2] => a[1] = b[1]
    BY DEF RealRowsExact
  <2>1. attended[pos] = SeenUpTo(pos)
    BY <1>1 DEF IInv, TypeOK, AttendedInv
  <2>2. { seen[2] : seen \in SeenUpTo(pos) } = { Entry(p, tokens[p + 1]) : p \in 0 .. pos }
    BY EntriesOfPairs DEF SeenUpTo
  <2>3. \A a, b \in SeenUpTo(pos) : a[2] = b[2] => a[1] = b[1]
    BY DEF SeenUpTo, Columns, Entry
  <2>. QED BY <2>1, <2>2, <2>3
<1>. QED BY <1>1, InvHolds, PTL

(* Running everything again for each token is plain generation: the loop   *)
(* implements Decoder.                                                     *)
THEOREM BaseScopeImplementsDecoder == Spec => ImplementsDecoder
<1>1. Init => Promise!Init
  BY DEF Init, Promise!Init
<1>2. IInv /\ IInv' /\ [Next]_vars => [Promise!Next]_(Promise!vars)
  <2>. SUFFICES ASSUME IInv, IInv', [Next]_vars PROVE [Promise!Next]_(Promise!vars)
    OBVIOUS
  <2>1. CASE Generate
    <3>1. Len(tokens) \in Nat /\ step' > 0 /\ step \in Nat
      BY <2>1 DEF IInv, TypeOK, Generate
    <3>2. PICK tok \in Vocab : /\ tokens' = Append(tokens, tok)
                               /\ pc' = IF tok = Eos THEN "done" ELSE "loop"
      BY <2>1 DEF Generate
    <3>3. Len(tokens') - 2 = Len(tokens) - 1 /\ Len(tokens') >= 2
          /\ \A p \in 0 .. Len(tokens) - 1 : tokens'[p + 1] = tokens[p + 1]
      BY <3>1, <3>2 DEF IInv, TypeOK, CountInv, AttendedInv
    <3>4. { seen[2] : seen \in attended'[Len(tokens') - 2] } = Promise!Prefix(tokens)
      <4>1. ASSUME NEW n, n = Len(tokens) - 1
            PROVE  { seen[2] : seen \in attended'[n] } = { Entry(p, tokens[p + 1]) : p \in 0 .. n }
        <5>1. attended'[n] = SeenUpTo(n)'
          BY <3>1, <3>3, <4>1 DEF IInv, AttendedInv
        <5>2. { seen[2] : seen \in SeenUpTo(n)' } = { Entry(p, tokens'[p + 1]) : p \in 0 .. n }
          BY EntriesOfPairs DEF SeenUpTo
        <5>3. { Entry(p, tokens'[p + 1]) : p \in 0 .. n } = { Entry(p, tokens[p + 1]) : p \in 0 .. n }
          BY <3>3, <4>1
        <5>. QED BY <5>1, <5>2, <5>3
      <4>2. { seen[2] : seen \in attended'[Len(tokens') - 2] }
              = { Entry(p, tokens[p + 1]) : p \in 0 .. Len(tokens) - 1 }
        BY <3>3, <4>1
      <4>3. { Entry(p, tokens[p + 1]) : p \in 0 .. Len(tokens) - 1 }
              = { Entry(i - 1, tokens[i]) : i \in 1 .. Len(tokens) }
        <5>1. \A p \in 0 .. Len(tokens) - 1 : p + 1 \in 1 .. Len(tokens) /\ (p + 1) - 1 = p
          BY <3>1
        <5>2. \A i \in 1 .. Len(tokens) : i - 1 \in 0 .. Len(tokens) - 1 /\ (i - 1) + 1 = i
          BY <3>1
        <5>. QED BY <5>1, <5>2
      <4>. QED BY <4>2, <4>3 DEF Promise!Prefix, Promise!Entry, Entry
    <3>5. Promise!Emit
      BY <2>1, <3>1, <3>2, <3>4 DEF Promise!Emit, Generate
    <3>. QED BY <3>5 DEF Promise!Next
  <2>2. CASE Start \/ RunRaises \/ Exhausted
    <3>1. UNCHANGED <<tokens, step, attended>>
      BY <2>2 DEF Start, RunRaises, Exhausted
    <3>2. CASE pc' = "loop"
      BY <2>2, <3>1, <3>2 DEF Start, RunRaises, Exhausted, Promise!vars
    <3>3. CASE pc' # "loop"
      <4>1. pc \in {"start", "loop"} /\ pc' \in {"rejected", "raised", "done"}
        BY <2>2, <3>3 DEF Start, RunRaises, Exhausted
      <4>. QED BY <3>1, <4>1 DEF Promise!Halt, Promise!Next
    <3>. QED BY <3>2, <3>3
  <2>3. CASE UNCHANGED vars
    BY <2>3 DEF vars, Promise!vars
  <2>. QED BY <2>1, <2>2, <2>3 DEF Next
<1>. QED BY <1>1, <1>2, InvHolds, PTL DEF Spec, ImplementsDecoder, Promise!Spec
=============================================================================
