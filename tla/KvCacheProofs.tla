--------------------------- MODULE KvCacheProofs ---------------------------
(***************************************************************************)
(* For every cache size, prompt length and number of new tokens: KvCache   *)
(* keeps its types, every row attends to exactly the context before it,    *)
(* and no run takes the slot of a token still needed.                      *)
(***************************************************************************)
EXTENDS CacheLayout, TLAPS

-----------------------------------------------------------------------------
(* The inductive invariant.  Host and device count the tokens in the cache *)
(* separately (the mask's usage, the ring's read offset): it ties both to  *)
(* the number of tokens generated so far.                                  *)

(* Positions whose K/V the ring holds. *)
Cached ==
  IF generated = << >> THEN 0 ELSE args.prefill + Len(generated) - 1

(* Past the assertions of main() there is room for every run to come. *)
RoomInv ==
  /\ pc \notin {"start", "rejected"} => ArgsFit
  /\ pc \in {"start", "rejected", "prefill"} => generated = << >>
  /\ pc \in {"loop", "done"} => generated # << >>
  /\ Len(generated) <= 1 \/ Len(generated) <= args.newTokens

(* The context lies in the ring in order, from slot 0 on. *)
RingInv ==
  \A j \in 0 .. args.seq - 1 :
    ring[j] = IF j < Cached THEN Entry(j, TokenAt(j)) ELSE Unwritten

(* The read offset is the end of the context, a run's rows included once   *)
(* the host has advanced it. *)
OffsetInv ==
  /\ pc \notin {"infer", "raised"} => offset = Slot(Cached)
  /\ pc = "infer" => offset = Slot(Cached + req.rows)

(* The run being made is the prefill or the next turn of the loop. *)
RequestInv ==
  pc \in {"advance", "infer"} =>
    \/ /\ generated = << >>
       /\ req = Request(0, prompt, BuildMask(args.prefill, args.prefill, args.seq))
    \/ /\ generated # << >>
       /\ MoreSteps
       /\ req = Request(TbtPosition, << generated[Len(generated)] >>, TbtMask)

AttendedInv == DOMAIN attended = 0 .. Cached - 1

IInv ==
  TypeOK /\ RoomInv /\ RingInv /\ OffsetInv /\ RequestInv /\ AttendedInv /\ AttentionExact

-----------------------------------------------------------------------------
(* Facts about the constants, and about one run. *)

(* The command line has its types: the sizes are counts and the prompt is  *)
(* a non-empty sequence of tokens.                                         *)
LEMMA CliTypes ==
  ASSUME TypeOK
  PROVE  /\ args.seq \in Nat /\ args.prefill \in Nat /\ args.newTokens \in Nat
         /\ args.maskMode \in MaskModes
         /\ prompt \in Seq(Vocab) /\ Len(prompt) >= 1
BY ArgsAssumption, PromptsAssumption DEF TypeOK

(* build_mask, for a cache that already holds usage - n tokens besides the *)
(* n rows of the run: row i sees the columns from the first used one up to *)
(* its own, and no other.                                                  *)
THEOREM MaskIsCausal ==
  ASSUME NEW n \in Nat, NEW usage \in Nat, NEW cacheSize \in Nat,
         1 <= n, n <= usage, usage <= cacheSize
  PROVE  BuildMask(n, usage, cacheSize) =
           { cell \in (0 .. n - 1) \X (0 .. cacheSize - 1) :
               cacheSize - usage <= cell[2] /\ cell[2] <= cacheSize - n + cell[1] }
<1>1. Larger(n - usage, 0) = 0 /\ Smaller(usage, n) = n
  BY DEF Larger, Smaller
<1>2. ASSUME NEW cell \in (0 .. n - 1) \X (0 .. cacheSize - 1)
      PROVE  cell \in BuildMask(n, usage, cacheSize) <=>
               cacheSize - usage <= cell[2] /\ cell[2] <= cacheSize - n + cell[1]
  BY <1>1, <1>2 DEF BuildMask
<1>3. BuildMask(n, usage, cacheSize) \subseteq (0 .. n - 1) \X (0 .. cacheSize - 1)
  BY DEF BuildMask
<1>4. QED
  BY <1>2, <1>3

(* What a run is made with, whichever group it goes to. *)
LEMMA RunInputs ==
  ASSUME IInv, pc \in {"advance", "infer"}
  PROVE  /\ req.first = Cached /\ Cached \in Nat
         /\ req.rows \in Nat /\ 1 <= req.rows /\ Cached + req.rows <= args.seq
         /\ \A row \in Rows : Fresh(row) = Entry(Cached + row, TokenAt(Cached + row))
         /\ \A row \in Rows :
              Columns(row) =
                IF args.maskMode = "self" /\ generated # << >>
                THEN {args.seq - 1}
                ELSE { col \in 0 .. args.seq - 1 :
                         /\ args.seq - (Cached + req.rows) <= col
                         /\ col <= args.seq - req.rows + row }
<1>1. ArgsFit
  BY DEF IInv, RoomInv
<1>2. CASE generated = << >>
  <2>1. req = Request(0, prompt, BuildMask(args.prefill, args.prefill, args.seq))
    BY <1>2 DEF IInv, RequestInv
  <2>2. /\ req.first = 0 /\ req.rows = args.prefill /\ req.toks = prompt
        /\ req.mask = BuildMask(args.prefill, args.prefill, args.seq)
    BY <1>1, <2>1 DEF Request, ArgsFit
  <2>3. args.prefill >= 1 /\ args.prefill <= args.seq
    BY <1>1, CliTypes DEF IInv, ArgsFit
  <2>4. req.mask = { cell \in (0 .. args.prefill - 1) \X (0 .. args.seq - 1) :
                       /\ args.seq - args.prefill <= cell[2]
                       /\ cell[2] <= args.seq - args.prefill + cell[1] }
    BY <2>2, <2>3, MaskIsCausal, CliTypes DEF IInv
  <2>5. Cached = 0
    BY <1>2 DEF Cached
  <2>6. ASSUME NEW row \in Rows
        PROVE  Columns(row) = { col \in 0 .. args.seq - 1 :
                                 /\ args.seq - args.prefill <= col
                                 /\ col <= args.seq - args.prefill + row }
    <3>1. row \in 0 .. args.prefill - 1
      BY <2>2, <2>6 DEF Rows
    <3>2. QED
      BY <2>4, <3>1, CliTypes DEF Columns, IInv
  <2>7. \A row \in Rows : Fresh(row) = Entry(Cached + row, TokenAt(Cached + row))
    BY <2>2, <2>5, CliTypes DEF Rows, Fresh, TokenAt, IInv
  <2>8. QED
    BY <1>2, <2>2, <2>3, <2>5, <2>6, <2>7, CliTypes DEF IInv
<1>3. CASE generated # << >>
  <2>1. /\ MoreSteps
        /\ req = Request(TbtPosition, << generated[Len(generated)] >>, TbtMask)
    BY <1>3 DEF IInv, RequestInv
  <2>2. /\ req.first = TbtPosition /\ req.rows = 1
        /\ req.toks = << generated[Len(generated)] >> /\ req.mask = TbtMask
    BY <2>1 DEF Request
  <2>3. Len(generated) \in Nat /\ Len(generated) >= 1
    BY <1>3 DEF IInv, TypeOK
  <2>4. /\ Cached = TbtPosition /\ Cached \in Nat /\ Cached >= 1
        /\ Cached + 1 <= args.seq
    BY <1>1, <1>3, <2>1, <2>3, CliTypes DEF Cached, TbtPosition, MoreSteps, ArgsFit, IInv
  <2>5. \A row \in Rows : Fresh(row) = Entry(Cached + row, TokenAt(Cached + row))
    <3>1. Rows = {0}
      BY <2>2 DEF Rows
    <3>2. TokenAt(Cached) = generated[Len(generated)]
      BY <2>3, <2>4, CliTypes DEF TokenAt, TbtPosition, IInv
    <3>3. QED
      BY <2>2, <2>4, <3>1, <3>2 DEF Fresh
  <2>6. CASE args.maskMode = "self"
    <3>1. \A row \in Rows : Columns(row) = {args.seq - 1}
      BY <2>2, <2>4, <2>6, CliTypes DEF TbtMask, SelfMask, Columns, Rows, IInv
    <3>2. QED
      BY <1>3, <2>2, <2>4, <2>5, <2>6, <3>1
  <2>7. CASE args.maskMode = "cache"
    <3>1. req.mask = { cell \in (0 .. 0) \X (0 .. args.seq - 1) :
                         /\ args.seq - (Cached + 1) <= cell[2]
                         /\ cell[2] <= args.seq - 1 + cell[1] }
      BY <2>2, <2>4, <2>7, MaskIsCausal, CliTypes, SMTT(30) DEF TbtMask, IInv
    <3>2. \A row \in Rows : Columns(row) =
            { col \in 0 .. args.seq - 1 :
                /\ args.seq - (Cached + req.rows) <= col
                /\ col <= args.seq - req.rows + row }
      BY <2>2, <2>4, <3>1, CliTypes DEF Columns, Rows, IInv
    <3>3. QED
      BY <1>3, <2>2, <2>4, <2>5, <2>7, <3>2
  <2>8. QED
    BY <2>6, <2>7, CliTypes DEF MaskModes, IInv
<1>4. QED
  BY <1>2, <1>3

-----------------------------------------------------------------------------
(* Where a run reads and writes.  The advanced offset puts the context at  *)
(* the right end of the window, and the run's own rows right after it in   *)
(* the ring.                                                               *)

(* The columns of the window that end it hold the context in order, the    *)
(* run's own rows included.                                                *)
LEMMA WindowHoldsContext ==
  ASSUME IInv, pc = "infer"
  PROVE  \A pos \in 0 .. Cached + req.rows - 1 :
           Window(args.seq - (Cached + req.rows) + pos) = Entry(pos, TokenAt(pos))
<1> DEFINE used == Cached + req.rows
<1>1. /\ Cached \in Nat /\ req.rows \in Nat /\ 1 <= req.rows /\ used <= args.seq
      /\ args.seq \in Nat
  BY RunInputs, CliTypes DEF IInv
<1>2. offset = Slot(used)
  BY DEF IInv, OffsetInv
<1>3. TAKE pos \in 0 .. Cached + req.rows - 1
<1>4. CASE pos < Cached
  <2>1. Window(args.seq - used + pos) = ring[Slot(offset + (args.seq - used + pos))]
    BY <1>1, <1>4 DEF Window
  <2>2. Slot(offset + (args.seq - used + pos)) = pos
    BY <1>1, <1>2, <1>4 DEF Slot
  <2>3. ring[pos] = Entry(pos, TokenAt(pos))
    BY <1>1, <1>4 DEF IInv, RingInv
  <2>4. QED
    BY <2>1, <2>2, <2>3
<1>5. CASE pos >= Cached
  <2>1. Window(args.seq - used + pos) = Fresh(pos - Cached)
    BY <1>1, <1>5 DEF Window
  <2>2. pos - Cached \in Rows /\ Cached + (pos - Cached) = pos
    BY <1>1, <1>5 DEF Rows
  <2>3. Fresh(pos - Cached) = Entry(Cached + (pos - Cached), TokenAt(Cached + (pos - Cached)))
    BY <2>2, RunInputs
  <2>4. QED
    BY <2>1, <2>2, <2>3
<1>6. QED
  BY <1>1, <1>4, <1>5

(* After a run the ring holds the context up to the run's last row, in     *)
(* order from slot 0 on, and nothing else.                                 *)
LEMMA RunWritesBehindContext ==
  ASSUME IInv, pc = "infer"
  PROVE  \A j \in 0 .. args.seq - 1 :
           Stored[j] = IF j < Cached + req.rows THEN Entry(j, TokenAt(j)) ELSE Unwritten
<1> DEFINE used == Cached + req.rows
           at(row) == Slot(offset + (args.seq - req.rows) + row)
<1>1. /\ Cached \in Nat /\ req.rows \in Nat /\ 1 <= req.rows /\ used <= args.seq
      /\ args.seq \in Nat
  BY RunInputs, CliTypes DEF IInv
<1>2. offset = Slot(used)
  BY DEF IInv, OffsetInv
<1>3. \A row \in Rows : at(row) = Cached + row
  BY <1>1, <1>2 DEF Slot, Rows
<1>4. DOMAIN ring = 0 .. args.seq - 1
  BY DEF IInv, TypeOK
<1>5. TAKE j \in 0 .. args.seq - 1
<1>6. Stored[j] = IF \E row \in Rows : j = at(row)
                  THEN Fresh(CHOOSE row \in Rows : j = at(row)) ELSE ring[j]
  BY <1>4 DEF Stored
<1>7. CASE \E row \in Rows : j = at(row)
  <2>1. PICK row \in Rows : row = CHOOSE r \in Rows : j = at(r)
    BY <1>7
  <2>2. j = at(row)
    BY <1>7, <2>1
  <2>3. j = Cached + row /\ j < used
    BY <1>1, <1>3, <2>2 DEF Rows
  <2>4. Fresh(row) = Entry(Cached + row, TokenAt(Cached + row))
    BY RunInputs
  <2>5. QED
    BY <1>6, <1>7, <2>1, <2>3, <2>4
<1>8. CASE ~ \E row \in Rows : j = at(row)
  <2>1. ~(Cached <= j /\ j < used)
    <3>1. SUFFICES ASSUME Cached <= j, j < used PROVE FALSE
      OBVIOUS
    <3>2. j - Cached \in Rows /\ Cached + (j - Cached) = j
      BY <1>1, <3>1 DEF Rows
    <3>3. QED
      BY <1>3, <1>8, <3>2
  <2>2. ring[j] = IF j < Cached THEN Entry(j, TokenAt(j)) ELSE Unwritten
    BY DEF IInv, RingInv
  <2>3. QED
    BY <1>1, <1>6, <1>8, <2>1, <2>2
<1>9. QED
  BY <1>7, <1>8

(* A row of a run attends to what its position is due, each entry once.    *)
LEMMA RunAttendsContext ==
  ASSUME IInv, pc = "infer", NEW row \in Rows
  PROVE  /\ { Window(col) : col \in Columns(row) } = Due(Cached + row)
         /\ \A a, b \in Columns(row) : Window(a) = Window(b) => a = b
<1> DEFINE used == Cached + req.rows
           colOf(at) == args.seq - used + at
<1>1. /\ Cached \in Nat /\ req.rows \in Nat /\ 1 <= req.rows /\ used <= args.seq
      /\ args.seq \in Nat /\ args.prefill \in Nat /\ row \in 0 .. req.rows - 1
  BY RunInputs, CliTypes DEF IInv, Rows
<1>2. \A pos \in 0 .. used - 1 : Window(colOf(pos)) = Entry(pos, TokenAt(pos))
  BY <1>1, WindowHoldsContext
<1>3. ASSUME NEW p, NEW q, Entry(p, TokenAt(p)) = Entry(q, TokenAt(q))
      PROVE  p = q
  <2>1. Entry(p, TokenAt(p)).pos = p /\ Entry(q, TokenAt(q)).pos = q
    BY DEF Entry
  <2>2. QED
    BY <1>3, <2>1
<1>4. Len(generated) \in Nat /\ (generated # << >> => Len(generated) >= 1)
  BY DEF IInv, TypeOK
<1>5. CASE args.maskMode = "self" /\ generated # << >>
  <2>1. Columns(row) = {args.seq - 1}
    BY <1>5, RunInputs
  <2>2. req.rows = 1 /\ row = 0 /\ Cached >= args.prefill
    <3>1. req = Request(TbtPosition, << generated[Len(generated)] >>, TbtMask)
      BY <1>5 DEF IInv, RequestInv
    <3>2. req.rows = 1
      BY <3>1 DEF Request
    <3>3. QED
      BY <1>1, <1>4, <1>5, <3>2 DEF Cached
  <2>3. colOf(Cached) = args.seq - 1 /\ Cached \in 0 .. used - 1
    BY <1>1, <2>2
  <2>4. Due(Cached + row) = {Entry(Cached, TokenAt(Cached))}
    BY <1>1, <1>5, <2>2 DEF Due
  <2>5. QED
    BY <1>2, <2>1, <2>3, <2>4
<1>6. CASE ~(args.maskMode = "self" /\ generated # << >>)
  <2>1. Columns(row) = { col \in 0 .. args.seq - 1 :
                           args.seq - used <= col /\ col <= args.seq - req.rows + row }
    BY <1>6, RunInputs
  <2>2. \A col \in Columns(row) : \E pos \in 0 .. Cached + row : col = colOf(pos)
    <3>1. ASSUME NEW col \in Columns(row)
          PROVE  /\ col - (args.seq - used) \in 0 .. Cached + row
                 /\ col = colOf(col - (args.seq - used))
      BY <1>1, <2>1
    <3>2. QED
      BY <3>1
  <2>3. \A pos \in 0 .. Cached + row : colOf(pos) \in Columns(row) /\ pos \in 0 .. used - 1
    BY <1>1, <2>1
  <2>4. Due(Cached + row) = { Entry(pos, TokenAt(pos)) : pos \in 0 .. Cached + row }
    <3>1. generated = << >> => Cached + row < args.prefill
      BY <1>1 DEF Cached, IInv, RequestInv, Request, RoomInv, ArgsFit
    <3>2. QED
      BY <1>1, <1>6, <3>1 DEF Due
  <2>5. { Window(col) : col \in Columns(row) } = Due(Cached + row)
    BY <1>2, <2>2, <2>3, <2>4
  <2>6. ASSUME NEW a \in Columns(row), NEW b \in Columns(row), Window(a) = Window(b)
        PROVE  a = b
    <3>1. PICK p \in 0 .. Cached + row : a = colOf(p)
      BY <2>2
    <3>2. PICK q \in 0 .. Cached + row : b = colOf(q)
      BY <2>2
    <3>3. p = q
      BY <1>2, <1>3, <2>3, <2>6, <3>1, <3>2
    <3>4. QED
      BY <3>1, <3>2, <3>3
  <2>7. QED
    BY <2>5, <2>6
<1>7. QED
  BY <1>5, <1>6

-----------------------------------------------------------------------------
(* The step that runs the network, conjunct by conjunct of IInv. *)

(* A new token leaves the tokens of the context alone. *)
LEMMA TokensKept ==
  ASSUME IInv, pc = "infer", Infer
  PROVE  /\ Cached' = Cached + req.rows
         /\ \A pos \in 0 .. Cached + req.rows - 1 : TokenAt(pos)' = TokenAt(pos)
<1>1. PICK tok \in Vocab : generated' = Append(generated, tok)
  BY DEF Infer
<1>2. generated \in Seq(Vocab) /\ args' = args /\ prompt' = prompt
  BY DEF Infer, cli, IInv, TypeOK
<1>3. /\ generated' # << >> /\ Len(generated') = Len(generated) + 1
      /\ \A k \in 1 .. Len(generated) : generated'[k] = generated[k]
  BY <1>1, <1>2
<1>4. /\ generated = << >> => Len(generated) = 0 /\ req.rows = args.prefill
      /\ generated # << >> => req.rows = 1
  BY <1>2 DEF IInv, RequestInv, Request, RoomInv, ArgsFit
<1>5. Cached' = Cached + req.rows
  BY <1>2, <1>3, <1>4, CliTypes DEF Cached, IInv
<1>6. ASSUME NEW pos \in 0 .. Cached + req.rows - 1
      PROVE  TokenAt(pos)' = TokenAt(pos)
  <2>1. CASE pos < args.prefill
    BY <1>2, <2>1 DEF TokenAt
  <2>2. CASE ~(pos < args.prefill)
    <3>1. pos - args.prefill + 1 \in 1 .. Len(generated)
      BY <1>2, <1>4, <1>6, <2>2, CliTypes DEF Cached, IInv
    <3>2. QED
      BY <1>2, <1>3, <2>2, <3>1 DEF TokenAt
  <2>3. QED
    BY <2>1, <2>2
<1>7. QED
  BY <1>5, <1>6

(* Every position whose K/V is cached has a token of the vocabulary.       *)
LEMMA CachedTokens ==
  ASSUME IInv, NEW pos \in Nat, pos < Cached
  PROVE  TokenAt(pos) \in Vocab
<1>1. /\ args.prefill \in Nat /\ prompt \in Seq(Vocab) /\ generated \in Seq(Vocab)
      /\ Len(generated) \in Nat /\ generated # << >> /\ Cached = args.prefill + Len(generated) - 1
  BY CliTypes DEF IInv, TypeOK, Cached
<1>2. Len(prompt) = args.prefill
  BY <1>1 DEF IInv, RoomInv, ArgsFit
<1>3. CASE pos < args.prefill
  <2>1. pos + 1 \in 1 .. Len(prompt)
    BY <1>1, <1>2, <1>3
  <2>2. QED
    BY <1>1, <1>3, <2>1 DEF TokenAt
<1>4. CASE ~(pos < args.prefill)
  <2>1. (pos - args.prefill) + 1 \in 1 .. Len(generated)
    BY <1>1, <1>4
  <2>2. QED
    BY <1>1, <1>4, <2>1 DEF TokenAt
<1>5. QED
  BY <1>3, <1>4

(* A run keeps the types.                                                  *)
LEMMA InferType ==
  ASSUME IInv, pc = "infer", Infer
  PROVE  TypeOK'
<1>1. PICK tok \in Vocab : generated' = Append(generated, tok)
  BY DEF Infer
<1>2. /\ TypeOK /\ args' = args /\ prompt' = prompt /\ req' = req /\ offset' = offset
      /\ pc' = "loop" /\ ring' = Stored /\ attended' = Attended
  BY DEF Infer, cli, IInv
<1>3. /\ Cached \in Nat /\ req.first = Cached /\ req.rows \in Nat /\ req.rows >= 1
      /\ Cached + req.rows <= args.seq /\ args.seq \in Nat
  BY RunInputs, CliTypes, <1>2
<1>4. \A row \in Rows : Fresh(row) \in Entries
  BY <1>2, <1>3 DEF TypeOK, Requests, Rows, Fresh, Entry, Entries
<1>5. \A pos \in 0 .. Cached + req.rows - 1 : Entry(pos, TokenAt(pos)) \in Entries
  <2>1. ASSUME NEW pos \in 0 .. Cached + req.rows - 1
        PROVE  Entry(pos, TokenAt(pos)) \in Entries
    <3>1. CASE pos < Cached
      <4>1. pos \in 0 .. args.seq - 1
        BY <1>3, <3>1
      <4>2. ring[pos] = Entry(pos, TokenAt(pos))
        BY <4>1, <3>1 DEF IInv, RingInv
      <4>3. ring[pos] \in Entries \cup {Unwritten}
        BY <1>2, <4>1 DEF TypeOK
      <4>4. TokenAt(pos) \in Vocab
        BY <1>3, <2>1, <3>1, CachedTokens
      <4>5. QED
        BY <2>1, <4>4, <1>3 DEF Entry, Entries
    <3>2. CASE ~(pos < Cached)
      <4>1. pos - Cached \in Rows /\ Cached + (pos - Cached) = pos
        BY <1>3, <2>1, <3>2 DEF Rows
      <4>2. Fresh(pos - Cached) = Entry(Cached + (pos - Cached), TokenAt(Cached + (pos - Cached)))
        BY <4>1, RunInputs
      <4>3. QED
        BY <1>4, <4>1, <4>2
    <3>3. QED
      BY <3>1, <3>2
  <2>2. QED
    BY <2>1
<1>6. ring' \in [0 .. args.seq - 1 -> Entries \cup {Unwritten}]
  <2>1. DOMAIN Stored = 0 .. args.seq - 1 /\ Stored = [j \in 0 .. args.seq - 1 |-> Stored[j]]
    BY <1>2 DEF TypeOK, Stored
  <2>2. \A j \in 0 .. args.seq - 1 : Stored[j] \in Entries \cup {Unwritten}
    BY <1>3, <1>5, RunWritesBehindContext
  <2>3. QED
    BY <1>2, <2>1, <2>2
<1>7. attended' \in [DOMAIN attended' -> SUBSET (Nat \X (Entries \cup {Unwritten}))]
  <2>1. \A col \in 0 .. args.seq - 1 : Window(col) \in Entries \cup {Unwritten}
    <3>1. ASSUME NEW col \in 0 .. args.seq - 1
          PROVE  Window(col) \in Entries \cup {Unwritten}
      <4>1. CASE col < args.seq - req.rows
        <5>1. offset = Slot(Cached + req.rows)
          BY DEF IInv, OffsetInv
        <5>2. Slot(offset + col) \in 0 .. args.seq - 1
          BY <1>3, <3>1, <4>1, <5>1 DEF Slot
        <5>3. QED
          BY <1>2, <4>1, <5>2 DEF Window, TypeOK
      <4>2. CASE ~(col < args.seq - req.rows)
        <5>1. col - (args.seq - req.rows) \in Rows
          BY <1>3, <3>1, <4>2 DEF Rows
        <5>2. QED
          BY <1>4, <4>2, <5>1 DEF Window
      <4>3. QED
        BY <4>1, <4>2
    <3>2. QED
      BY <3>1
  <2>2. \A row : Columns(row) \subseteq 0 .. args.seq - 1
    BY DEF Columns
  <2>3. \A row : { <<col, Window(col)>> : col \in Columns(row) }
                   \in SUBSET (Nat \X (Entries \cup {Unwritten}))
    BY <1>3, <2>1, <2>2
  <2>4. \A pos \in DOMAIN attended : attended[pos] \in SUBSET (Nat \X (Entries \cup {Unwritten}))
    BY <1>2 DEF TypeOK
  <2>5. DOMAIN attended = 0 .. Cached - 1
    BY DEF IInv, AttendedInv
  <2>6. \A pos \in DOMAIN Attended : Attended[pos] \in SUBSET (Nat \X (Entries \cup {Unwritten}))
    BY <1>3, <2>3, <2>4, <2>5 DEF Attended
  <2>7. Attended = [pos \in DOMAIN Attended |-> Attended[pos]]
    BY DEF Attended
  <2>8. QED
    BY <1>2, <2>6, <2>7
<1>8. generated' \in Seq(Vocab)
  BY <1>1, <1>2 DEF TypeOK
<1>9. QED
  BY <1>2, <1>6, <1>7, <1>8 DEF TypeOK

(* A run adds the positions of its rows to what was attended, each with    *)
(* what it is due, and takes nothing from the positions before.            *)
LEMMA InferAttends ==
  ASSUME IInv, pc = "infer", Infer
  PROVE  AttendedInv' /\ AttentionExact'
<1> DEFINE used == Cached + req.rows
<1>1. /\ Cached \in Nat /\ req.first = Cached /\ req.rows \in Nat /\ req.rows >= 1
      /\ Cached' = used /\ attended' = Attended /\ args' = args
      /\ DOMAIN attended = 0 .. Cached - 1
  BY RunInputs, TokensKept DEF Infer, cli, IInv, AttendedInv
<1>2. DOMAIN attended' = 0 .. used - 1
  BY <1>1 DEF Attended
<1>3. \A pos \in 0 .. used - 1 : Due(pos)' = Due(pos)
  <2>1. ASSUME NEW pos \in 0 .. used - 1
        PROVE  Due(pos)' = Due(pos)
    <3>1. \A p \in 0 .. pos : TokenAt(p)' = TokenAt(p)
      BY <1>1, <2>1, TokensKept
    <3>2. pos \in 0 .. pos
      BY <2>1
    <3>3. QED
      BY <1>1, <3>1, <3>2 DEF Due
  <2>2. QED
    BY <2>1
<1>4. ASSUME NEW pos \in 0 .. used - 1
      PROVE  /\ { seen[2] : seen \in attended'[pos] } = Due(pos)
             /\ \A a, b \in attended'[pos] : a[2] = b[2] => a[1] = b[1]
  <2>1. CASE pos < Cached
    <3>1. pos \in DOMAIN attended /\ attended'[pos] = attended[pos]
      BY <1>1, <1>4, <2>1 DEF Attended
    <3>2. QED
      BY <3>1 DEF IInv, AttentionExact
  <2>2. CASE ~(pos < Cached)
    <3>1. pos - Cached \in Rows /\ Cached + (pos - Cached) = pos
      BY <1>1, <1>4, <2>2 DEF Rows
    <3>2. attended'[pos] = { <<col, Window(col)>> : col \in Columns(pos - Cached) }
      BY <1>1, <1>4, <2>2 DEF Attended
    <3>3. { Window(col) : col \in Columns(pos - Cached) } = Due(pos)
      BY <3>1, RunAttendsContext
    <3>4. \A a, b \in Columns(pos - Cached) : Window(a) = Window(b) => a = b
      BY <3>1, RunAttendsContext
    <3>5. { seen[2] : seen \in attended'[pos] } = { Window(col) : col \in Columns(pos - Cached) }
      <4>1. \A seen \in attended'[pos] : \E col \in Columns(pos - Cached) : seen[2] = Window(col)
        BY <3>2
      <4>2. \A col \in Columns(pos - Cached) :
              \E seen \in attended'[pos] : seen[2] = Window(col)
        <5>1. ASSUME NEW col \in Columns(pos - Cached)
              PROVE  \E seen \in attended'[pos] : seen[2] = Window(col)
          <6>1. <<col, Window(col)>> \in attended'[pos]
            BY <3>2, <5>1
          <6>2. <<col, Window(col)>>[2] = Window(col)
            OBVIOUS
          <6>3. QED
            BY <6>1, <6>2
        <5>2. QED
          BY <5>1
      <4>3. QED
        BY <4>1, <4>2
    <3>6. \A a, b \in attended'[pos] : a[2] = b[2] => a[1] = b[1]
      BY <3>2, <3>4
    <3>7. QED
      BY <3>3, <3>5, <3>6
  <2>3. QED
    BY <2>1, <2>2
<1>5. QED
  BY <1>1, <1>2, <1>3, <1>4 DEF AttendedInv, AttentionExact

(* A run keeps the inductive invariant.                                    *)
LEMMA InferInv ==
  ASSUME IInv, pc = "infer", Infer
  PROVE  IInv'
<1> DEFINE used == Cached + req.rows
<1>1. PICK tok \in Vocab : generated' = Append(generated, tok)
  BY DEF Infer
<1>2. /\ Cached' = used /\ args' = args /\ prompt' = prompt /\ pc' = "loop"
      /\ ring' = Stored /\ offset' = offset /\ TypeOK
  BY TokensKept DEF Infer, cli, IInv
<1>3. /\ generated' # << >> /\ Len(generated') = Len(generated) + 1
      /\ Len(generated) \in Nat
  BY <1>1, <1>2 DEF TypeOK
<1>4. TypeOK'
  BY InferType
<1>5. RoomInv'
  <2>1. generated = << >> => Len(generated) = 0
    OBVIOUS
  <2>2. generated # << >> => Len(generated) + 1 <= args.newTokens
    BY <1>2, <1>3, CliTypes DEF IInv, RequestInv, MoreSteps
  <2>3. ArgsFit'
    BY <1>2 DEF IInv, RoomInv, ArgsFit
  <2>4. QED
    BY <1>2, <1>3, <2>1, <2>2, <2>3 DEF RoomInv
<1>6. RingInv'
  <2>1. ASSUME NEW j \in 0 .. args.seq - 1
        PROVE  Stored[j] = IF j < used THEN Entry(j, TokenAt(j)') ELSE Unwritten
    <3>1. Stored[j] = IF j < used THEN Entry(j, TokenAt(j)) ELSE Unwritten
      BY RunWritesBehindContext
    <3>2. CASE j < used
      <4>1. j \in 0 .. used - 1
        BY <2>1, <3>2, RunInputs
      <4>2. TokenAt(j)' = TokenAt(j)
        BY <4>1, TokensKept, RunInputs
      <4>3. QED
        BY <3>1, <4>2
    <3>3. QED
      BY <3>1, <3>2
  <2>2. QED
    BY <1>2, <2>1 DEF RingInv
<1>7. OffsetInv'
  BY <1>2 DEF IInv, OffsetInv, Slot
<1>8. RequestInv'
  BY <1>2 DEF RequestInv
<1>9. QED
  BY <1>4, <1>5, <1>6, <1>7, <1>8, InferAttends DEF IInv

-----------------------------------------------------------------------------
(* The other steps leave the ring, the output and what was attended alone. *)

(* A step that leaves the ring, the output and what was attended alone     *)
(* keeps the conjuncts that speak of them.                                 *)
LEMMA QuietStep ==
  ASSUME IInv, UNCHANGED <<cli, ring, generated, attended>>
  PROVE  RingInv' /\ AttendedInv' /\ AttentionExact' /\ Cached' = Cached
<1>1. /\ args' = args /\ prompt' = prompt /\ ring' = ring
      /\ generated' = generated /\ attended' = attended
  BY DEF cli
<1>2. Cached' = Cached /\ \A p : TokenAt(p)' = TokenAt(p)
  BY <1>1 DEF Cached, TokenAt
<1>3. \A p : Due(p)' = Due(p)
  BY <1>1, <1>2 DEF Due
<1>4. QED
  BY <1>1, <1>2, <1>3 DEF IInv, RingInv, AttendedInv, AttentionExact

(* The inductive invariant holds before main() has done anything.          *)
LEMMA InitInv == Init => IInv
<1> SUFFICES ASSUME Init PROVE IInv
  OBVIOUS
<1>1. TypeOK
  <2>1. args.seq \in Nat
    BY ArgsAssumption DEF Init
  <2>2. NoRequest \in Requests /\ NoRequest.rows = Len(NoRequest.toks)
    BY DEF NoRequest, Request, Requests
  <2>3. QED
    BY <2>1, <2>2 DEF Init, TypeOK
<1>2. Cached = 0 /\ args.seq \in Nat
  BY <1>1, CliTypes DEF Init, Cached
<1>3. AttentionExact /\ AttendedInv
  BY <1>2 DEF Init, AttentionExact, AttendedInv
<1>4. RingInv /\ OffsetInv
  BY <1>2 DEF Init, RingInv, OffsetInv, Slot
<1>5. QED
  BY <1>1, <1>3, <1>4 DEF Init, IInv, RoomInv, RequestInv

(* Every step of main() and run() keeps the inductive invariant.           *)
LEMMA StepInv == IInv /\ [Next]_vars => IInv'
<1> SUFFICES ASSUME IInv, [Next]_vars PROVE IInv'
  OBVIOUS
<1>1. TypeOK /\ prompt \in Seq(Vocab) /\ generated \in Seq(Vocab)
  BY CliTypes DEF IInv, TypeOK
<1>2. CASE CheckArgs
  <2>1. RingInv' /\ AttendedInv' /\ AttentionExact' /\ Cached' = Cached
    BY <1>2, QuietStep DEF CheckArgs
  <2>2. TypeOK'
    BY <1>1, <1>2 DEF CheckArgs, TypeOK, cli
  <2>3. RoomInv'
    BY <1>2 DEF CheckArgs, cli, IInv, RoomInv, ArgsFit
  <2>4. OffsetInv' /\ RequestInv'
    BY <1>2, <2>1 DEF CheckArgs, cli, IInv, OffsetInv, RequestInv, Slot
  <2>5. QED
    BY <2>1, <2>2, <2>3, <2>4 DEF IInv
<1>3. CASE Prefill
  <2>1. RingInv' /\ AttendedInv' /\ AttentionExact' /\ Cached' = Cached
    BY <1>3, QuietStep DEF Prefill
  <2>2. ArgsFit /\ generated = << >>
    BY <1>3 DEF Prefill, IInv, RoomInv
  <2>3. TypeOK'
    <3>1. BuildMask(args.prefill, args.prefill, args.seq) \in SUBSET (Nat \X Nat)
      BY <1>1, CliTypes DEF BuildMask
    <3>2. req' \in Requests /\ req'.rows = Len(req'.toks)
      BY <1>1, <1>3, <3>1 DEF Prefill, Request, Requests
    <3>3. QED
      BY <1>1, <1>3, <3>2 DEF Prefill, TypeOK, cli
  <2>4. RoomInv'
    BY <1>3 DEF Prefill, cli, IInv, RoomInv, ArgsFit
  <2>5. OffsetInv'
    BY <1>3, <2>1 DEF Prefill, cli, IInv, OffsetInv, Slot
  <2>6. RequestInv'
    BY <1>3, <2>2 DEF Prefill, cli, RequestInv
  <2>7. QED
    BY <2>1, <2>3, <2>4, <2>5, <2>6 DEF IInv
<1>4. CASE Tbt
  <2>1. RingInv' /\ AttendedInv' /\ AttentionExact' /\ Cached' = Cached
    BY <1>4, QuietStep DEF Tbt
  <2>2. generated # << >> /\ Len(generated) \in Nat /\ Len(generated) >= 1
    BY <1>1, <1>4 DEF Tbt, IInv, RoomInv
  <2>3. TypeOK'
    <3>1. TbtPosition \in Nat /\ generated[Len(generated)] \in Vocab
      BY <1>1, <2>2, CliTypes DEF TbtPosition
    <3>2. args.seq - 1 \in Nat
      BY <1>1, <1>4, CliTypes DEF Tbt, IInv, RoomInv, ArgsFit
    <3>3. TbtMask \in SUBSET (Nat \X Nat)
      BY <1>1, <3>1, <3>2, CliTypes DEF TbtMask, BuildMask, SelfMask
    <3>4. req' \in Requests /\ req'.rows = Len(req'.toks)
      BY <1>4, <3>1, <3>3 DEF Tbt, Request, Requests
    <3>5. QED
      BY <1>1, <1>4, <3>4 DEF Tbt, TypeOK, cli
  <2>4. RoomInv'
    BY <1>4, <2>2 DEF Tbt, cli, IInv, RoomInv, ArgsFit
  <2>5. OffsetInv'
    BY <1>4, <2>1 DEF Tbt, cli, IInv, OffsetInv, Slot
  <2>6. RequestInv'
    BY <1>4, <2>2 DEF Tbt, cli, RequestInv, MoreSteps, TbtPosition, TbtMask
  <2>7. QED
    BY <2>1, <2>3, <2>4, <2>5, <2>6 DEF IInv
<1>5. CASE AdvanceOffset
  <2>1. RingInv' /\ AttendedInv' /\ AttentionExact' /\ Cached' = Cached
    BY <1>5, QuietStep DEF AdvanceOffset
  <2>2. /\ Cached \in Nat /\ req.rows \in Nat /\ req.rows >= 1
        /\ Cached + req.rows <= args.seq /\ args.seq \in Nat
    BY <1>1, <1>5, RunInputs, CliTypes DEF AdvanceOffset
  <2>3. offset = Slot(Cached) /\ offset' = Slot(offset + req.rows) /\ args' = args
        /\ req' = req
    BY <1>5 DEF AdvanceOffset, cli, IInv, OffsetInv
  <2>4. offset = Cached
    BY <2>2, <2>3 DEF Slot
  <2>5. TypeOK'
    <3>1. offset' \in Nat
      BY <2>2, <2>3, <2>4 DEF Slot
    <3>2. QED
      BY <1>1, <1>5, <3>1 DEF AdvanceOffset, TypeOK, cli
  <2>6. RoomInv'
    BY <1>5 DEF AdvanceOffset, cli, IInv, RoomInv, ArgsFit
  <2>7. OffsetInv'
    BY <1>5, <2>1, <2>3, <2>4 DEF AdvanceOffset, OffsetInv, Slot
  <2>8. RequestInv'
    BY <1>5 DEF AdvanceOffset, cli, IInv, RequestInv, MoreSteps, TbtPosition, TbtMask
  <2>9. QED
    BY <2>1, <2>5, <2>6, <2>7, <2>8 DEF IInv
<1>6. CASE Infer
  BY <1>6, InferInv DEF Infer
<1>7. CASE RunRaises \/ Finish
  <2>1. RingInv' /\ AttendedInv' /\ AttentionExact' /\ Cached' = Cached
    BY <1>7, QuietStep DEF RunRaises, Finish
  <2>2. TypeOK'
    BY <1>1, <1>7 DEF RunRaises, Finish, TypeOK, cli
  <2>3. RoomInv'
    BY <1>7 DEF RunRaises, Finish, cli, IInv, RoomInv, ArgsFit
  <2>4. OffsetInv' /\ RequestInv'
    BY <1>7, <2>1 DEF RunRaises, Finish, cli, IInv, OffsetInv, RequestInv, Slot
  <2>5. QED
    BY <2>1, <2>2, <2>3, <2>4 DEF IInv
<1>8. CASE UNCHANGED vars
  <2>1. RingInv' /\ AttendedInv' /\ AttentionExact' /\ Cached' = Cached
    BY <1>8, QuietStep DEF vars, cli
  <2>2. TypeOK'
    BY <1>1, <1>8 DEF vars, TypeOK, cli
  <2>3. RoomInv' /\ OffsetInv' /\ RequestInv'
    BY <1>8, <2>1 DEF vars, cli, IInv, RoomInv, ArgsFit, OffsetInv, Slot,
                      RequestInv, MoreSteps, TbtPosition, TbtMask
  <2>4. QED
    BY <2>1, <2>2, <2>3 DEF IInv
<1>9. QED
  BY <1>2, <1>3, <1>4, <1>5, <1>6, <1>7, <1>8 DEF Next

(* Host and device always agree on where the context lies in the ring: the *)
(* usage kv_greedy.py builds its mask from, the read offset it advanced    *)
(* and the number of tokens generated so far tell the same story.          *)
THEOREM Invariance == Spec => []IInv
BY InitInv, StepInv, PTL DEF Spec

(* The state of the loop and of the ring keeps its types. *)
THEOREM TypeCorrectness == Spec => []TypeOK
<1>1. IInv => TypeOK
  BY DEF IInv
<1>2. QED
  BY <1>1, Invariance, PTL

(* Every row of every run, prefill or token by token, attends to exactly   *)
(* the context up to its own position (kv_greedy.py main and run), for     *)
(* every cache size and prompt the two assertions let through.             *)
THEOREM AttentionIsExact == Spec => []AttentionExact
<1>1. IInv => AttentionExact
  BY DEF IInv
<1>2. QED
  BY <1>1, Invariance, PTL

(* The K/V of every position but the newest is in the ring whenever main()  *)
(* looks at its loop condition: the loop skips no token and feeds none     *)
(* twice, whatever the sizes.                                              *)
THEOREM LoopFollowsOutput == Spec => []CacheFollowsOutput
<1>1. ASSUME IInv, pc = "loop", NEW pos \in 0 .. TbtPosition - 1
      PROVE  \E j \in DOMAIN ring : ring[j] = Entry(pos, TokenAt(pos))
  <2>1. /\ ArgsFit /\ generated # << >> /\ generated \in Seq(Vocab)
        /\ args.seq \in Nat /\ args.prefill \in Nat /\ args.newTokens \in Nat
        /\ Len(generated) \in Nat /\ Len(generated) >= 1
    BY <1>1, CliTypes DEF IInv, RoomInv, TypeOK
  <2>2. Cached = TbtPosition /\ TbtPosition \in Nat
    BY <2>1 DEF Cached, TbtPosition
  <2>3. Cached <= args.seq
    BY <1>1, <2>1 DEF IInv, RoomInv, ArgsFit, Cached
  <2>4. pos \in 0 .. args.seq - 1 /\ pos < Cached
    BY <1>1, <2>1, <2>2, <2>3
  <2>5. pos \in DOMAIN ring /\ ring[pos] = Entry(pos, TokenAt(pos))
    BY <1>1, <2>4 DEF IInv, RingInv, TypeOK
  <2>6. QED
    BY <2>5
<1>2. IInv => CacheFollowsOutput
  BY <1>1 DEF CacheFollowsOutput
<1>3. QED
  BY <1>2, Invariance, PTL

-----------------------------------------------------------------------------
(* What a step does to the slots in use. *)

(* No step changes a slot that has been written.                           *)
LEMMA StepKeepsSlots ==
  IInv /\ [Next]_vars => \A j \in DOMAIN ring : ring[j] # Unwritten => ring'[j] = ring[j]
<1> SUFFICES ASSUME IInv, [Next]_vars, NEW j \in DOMAIN ring, ring[j] # Unwritten
             PROVE  ring'[j] = ring[j]
  OBVIOUS
<1>1. CASE Infer
  <2>1. j \in 0 .. args.seq - 1
    BY DEF IInv, TypeOK
  <2>2. ring[j] = IF j < Cached THEN Entry(j, TokenAt(j)) ELSE Unwritten
    BY <2>1 DEF IInv, RingInv
  <2>3. Stored[j] = IF j < Cached + req.rows THEN Entry(j, TokenAt(j)) ELSE Unwritten
    BY <1>1, <2>1, RunWritesBehindContext DEF Infer
  <2>4. Cached \in Nat /\ req.rows \in Nat
    BY <1>1, RunInputs DEF Infer
  <2>5. QED
    BY <1>1, <2>1, <2>2, <2>3, <2>4 DEF Infer
<1>2. CASE ~Infer
  BY <1>2 DEF Next, CheckArgs, Prefill, Tbt, AdvanceOffset, RunRaises, Finish, vars
<1>3. QED
  BY <1>1, <1>2

(* A run never takes the ring slot of a token that is still needed: the    *)
(* second assertion of kv_greedy.py main is enough, whatever the sizes.    *)
THEOREM ContextIsNotOverwritten == Spec => NoOverwrite
BY Invariance, StepKeepsSlots, PTL DEF Spec, NoOverwrite

-----------------------------------------------------------------------------
(* The refinement: with the cache mask, the loop implements Decoder. *)

(* Prompt and generated tokens in a row: the context, position by          *)
(* position.                                                               *)
LEMMA ContextTokens ==
  ASSUME IInv, ArgsFit
  PROVE  /\ prompt \o generated \in Seq(Vocab)
         /\ Len(prompt \o generated) = args.prefill + Len(generated)
         /\ \A pos \in 0 .. args.prefill + Len(generated) - 1 :
              (prompt \o generated)[pos + 1] = TokenAt(pos)
<1>1. /\ prompt \in Seq(Vocab) /\ generated \in Seq(Vocab) /\ args.prefill \in Nat
      /\ Len(prompt) = args.prefill /\ Len(generated) \in Nat
  BY CliTypes DEF IInv, TypeOK, ArgsFit
<1>2. ASSUME NEW pos \in 0 .. args.prefill + Len(generated) - 1
      PROVE  (prompt \o generated)[pos + 1] = TokenAt(pos)
  <2>1. CASE pos < args.prefill
    BY <1>1, <1>2, <2>1 DEF TokenAt
  <2>2. CASE ~(pos < args.prefill)
    <3>1. (prompt \o generated)[pos + 1] = generated[(pos + 1) - Len(prompt)]
      BY <1>1, <1>2, <2>2
    <3>2. (pos + 1) - Len(prompt) = pos - args.prefill + 1
      BY <1>1, <1>2
    <3>3. QED
      BY <2>2, <3>1, <3>2 DEF TokenAt
  <2>3. QED
    BY <2>1, <2>2
<1>3. Len(prompt \o generated) = args.prefill + Len(generated)
  BY <1>1
<1>4. prompt \o generated \in Seq(Vocab)
  BY <1>1
<1>5. QED
  BY <1>2, <1>3, <1>4

(* In cache mode what the newest position is due is the whole context. *)
LEMMA DueIsPrefix ==
  ASSUME IInv, ArgsFit, args.maskMode = "cache"
  PROVE  Due(args.prefill + Len(generated) - 1) = Promise!Prefix(prompt \o generated)
<1> DEFINE ctx == prompt \o generated
           last == args.prefill + Len(generated) - 1
<1>1. /\ args.prefill \in Nat /\ Len(generated) \in Nat
      /\ Len(ctx) = args.prefill + Len(generated)
      /\ \A pos \in 0 .. last : ctx[pos + 1] = TokenAt(pos)
  BY ContextTokens, CliTypes DEF IInv, TypeOK
<1>2. Due(last) = { Entry(pos, TokenAt(pos)) : pos \in 0 .. last }
  BY DEF Due
<1>3. \A i \in 1 .. Len(ctx) : i - 1 \in 0 .. last /\ ctx[i] = TokenAt(i - 1)
  BY <1>1
<1>4. \A pos \in 0 .. last : pos + 1 \in 1 .. Len(ctx) /\ (pos + 1) - 1 = pos
  BY <1>1
<1>5. Promise!Prefix(ctx) = { Entry(i - 1, ctx[i]) : i \in 1 .. Len(ctx) }
  BY DEF Promise!Prefix, Promise!Entry, Entry
<1>6. { Entry(i - 1, ctx[i]) : i \in 1 .. Len(ctx) }
        = { Entry(pos, TokenAt(pos)) : pos \in 0 .. last }
  BY <1>1, <1>3, <1>4
<1>7. QED
  BY <1>2, <1>5, <1>6

(* The initial states of the cached loop are initial states of Decoder.    *)
LEMMA RefinesInit == Init => Promise!Init
<1> SUFFICES ASSUME Init PROVE Promise!Init
  OBVIOUS
<1>1. prompt \o generated = prompt
  <2>1. prompt \in Seq(Vocab)
    BY PromptsAssumption DEF Init
  <2>2. QED
    BY <2>1 DEF Init
<1>2. QED
  BY <1>1 DEF Init, Promise!Init, Shown

(* A run that yields a token is a step Emit of Decoder, the end of the     *)
(* script a step Halt, and every other step of main() and run() a stutter. *)
LEMMA RefinesStep ==
  ASSUME IInv, [Next]_vars, IInv', args.maskMode = "cache"
  PROVE  [Promise!Next]_(Promise!vars)
<1>1. TypeOK /\ args.maskMode = "cache"
  BY DEF IInv, TypeOK
<1>2. CASE Infer
  <2>1. PICK tok \in Vocab : generated' = Append(generated, tok)
    BY <1>2 DEF Infer
  <2>2. /\ args' = args /\ prompt' = prompt /\ pc = "infer" /\ pc' = "loop"
        /\ prompt \in Seq(Vocab) /\ generated \in Seq(Vocab) /\ ArgsFit
    BY <1>1, <1>2, CliTypes DEF Infer, cli, IInv, RoomInv, TypeOK
  <2>3. prompt \o Append(generated, tok) = Append(prompt \o generated, tok)
    BY <2>2
  <2>4. /\ generated' # << >> /\ Len(generated') = Len(generated) + 1
        /\ Len(generated) \in Nat /\ args.prefill \in Nat /\ args.prefill >= 1
    BY <1>1, <2>1, <2>2, CliTypes DEF ArgsFit
  <2>5. PICK last \in Nat : last = args.prefill + Len(generated) - 1
    BY <2>4
  <2>6. Shown' = { seen[2] : seen \in attended'[last] }
    BY <2>2, <2>4, <2>5 DEF Shown
  <2>7. Cached' = last + 1 /\ last \in DOMAIN attended'
    <3>1. Cached' = last + 1
      BY <2>2, <2>4, <2>5 DEF Cached
    <3>2. QED
      BY <3>1, <2>5 DEF IInv, AttendedInv
  <2>8. Shown' = Due(last)'
    BY <2>6, <2>7 DEF IInv, AttentionExact
  <2>9. Due(last)' = Due(last)
    <3>1. \A p \in 0 .. last : TokenAt(p)' = TokenAt(p)
      <4>1. Cached \in Nat /\ req.rows \in Nat /\ Cached + req.rows = last + 1
        BY <1>2, <2>2, <2>7, RunInputs, TokensKept
      <4>2. QED
        BY <1>2, <2>2, <2>5, <4>1, TokensKept
    <3>2. QED
      BY <1>1, <2>2, <3>1 DEF Due
  <2>10. Shown' = Promise!Prefix(prompt \o generated)
    BY <1>1, <2>2, <2>5, <2>8, <2>9, DueIsPrefix
  <2>11. Promise!Emit
    BY <2>1, <2>2, <2>3, <2>10 DEF Promise!Emit
  <2>12. QED
    BY <2>11 DEF Promise!Next
<1>3. CASE CheckArgs \/ RunRaises \/ Finish
  <2>1. UNCHANGED <<prompt, generated, Shown, args>>
    BY <1>3 DEF CheckArgs, RunRaises, Finish, cli, Shown
  <2>2. pc \notin {"rejected", "raised", "done"}
    BY <1>3 DEF CheckArgs, RunRaises, Finish
  <2>3. CASE pc' \in {"rejected", "raised", "done"}
    BY <2>1, <2>2, <2>3 DEF Promise!Next, Promise!Halt
  <2>4. CASE pc' \notin {"rejected", "raised", "done"}
    BY <2>1, <2>2, <2>4 DEF Promise!vars
  <2>5. QED
    BY <2>3, <2>4
<1>4. CASE Prefill \/ Tbt \/ AdvanceOffset \/ UNCHANGED vars
  <2>1. UNCHANGED <<prompt, generated, Shown>>
    BY <1>4 DEF Prefill, Tbt, AdvanceOffset, vars, cli, Shown
  <2>2. /\ pc \notin {"rejected", "raised", "done"} /\ pc' \notin {"rejected", "raised", "done"}
        \/ pc' = pc
    BY <1>4 DEF Prefill, Tbt, AdvanceOffset, vars
  <2>3. QED
    BY <2>1, <2>2 DEF Promise!vars
<1>5. QED
  BY <1>2, <1>3, <1>4 DEF Next

(* Generation through the cache is generation: however the sizes are       *)
(* chosen, every token kv_greedy.py prints in cache mode was drawn from    *)
(* the prompt and all tokens before it.                                    *)
THEOREM CacheImplementsDecoder == Spec => ImplementsDecoder
<1>1. ASSUME IInv, IInv', [Next]_vars
      PROVE  [args.maskMode = "cache" => Promise!Next]_(Promise!vars)
  BY <1>1, RefinesStep
<1>2. QED
  BY <1>1, RefinesInit, Invariance, PTL DEF Spec, ImplementsDecoder

-----------------------------------------------------------------------------
(* With the conversions of both groups, for every cache size, entry size,  *)
(* prompt length and number of tokens: whatever group runs reads the       *)
(* entries of the ring whole.                                              *)

(* Duplication gives each cache an input and an output in both groups.     *)
EveryEdge ==
  \A group \in Groups, type \in {"input_layer", "output_layer"}, cache \in Caches :
    [group |-> group, type |-> type, cache |-> cache] \in Layers

(* The memory holds the ring's entries, token by token. *)
MemInv ==
  \A cache \in Caches :
    /\ DOMAIN mem[cache] = 0 .. args.seq * Features - 1
    /\ \A j \in 0 .. args.seq - 1, f \in 0 .. Features - 1 :
         mem[cache][j * Features + f] = IF ring[j] = Unwritten THEN Unwritten ELSE <<ring[j], f>>

LayoutInv == IInv /\ MemInv /\ DOMAIN mem = Caches

-----------------------------------------------------------------------------
(* Cells and entries. *)

(* Products grow with a factor. *)
LEMMA Monotone ==
  ASSUME NEW a \in Nat, NEW b \in Nat, NEW n \in Nat, a <= b
  PROVE  a * n <= b * n /\ a * n \in Nat
OBVIOUS

(* A cell belongs to one entry. *)
LEMMA OneEntry ==
  ASSUME NEW n \in Nat, NEW a \in Nat, NEW b \in Nat, NEW x \in 0 .. n - 1, NEW y \in 0 .. n - 1,
         a * n + x = b * n + y
  PROVE  a = b /\ x = y
<1>1. CASE a < b
  <2>1. (a + 1) * n <= b * n
    BY <1>1, Monotone
  <2>2. (a + 1) * n = a * n + n
    OBVIOUS
  <2>. QED BY <2>1, <2>2
<1>2. CASE b < a
  <2>1. (b + 1) * n <= a * n
    BY <1>2, Monotone
  <2>2. (b + 1) * n = b * n + n
    OBVIOUS
  <2>. QED BY <2>1, <2>2
<1>3. CASE a = b
  BY <1>3
<1>. QED BY <1>1, <1>2, <1>3

(* A cell is in the cache. *)
LEMMA CellInRange ==
  ASSUME NEW n \in Nat, NEW size \in Nat, NEW j \in 0 .. size - 1, NEW x \in 0 .. n - 1
  PROVE  j * n + x \in 0 .. size * n - 1
<1>1. (j + 1) * n <= size * n /\ j * n \in Nat
  BY Monotone
<1>2. (j + 1) * n = j * n + n
  OBVIOUS
<1>3. size * n \in Nat
  BY Monotone
<1>. QED BY <1>1, <1>2, <1>3

(* Around once at most. *)
LEMMA ModuloOnce ==
  ASSUME NEW m \in Nat, NEW y \in Nat
  PROVE  /\ y < m => y % m = y
         /\ m <= y /\ y < m + m => y % m = y - m
OBVIOUS

(* Around the ring once, a cell is that of the entry's slot. *)
LEMMA AddressOfSlot ==
  ASSUME args.seq \in Nat, NEW x \in 0 .. args.seq + args.seq - 1, NEW f \in 0 .. Features - 1
  PROVE  /\ Slot(x) \in 0 .. args.seq - 1
         /\ Address(x * Features + f) = Slot(x) * Features + f
<1>. DEFINE m == args.seq * Features
<1>1. Features \in Nat /\ m \in Nat
  BY FeaturesAssumption, Monotone
<1>2. CASE x < args.seq
  <2>1. x * Features + f \in 0 .. m - 1
    BY <1>1, <1>2, CellInRange
  <2>. QED BY <1>1, <1>2, <2>1, ModuloOnce DEF Address, Slot
<1>3. CASE x >= args.seq
  <2>1. x - args.seq \in 0 .. args.seq - 1
    BY <1>3
  <2>2. (x - args.seq) * Features + f \in 0 .. m - 1
    BY <1>1, <2>1, CellInRange
  <2>3. x * Features = (x - args.seq) * Features + m
    BY <1>1
  <2>. DEFINE y == x * Features + f
  <2>4. y \in Nat /\ m <= y /\ y < m + m /\ y - m = (x - args.seq) * Features + f
    BY <1>1, <2>2, <2>3
  <2>. HIDE DEF m, y
  <2>5. y % m = y - m
    BY <1>1, <2>4, ModuloOnce
  <2>6. Slot(x) = x - args.seq
    BY <1>3 DEF Slot
  <2>. QED BY <2>1, <2>4, <2>5, <2>6 DEF Address, m, y
<1>. QED BY <1>2, <1>3

-----------------------------------------------------------------------------
(* A run, through the edges of its group. *)

(* Every cache edge has its conversion. *)
LEMMA TokenByToken ==
  ASSUME EveryEdge, NEW type \in {"input_layer", "output_layer"}, NEW cache \in Caches,
         NEW n, NEW token, NEW f
  PROVE  Offset(Group, type, cache, n, token, f) = token * Features + f
<1>. DEFINE edge == [group |-> Group, type |-> type, cache |-> cache]
<1>1. Group \in {"prefill", "tbt"} /\ cache # "none"
  BY DEF Group, Caches
<1>2. edge \in Layers
  BY <1>1 DEF EveryEdge, Groups
<1>. DEFINE line == [layer |-> edge, kind |-> IF edge.type = "input_layer" THEN "tf_rgb_to_hailo_rgb"
                                             ELSE "hailo_rgb_to_tf_rgb"]
<1>3. edge \in { l \in Layers : /\ l.group \in {"prefill", "tbt"}
                                 /\ l.cache # "none"
                                 /\ l.type \in {"input_layer", "output_layer"} }
  BY <1>1, <1>2
<1>4. line \in Conversions
  BY <1>3 DEF Conversions, CacheLayoutConversions
<1>5. \E conv \in Conversions : conv.layer = edge
  BY <1>4
<1>. QED BY <1>5 DEF Offset

(* The cells of a run's own entries are those of the slots behind the      *)
(* context.                                                                *)
LEMMA WriteAddress ==
  ASSUME EveryEdge, IInv, pc = "infer", NEW cache \in Caches,
         NEW row \in Rows, NEW f \in 0 .. Features - 1
  PROVE  /\ Cached + row \in 0 .. args.seq - 1
         /\ Address((offset + (args.seq - req.rows)) * Features
                      + Offset(Group, "output_layer", cache, req.rows, row, f))
              = (Cached + row) * Features + f
<1>1. /\ args.seq \in Nat /\ Cached \in Nat /\ req.rows \in Nat /\ 1 <= req.rows
      /\ Cached + req.rows <= args.seq /\ offset = Slot(Cached + req.rows) /\ row \in 0 .. req.rows - 1
      /\ Features \in Nat /\ row \in Nat
  BY RunInputs, CliTypes, FeaturesAssumption DEF IInv, OffsetInv, Rows
<1>. DEFINE x == offset + (args.seq - req.rows) + row
<1>2. x \in 0 .. args.seq + args.seq - 1 /\ Slot(x) = Cached + row /\ Cached + row \in 0 .. args.seq - 1
  BY <1>1 DEF Slot
<1>3. (offset + (args.seq - req.rows)) * Features + (row * Features + f) = x * Features + f
  <2>1. offset + (args.seq - req.rows) \in Nat
    BY <1>1 DEF Slot
  <2>. QED BY <1>1, <2>1
<1>. HIDE DEF x
<1>4. Address(x * Features + f) = (Cached + row) * Features + f
  BY <1>1, <1>2, AddressOfSlot
<1>. QED BY <1>2, <1>3, <1>4, TokenByToken

(* What a run writes are entries of its tokens. *)
LEMMA FreshIsAnEntry ==
  ASSUME IInv, NEW row \in Rows
  PROVE  Fresh(row) \in Entries /\ Fresh(row) # Unwritten
<1>1. req \in Requests /\ req.rows = Len(req.toks) /\ row \in 0 .. req.rows - 1
  BY DEF IInv, TypeOK, Rows
<1>2. req.toks \in Seq(Vocab) /\ row + 1 \in 1 .. Len(req.toks) /\ req.first + row \in Nat
  BY <1>1 DEF Requests
<1>3. Fresh(row) \in Entries
  BY <1>2 DEF Fresh, Entry, Entries
<1>. QED BY <1>3, UnwrittenAssumption

(* A run writes whole entries where the ring has them. *)
LEMMA InferKeepsMem ==
  ASSUME EveryEdge, LayoutInv, LayoutInfer
  PROVE  MemInv' /\ DOMAIN mem' = Caches
<1>1. /\ IInv /\ pc = "infer" /\ ring' = Stored /\ args' = args
      /\ mem' = [ c \in Caches |-> WrittenTo(c) ]
  BY DEF LayoutInv, LayoutInfer, Infer, cli
<1>2. /\ args.seq \in Nat /\ Cached \in Nat /\ req.rows \in Nat /\ 1 <= req.rows
      /\ Cached + req.rows <= args.seq /\ Features \in Nat
      /\ \A row \in Rows : Fresh(row) = Entry(Cached + row, TokenAt(Cached + row))
  BY <1>1, RunInputs, CliTypes, FeaturesAssumption DEF IInv
<1>. SUFFICES ASSUME NEW cache \in Caches
              PROVE  /\ DOMAIN WrittenTo(cache) = 0 .. args.seq * Features - 1
                     /\ \A j \in 0 .. args.seq - 1, f \in 0 .. Features - 1 :
                          WrittenTo(cache)[j * Features + f]
                            = IF Stored[j] = Unwritten THEN Unwritten ELSE <<Stored[j], f>>
  BY <1>1 DEF MemInv
<1>3. /\ DOMAIN mem[cache] = 0 .. args.seq * Features - 1
      /\ \A j \in 0 .. args.seq - 1, f \in 0 .. Features - 1 :
           mem[cache][j * Features + f] = IF ring[j] = Unwritten THEN Unwritten ELSE <<ring[j], f>>
  BY DEF LayoutInv, MemInv
<1>. DEFINE at(row, f) == Address((offset + (args.seq - req.rows)) * Features
                                    + Offset(Group, "output_layer", cache, req.rows, row, f))
            cells == Rows \X (0 .. Features - 1)
<1>4. WrittenTo(cache) =
        [ a \in DOMAIN mem[cache] |->
            IF \E c \in cells : at(c[1], c[2]) = a
            THEN <<Fresh((CHOOSE d \in cells : at(d[1], d[2]) = a)[1]),
                   (CHOOSE d \in cells : at(d[1], d[2]) = a)[2]>>
            ELSE mem[cache][a] ]
  BY DEF WrittenTo
<1>5. \A c \in cells : at(c[1], c[2]) = (Cached + c[1]) * Features + c[2]
                       /\ Cached + c[1] \in 0 .. args.seq - 1
  BY <1>1, WriteAddress
<1>. HIDE DEF at
<1>6. ASSUME NEW j \in 0 .. args.seq - 1, NEW f \in 0 .. Features - 1
      PROVE  WrittenTo(cache)[j * Features + f]
               = IF Stored[j] = Unwritten THEN Unwritten ELSE <<Stored[j], f>>
  <2>. DEFINE a == j * Features + f
  <2>1. a \in DOMAIN mem[cache]
    BY <1>2, <1>3, CellInRange
  <2>2. \A c \in cells : at(c[1], c[2]) = a <=> c[1] = j - Cached /\ c[2] = f
    <3>. SUFFICES ASSUME NEW c \in cells
                  PROVE  at(c[1], c[2]) = a <=> c[1] = j - Cached /\ c[2] = f
      OBVIOUS
    <3>. DEFINE i == Cached + c[1]
                x == c[2]
    <3>1. c[1] \in Int /\ x \in 0 .. Features - 1 /\ i \in Nat /\ j \in Nat
          /\ at(c[1], c[2]) = i * Features + x
      BY <1>2, <1>5 DEF Rows
    <3>2. i = j <=> c[1] = j - Cached
      BY <1>2, <3>1
    <3>. HIDE DEF i, x
    <3>3. i * Features + x = a => i = j /\ x = f
      BY <1>2, <3>1, OneEntry
    <3>4. i = j /\ x = f => i * Features + x = a
      OBVIOUS
    <3>. QED BY <3>1, <3>2, <3>3, <3>4 DEF x
  <2>. HIDE DEF a
  <2>3. CASE j \in Cached .. Cached + req.rows - 1
    <3>1. j - Cached \in Rows /\ <<j - Cached, f>> \in cells
      BY <1>2, <2>3 DEF Rows
    <3>2. at(j - Cached, f) = a
      BY <2>2, <3>1
    <3>3. \E c \in cells : at(c[1], c[2]) = a
      BY <3>1, <3>2
    <3>. DEFINE d == CHOOSE c \in cells : at(c[1], c[2]) = a
    <3>4. d \in cells /\ at(d[1], d[2]) = a
      BY <3>3
    <3>5. d[1] = j - Cached /\ d[2] = f
      BY <2>2, <3>4
    <3>6. WrittenTo(cache)[a] = <<Fresh(d[1]), d[2]>>
      BY <1>4, <2>1, <3>3
    <3>7. Stored[j] = Fresh(j - Cached)
      <4>1. Stored[j] = Entry(j, TokenAt(j))
        BY <1>1, <1>2, <2>3, RunWritesBehindContext
      <4>2. Cached + (j - Cached) = j
        BY <1>2
      <4>. QED BY <1>2, <3>1, <4>1, <4>2
    <3>8. Stored[j] # Unwritten
      BY <1>1, <3>1, <3>7, FreshIsAnEntry
    <3>. QED BY <3>5, <3>6, <3>7, <3>8 DEF a
  <2>4. CASE j \notin Cached .. Cached + req.rows - 1
    <3>1. ~ \E c \in cells : at(c[1], c[2]) = a
      <4>1. \A c \in cells : Cached + c[1] # j
        BY <1>2, <2>4 DEF Rows
      <4>2. \A c \in cells : c[1] \in Int
        BY DEF Rows
      <4>. QED BY <1>2, <2>2, <4>1, <4>2
    <3>2. WrittenTo(cache)[a] = mem[cache][a]
      BY <1>4, <2>1, <3>1
    <3>3. Stored[j] = ring[j]
      BY <1>1, <1>2, <2>4, RunWritesBehindContext DEF IInv, RingInv
    <3>. QED BY <1>3, <3>2, <3>3 DEF a
  <2>. QED BY <2>3, <2>4
<1>7. DOMAIN WrittenTo(cache) = DOMAIN mem[cache]
  BY <1>4
<1>. QED BY <1>3, <1>6, <1>7

(* What a run reads are the entries from the read offset on. *)
LEMMA ReadsEntries ==
  ASSUME EveryEdge, LayoutInv, pc = "infer", NEW cache \in Caches,
         NEW token \in 0 .. args.seq - req.rows - 1, NEW f \in 0 .. Features - 1
  PROVE  LET entry == ring[Slot(offset + token)]
         IN  ReadCell(cache, token, f) = IF entry = Unwritten THEN Unwritten ELSE <<entry, f>>
<1>1. /\ args.seq \in Nat /\ Cached \in Nat /\ req.rows \in Nat /\ 1 <= req.rows
      /\ Cached + req.rows <= args.seq /\ offset = Slot(Cached + req.rows) /\ Features \in Nat
  BY RunInputs, CliTypes, FeaturesAssumption DEF LayoutInv, IInv, OffsetInv
<1>2. offset \in Nat /\ token \in Nat /\ offset + token \in 0 .. args.seq + args.seq - 1
  BY <1>1 DEF Slot
<1>3. offset * Features + (token * Features + f) = (offset + token) * Features + f
  BY <1>1, <1>2
<1>4. /\ Slot(offset + token) \in 0 .. args.seq - 1
      /\ Address((offset + token) * Features + f) = Slot(offset + token) * Features + f
  BY <1>1, <1>2, AddressOfSlot
<1>5. ReadCell(cache, token, f) = mem[cache][Slot(offset + token) * Features + f]
  BY <1>3, <1>4, TokenByToken DEF ReadCell
<1>. QED BY <1>4, <1>5 DEF LayoutInv, MemInv

(* The invariant holds initially. *)
LEMMA LayoutInitInv == LayoutInit => LayoutInv
<1>. SUFFICES ASSUME LayoutInit PROVE LayoutInv
  OBVIOUS
<1>1. IInv /\ args.seq \in Nat /\ Features \in Nat
  BY InitInv, CliTypes, FeaturesAssumption DEF LayoutInit, IInv
<1>2. ASSUME NEW cache \in Caches, NEW j \in 0 .. args.seq - 1, NEW f \in 0 .. Features - 1
      PROVE  mem[cache][j * Features + f] = Unwritten /\ ring[j] = Unwritten
  <2>1. j * Features + f \in 0 .. args.seq * Features - 1
    BY <1>1, CellInRange
  <2>. QED BY <2>1 DEF LayoutInit, Init
<1>3. DOMAIN mem = Caches /\ \A cache \in Caches : DOMAIN mem[cache] = 0 .. args.seq * Features - 1
  BY DEF LayoutInit
<1>. QED BY <1>1, <1>2, <1>3 DEF LayoutInv, MemInv

(* Every step, and none. *)
LEMMA LayoutStepInv ==
  ASSUME EveryEdge, LayoutInv, [LayoutNext]_layoutVars
  PROVE  LayoutInv'
<1>1. [Next]_vars
  BY DEF LayoutNext, LayoutInfer, LayoutHost, layoutVars, Next
<1>2. IInv'
  BY <1>1, StepInv DEF LayoutInv
<1>3. CASE LayoutInfer
  BY <1>2, <1>3, InferKeepsMem DEF LayoutInv
<1>4. CASE LayoutHost \/ UNCHANGED layoutVars
  <2>1. UNCHANGED <<mem, ring, args>>
    BY <1>4 DEF LayoutHost, CheckArgs, Prefill, Tbt, AdvanceOffset, RunRaises, Finish, cli,
                layoutVars, vars
  <2>. QED BY <1>2, <2>1 DEF LayoutInv, MemInv
<1>. QED BY <1>3, <1>4 DEF LayoutNext

(* The ring rotates entry by entry, so a run of either group reads each    *)
(* token's K/V whole, whoever wrote it, once every cache edge of both      *)
(* groups has its conversion (s6 cache_layout_conversions).                *)
THEOREM BothGroupsReadWhole ==
  ASSUME EveryEdge
  PROVE  LayoutSpec => []EntriesReadWhole
<1>1. LayoutInv => EntriesReadWhole
  BY ReadsEntries DEF EntriesReadWhole
<1>2. LayoutInv /\ [LayoutNext]_layoutVars => LayoutInv'
  BY LayoutStepInv
<1>. QED BY <1>1, <1>2, LayoutInitInv, PTL DEF LayoutSpec
=============================================================================
