------------------------------ MODULE KvCache ------------------------------
(***************************************************************************)
(* Greedy generation through the KV-cache: the host loop of                *)
(* runtime/diagnostics/kv_greedy.py driving the two network groups         *)
(* <scope>__prefill and <scope>__tbt, which share one cache.               *)
(*                                                                         *)
(* The cache itself is HailoRT's, outside src/: a ring of one-token        *)
(* entries with a read offset.  A run of n rows reads the                  *)
(* cacheSize - n entries that start at the offset and writes its own n     *)
(* entries after them; the host advances the offset before each run.       *)
(***************************************************************************)
EXTENDS RuntimeInputs, Sequences

CONSTANTS Vocab,     \* token ids
          Prompts,   \* what --prompt-ids may be
          Args,      \* what --seq, --prefill, --new-tokens, --mask-mode may be
          Unwritten  \* what a ring slot holds before any run wrote it

MaskModes == {"cache", "self"}

\* argparse takes one prompt id or more (nargs "+"); the sizes are counts.
ASSUME PromptsAssumption == Prompts \subseteq Seq(Vocab) \ {<< >>}
ASSUME ArgsAssumption ==
  Args \subseteq [seq : Nat, prefill : Nat, newTokens : Nat, maskMode : MaskModes]

Entries == [pos : Nat, tok : Vocab]
ASSUME UnwrittenAssumption == Unwritten \notin Entries

VARIABLES args, prompt,  \* the command line
          pc,            \* where main() and run() are
          req,           \* the inputs of the run being made
          offset,        \* the ring's read offset
          ring,          \* the ring: an entry per slot, Unwritten at first
          generated,     \* tokens generated so far
          attended       \* position -> the <<column, entry>> pairs its row saw

cli == <<args, prompt>>
vars == <<args, prompt, pc, req, offset, ring, generated, attended>>

(* The token at a position of the context: prompt first, then generated.   *)
TokenAt(pos) ==
  IF pos < args.prefill THEN prompt[pos + 1] ELSE generated[pos - args.prefill + 1]

(* Index of a ring slot: x modulo the ring's size, for x below twice it.   *)
Slot(x) == IF x < args.seq THEN x ELSE x - args.seq

(* Variant for checking: the offset advances by the position, not the rows.*)
RequestRowsByPosition(first, toks, mask) ==
  [first |-> first, rows |-> Len(toks) + first, toks |-> toks, mask |-> mask]

(* A run's inputs.  first is the position of its first row, usage the      *)
(* mask_cache_usage its mask was built for.                                *)
Request(first, toks, mask) ==
  [first |-> first, rows |-> Len(toks), toks |-> toks, mask |-> mask]

NoRequest == Request(0, << >>, {})

Rows == 0 .. req.rows - 1
Fresh(row) == Entry(req.first + row, req.toks[row + 1])

(* What a row finds under a column: cached entries from the read offset    *)
(* on, then the entries this very run computes.                            *)
Window(col) ==
  IF col < args.seq - req.rows THEN ring[Slot(offset + col)]
                               ELSE Fresh(col - (args.seq - req.rows))

Columns(row) == { col \in 0 .. args.seq - 1 : <<row, col>> \in req.mask }

(* The ring after the run has stored its own entries.                      *)
Stored ==
  [ j \in DOMAIN ring |->
      IF \E row \in Rows : j = Slot(offset + (args.seq - req.rows) + row)
      THEN Fresh(CHOOSE row \in Rows : j = Slot(offset + (args.seq - req.rows) + row))
      ELSE ring[j] ]

(* The rows' view, by position.                                            *)
Attended ==
  [ pos \in DOMAIN attended \cup (req.first .. req.first + req.rows - 1) |->
      IF pos < req.first THEN attended[pos]
      ELSE { <<col, Window(col)>> : col \in Columns(pos - req.first) } ]

-----------------------------------------------------------------------------

Init ==
  /\ args \in Args
  /\ prompt \in Prompts
  /\ pc = "start"
  /\ req = NoRequest
  /\ offset = 0
  /\ ring = [ j \in 0 .. args.seq - 1 |-> Unwritten ]
  /\ generated = << >>
  /\ attended = << >>

(* Variant for checking: no second assertion.                              *)
ArgsFitIgnoringSeq == Len(prompt) = args.prefill

(* The two assertions that precede any device call.                        *)
ArgsFit ==
  /\ Len(prompt) = args.prefill
  /\ args.prefill + args.newTokens <= args.seq

CheckArgs ==
  /\ pc = "start"
  /\ pc' = IF ArgsFit THEN "prefill" ELSE "rejected"
  /\ UNCHANGED <<cli, req, offset, ring, generated, attended>>

(* Prefill: the whole prompt in one run, each row seeing the rows above.   *)
Prefill ==
  /\ pc = "prefill"
  /\ pc' = "advance"
  /\ req' = Request(0, prompt, BuildMask(args.prefill, args.prefill, args.seq))
  /\ UNCHANGED <<cli, offset, ring, generated, attended>>

(* One turn of the token-by-token loop.  len(generated) - 1 is the loop's  *)
(* step: every turn appends one token.                                     *)
TbtPosition == args.prefill + (Len(generated) - 1)

(* Variant for checking: the mask leaves out the newest token.             *)
TbtMaskOneShort ==
  IF args.maskMode = "cache" THEN BuildMask(1, TbtPosition, args.seq)
                             ELSE SelfMask(args.seq)

TbtMask ==
  IF args.maskMode = "cache" THEN BuildMask(1, TbtPosition + 1, args.seq)
                             ELSE SelfMask(args.seq)

MoreSteps == Len(generated) - 1 < args.newTokens - 1

Tbt ==
  /\ pc = "loop"
  /\ MoreSteps
  /\ pc' = "advance"
  /\ req' = Request(TbtPosition, << generated[Len(generated)] >>, TbtMask)
  /\ UNCHANGED <<cli, offset, ring, generated, attended>>

(* Variant for checking: only the prefill run advances the offset.         *)
AdvanceOffsetOnce ==
  /\ pc = "advance"
  /\ pc' = "infer"
  /\ offset' = IF generated = << >> THEN Slot(offset + req.rows) ELSE offset
  /\ UNCHANGED <<cli, req, ring, generated, attended>>

(* run(): update_cache_offset by the number of rows, before the run.       *)
AdvanceOffset ==
  /\ pc = "advance"
  /\ pc' = "infer"
  /\ offset' = Slot(offset + req.rows)
  /\ UNCHANGED <<cli, req, ring, generated, attended>>

(* run(): the inference, then argmax over the logits of the last row.      *)
Infer ==
  /\ pc = "infer"
  /\ pc' = "loop"
  /\ ring' = Stored
  /\ attended' = Attended
  /\ \E tok \in Vocab : generated' = Append(generated, tok)
  /\ UNCHANGED <<cli, req, offset>>

(* Either device call of run() may raise, the inference after 10 s; so may *)
(* main()'s check of the logits against --vocab after the first run.       *)
RunRaises ==
  /\ pc \in {"advance", "infer"}
  /\ pc' = "raised"
  /\ UNCHANGED <<cli, req, offset, ring, generated, attended>>

Finish ==
  /\ pc = "loop"
  /\ ~MoreSteps
  /\ pc' = "done"
  /\ UNCHANGED <<cli, req, offset, ring, generated, attended>>

Next ==
  \/ CheckArgs \/ Prefill \/ Tbt \/ AdvanceOffset
  \/ Infer \/ RunRaises \/ Finish

Spec == Init /\ [][Next]_vars

-----------------------------------------------------------------------------

Requests ==
  [first : Nat, rows : Nat, toks : Seq(Vocab), mask : SUBSET (Nat \X Nat)]

(* The state of main() and run() keeps its types: what run() is given is a *)
(* request of as many rows as tokens, and the ring holds entries of the    *)
(* vocabulary at positions of the context.                                 *)
TypeOK ==
  /\ args \in Args
  /\ prompt \in Prompts
  /\ pc \in {"start", "rejected", "prefill", "advance", "infer", "loop", "raised", "done"}
  /\ req \in Requests
  /\ req.rows = Len(req.toks)
  /\ offset \in Nat
  /\ ring \in [0 .. args.seq - 1 -> Entries \cup {Unwritten}]
  /\ generated \in Seq(Vocab)
  /\ attended \in [DOMAIN attended -> SUBSET (Nat \X (Entries \cup {Unwritten}))]

(* What the row of a position has to see: the whole context up to itself,  *)
(* or in self mode itself only once the prompt is through.                 *)
Due(pos) ==
  { Entry(p, TokenAt(p)) :
      p \in IF args.maskMode = "self" /\ pos >= args.prefill THEN {pos} ELSE 0 .. pos }

(* The rows that computed the cache and the logits saw exactly the context *)
(* before them: no unwritten, stale or foreign ring slot, no missing       *)
(* token, and none under two columns.  The mask (host) and the read offset *)
(* (device) are two separate computations of where the context lies in the *)
(* ring (kv_greedy.py run() and build_mask).                               *)
AttentionExact ==
  \A pos \in DOMAIN attended :
    /\ { seen[2] : seen \in attended[pos] } = Due(pos)
    /\ \A a, b \in attended[pos] : a[2] = b[2] => a[1] = b[1]

(* Once the prompt is in, a run never takes the slot of a token later runs *)
(* still need (the second assertion of kv_greedy.py main).                 *)
NoOverwrite ==
  [][\A j \in DOMAIN ring : ring[j] # Unwritten => ring'[j] = ring[j]]_vars

(* The token of every position but the newest has its K/V in the ring, so  *)
(* no run is skipped and no token is fed twice (the loop of main).         *)
CacheFollowsOutput ==
  pc = "loop" =>
    \A pos \in 0 .. TbtPosition - 1 :
      \E j \in DOMAIN ring : ring[j] = Entry(pos, TokenAt(pos))

(* The refinement mapping to what generation promises.                     *)
Shown ==
  IF generated = << >> THEN {}
  ELSE { seen[2] : seen \in attended[args.prefill + Len(generated) - 2] }

Promise == INSTANCE Decoder WITH
  context <- prompt \o generated,
  shown   <- Shown,
  halted  <- pc \in {"rejected", "raised", "done"}

(* In cache mode, generation keeps the promise of plain generation: each   *)
(* token is drawn from the whole context (kv_greedy.py; in self mode a     *)
(* later row sees only itself, by design).                                 *)
ImplementsDecoder ==
  Promise!Init /\ [][args.maskMode = "cache" => Promise!Next]_(Promise!vars)
=============================================================================
