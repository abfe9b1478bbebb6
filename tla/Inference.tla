------------------------------ MODULE Inference ------------------------------
(***************************************************************************)
(* The in-kernel language model (hackbot_model.rs, hackbot_forward.rs and  *)
(* the generator of hackbot_tokenizer.rs): loading the model file, with    *)
(* every allocation that can fail on the way, and the forward pass of the  *)
(* INT8 format.  The whole inference state, the cache of keys and values   *)
(* and ten activation vectors, lies in one flat buffer addressed by        *)
(* computed offsets, and the weights lie in the file at offsets computed   *)
(* while parsing.  The numbers are abstracted: an element of the buffer    *)
(* says which vector of the transformer it belongs to, and its place in    *)
(* it; an operation gives the vector it would be in the transformer's      *)
(* definition when its operands are the right ones, and garbage otherwise. *)
(***************************************************************************)
EXTENDS Integers, FiniteSets, SequencesExt

CONSTANTS Dim, HiddenDim, NLayers, NHeads, NKvHeads, HeadDim, VocabSize,
          GroupSize,    \* the header of the model file
          MaxSeq,       \* INFERENCE_MAX_SEQ
          TokSize,      \* bytes of the file before the weights
          Prompts,      \* the token sequences a prompt may become
          MaxNew,       \* max_new_tokens
          MaxLoads, MaxChats  \* bounds: loads tried, conversations held

(* What the model was exported with: n_heads * head_dim is the dimension   *)
(* (forward_token takes it for granted), and groups divide the rows.       *)
(* What the constants are; the modules that give them values assume it.    *)
ShapeAssumption ==
  /\ {NLayers, NKvHeads, HeadDim, GroupSize, MaxSeq} \subseteq Nat \ {0}
  /\ NHeads * HeadDim = Dim /\ NHeads % NKvHeads = 0
  /\ Dim % GroupSize = 0 /\ HiddenDim % GroupSize = 0 /\ VocabSize > 3
  /\ Prompts \subseteq Seq(0..(VocabSize - 1))

VARIABLES pc,    \* where the holder of MODEL.lock() is; "idle": nobody
          file,  \* the firmware being loaded, and then the one loaded
          slot,  \* ModelSlot: which of its pointers are set
          heap,  \* how many allocations of each kind are live
          refs,  \* embed, layers and rms_final_off: offsets in the file
          mem,   \* the buffer at inf_buf_addr
          hist,  \* the tokens fed to the model in this conversation
          todo,  \* those still to feed: the prompt, then the one sampled
          left,  \* how many may still be generated
          loads, chats

vars == <<pc, file, slot, heap, refs, mem, hist, todo, left, loads, chats>>
chatVars == <<hist, todo, left, chats>>

Kinds == {"data", "tok", "inf", "fpu", "sorted"}
Null == [k \in Kinds |-> FALSE]
NoRefs == <<>>

(* A vector is named by its kind, its layer, the tokens up to its          *)
(* position, and its head where it has one.                                *)
Node(kind, l, h, head) == [kind |-> kind, l |-> l, h |-> h, head |-> head]
Garbage == Node("garbage", 0, <<>>, 0)

ENDOFTEXT == 0
IM_END == 2

-----------------------------------------------------------------------------
(* The weights in the file. *)

Quantized(name, l, rows, cols) ==
  [name |-> <<name, l>>, data |-> rows * cols,
   scales |-> rows * (cols \div GroupSize) * 4]
Norm(name, l) == [name |-> <<name, l>>, data |-> Dim * 4, scales |-> 0]

(* The order export_model writes them in. *)
ExportOrder ==
  <<Quantized("embed", 0, VocabSize, Dim)>>
  \o FlattenSeq([n \in 1..NLayers |->
       LET l == n - 1 IN
       <<Norm("rms_att", l), Quantized("wq", l, NHeads * HeadDim, Dim),
         Quantized("wk", l, NKvHeads * HeadDim, Dim),
         Quantized("wv", l, NKvHeads * HeadDim, Dim),
         Quantized("wo", l, Dim, NHeads * HeadDim), Norm("rms_ffn", l),
         Quantized("gate", l, HiddenDim, Dim), Quantized("up", l, HiddenDim, Dim),
         Quantized("down", l, Dim, HiddenDim)>>])
  \o <<Norm("rms_final", 0)>>

Size(section) == section.data + section.scales
OffsetOf(sections, n) ==
  TokSize + FoldLeft(LAMBDA sum, s : sum + Size(s), 0, SubSeq(sections, 1, n - 1))
FileLength(f) == OffsetOf(ExportOrder, Len(ExportOrder) + 1) - f.missing

(* The order parse_and_store_model takes them in: q8_ref_advance and       *)
(* norm_ref_advance move the cursor past one.                              *)
ParseOrder ==
  <<Quantized("embed", 0, VocabSize, Dim)>>
  \o FlattenSeq([n \in 1..NLayers |->
       LET l == n - 1
           row(name, rows, cols) == Quantized(name, l, rows, cols)
       IN  <<Norm("rms_att", l), row("wq", NHeads * HeadDim, Dim),
             row("wk", NKvHeads * HeadDim, Dim), row("wv", NKvHeads * HeadDim, Dim),
             row("wo", Dim, NHeads * HeadDim), Norm("rms_ffn", l),
             row("gate", HiddenDim, Dim), row("up", HiddenDim, Dim),
             row("down", Dim, HiddenDim)>>])
  \o <<Norm("rms_final", 0)>>

ParsedRefs ==
  LET at(n) == OffsetOf(ParseOrder, n)
      index(name) == CHOOSE n \in 1..Len(ParseOrder) : ParseOrder[n].name = name
  IN  [name \in {ParseOrder[n].name : n \in 1..Len(ParseOrder)} |->
         [data |-> at(index(name)),
          scales |-> at(index(name)) + ParseOrder[index(name)].data]]

(* What the file holds where a reference points. *)
Weight(ref) ==
  LET found == {n \in 1..Len(ExportOrder) :
                  /\ OffsetOf(ExportOrder, n) = ref.data
                  /\ ref.data + ExportOrder[n].data = ref.scales
                  /\ ref.data + Size(ExportOrder[n]) <= FileLength(file)}
  IN  IF found = {} THEN "nothing" ELSE ExportOrder[CHOOSE n \in found : TRUE].name

-----------------------------------------------------------------------------
(* Loading: load_model_if_needed, called when the device is opened.  A     *)
(* failed load frees what it allocated and is tried again at the next open. *)

Alloc(kind) == heap' = [heap EXCEPT ![kind] = @ + 1]

(* kvfree: freeing a null pointer does nothing. *)
Free(kinds) == heap' = [k \in Kinds |-> IF k \in kinds THEN heap[k] - 1 ELSE heap[k]]
Set(kinds) == {k \in kinds : slot[k]}

(* slot.loaded: set and cleared together with sorted_vocab_addr. *)
Loaded == slot["sorted"]

Files == [version : {1, 2}, header : BOOLEAN, missing : {-1, 0, 1}]

RequestFirmware(f) ==
  /\ pc = "idle" /\ ~ Loaded /\ loads < MaxLoads
  /\ loads' = loads + 1
  /\ file' = f
  /\ pc' = "data"
  /\ UNCHANGED <<slot, heap, refs, mem, chatVars>>

Load(at, next) == /\ pc = at
                  /\ pc' = next
                  /\ UNCHANGED <<file, mem, chatVars, loads>>

AllocData ==
  \/ Load("data", "parse") /\ Alloc("data") /\ UNCHANGED <<slot, refs>>
  \/ Load("data", "idle") /\ UNCHANGED <<slot, heap, refs>>

(* parse_and_store_model up to the token index it allocates. *)
AllocIndex ==
  \/ /\ Load("parse", "weights") /\ file.header
     /\ Alloc("tok") /\ UNCHANGED <<slot, refs>>
  \/ Load("parse", "idle") /\ Free({"data"}) /\ UNCHANGED <<slot, refs>>

(* The rest of it: any reference past the end of the file, or no memory    *)
(* for the array the references are collected in, fails.                   *)
ParseWeights ==
  \/ /\ Load("weights", "state")
     /\ OffsetOf(ParseOrder, Len(ParseOrder) + 1) <= FileLength(file)
     /\ refs' = IF file.version = 2 THEN NoRefs ELSE ParsedRefs
     /\ slot' = [slot EXCEPT !["tok"] = TRUE, !["data"] = TRUE]
     /\ UNCHANGED heap
  \/ Load("weights", "idle") /\ Free({"tok", "data"}) /\ UNCHANGED <<slot, refs>>

KvLen == NLayers * 2 * NKvHeads * MaxSeq * HeadDim

X == KvLen
XB == X + Dim
XB2 == XB + Dim
Q == XB2 + Dim
K == Q + Dim
V == K + NKvHeads * HeadDim
ATT == V + NKvHeads * HeadDim
HB == ATT + MaxSeq
HB2 == HB + HiddenDim
LOGITS == HB2 + HiddenDim
Total == LOGITS + VocabSize

Zero == [of |-> Node("zero", 0, <<>>, 0), at |-> 0]

(* alloc_inference_state: one buffer for the first format, the state of    *)
(* hackbot_fpu.c for the second.                                           *)
AllocInference ==
  LET kind == IF file.version = 2 THEN "fpu" ELSE "inf" IN
  \/ /\ pc = "state" /\ pc' = "vocab"
     /\ Alloc(kind)
     /\ slot' = [slot EXCEPT ![kind] = TRUE]
     /\ mem' = IF kind = "inf" THEN [a \in 0..(Total - 1) |-> Zero] ELSE mem
     /\ UNCHANGED <<file, refs, chatVars, loads>>
  \/ /\ Load("state", "idle")
     /\ Free(Set({"tok"}) \cup {"data"})
     /\ slot' = [slot EXCEPT !["tok"] = FALSE, !["data"] = FALSE]
     /\ UNCHANGED refs

(* A faulty cleanup: the token index is not freed. *)
BuildVocabLeaky ==
  \/ /\ Load("vocab", "idle")
     /\ Alloc("sorted")
     /\ slot' = [slot EXCEPT !["sorted"] = TRUE]
     /\ UNCHANGED refs
  \/ /\ Load("vocab", "idle")
     /\ Free(Set({"fpu", "inf"}) \cup {"data"})
     /\ slot' = Null
     /\ UNCHANGED refs

(* build_sorted_vocab, after which the model is loaded. *)
BuildVocab ==
  \/ /\ Load("vocab", "idle")
     /\ Alloc("sorted")
     /\ slot' = [slot EXCEPT !["sorted"] = TRUE]
     /\ UNCHANGED refs
  \/ /\ Load("vocab", "idle")
     /\ Free(Set({"fpu", "inf", "tok"}) \cup {"data"})
     /\ slot' = Null
     /\ UNCHANGED refs

(* free_model_resources, when the module is unloaded. *)
Unload ==
  /\ pc = "idle" /\ Loaded
  /\ Free(Set(Kinds))
  /\ slot' = Null
  /\ UNCHANGED <<pc, file, refs, mem, chatVars, loads>>

-----------------------------------------------------------------------------
(* The transformer, as a graph of vectors. *)

Group(head) == head \div (NHeads \div NKvHeads)

(* The operation that gives a vector and its operands, each a vector and   *)
(* the element it is read from.                                            *)
Meaning(n) ==
  LET whole(kind) == <<Node(kind, n.l, n.h, 0), 0>>
      upTo(kind, from) == [p \in 1..Len(n.h) |->
                             <<Node(kind, n.l, SubSeq(n.h, 1, p), Group(n.head)), from>>]
      input == <<Node("x", n.l, n.h, 0), 0>>
  IN
  CASE n.kind = "x" /\ n.l = 0 -> <<"embed", <<"embed", 0>>, <<>>>>
    [] n.kind = "x" /\ n.l > 0 ->
         <<"add", "", <<<<Node("mid", n.l - 1, n.h, 0), 0>>,
                        <<Node("ffn", n.l - 1, n.h, 0), 0>>>>>>
    [] n.kind = "norm" -> <<"rmsnorm", <<"rms_att", n.l>>, <<input>>>>
    [] n.kind = "q" -> <<"matmul", <<"wq", n.l>>, <<whole("norm")>>>>
    [] n.kind = "k" -> <<"matmul", <<"wk", n.l>>, <<whole("norm")>>>>
    [] n.kind = "v" -> <<"matmul", <<"wv", n.l>>, <<whole("norm")>>>>
    [] n.kind = "qr" -> <<"rope", Len(n.h) - 1, <<<<whole("q")[1], n.head * HeadDim>>>>>>
    [] n.kind = "kr" -> <<"rope", Len(n.h) - 1, <<<<whole("k")[1], n.head * HeadDim>>>>>>
    [] n.kind = "att" -> <<"softmax", "",
                           <<<<Node("qr", n.l, n.h, n.head), 0>>>> \o upTo("kr", 0)>>
    [] n.kind = "o" -> <<"weigh", "",
                         <<<<Node("att", n.l, n.h, n.head), 0>>>>
                           \o [p \in 1..Len(n.h) |->
                                 <<Node("v", n.l, SubSeq(n.h, 1, p), 0),
                                   Group(n.head) * HeadDim>>]>>
    [] n.kind = "proj" -> <<"matmul", <<"wo", n.l>>,
                            [g \in 1..NHeads |-> <<Node("o", n.l, n.h, g - 1), 0>>]>>
    [] n.kind = "mid" -> <<"add", "", <<input, whole("proj")>>>>
    [] n.kind = "norm2" -> <<"rmsnorm", <<"rms_ffn", n.l>>, <<whole("mid")>>>>
    [] n.kind = "gate" -> <<"matmul", <<"gate", n.l>>, <<whole("norm2")>>>>
    [] n.kind = "up" -> <<"matmul", <<"up", n.l>>, <<whole("norm2")>>>>
    [] n.kind = "silu" -> <<"silu", "", <<whole("gate")>>>>
    [] n.kind = "hidden" -> <<"mul", "", <<whole("silu"), whole("up")>>>>
    [] n.kind = "ffn" -> <<"matmul", <<"down", n.l>>, <<whole("hidden")>>>>
    [] n.kind = "final" -> <<"rmsnorm", <<"rms_final", 0>>, <<input>>>>
    [] n.kind = "logits" -> <<"matmul", <<"embed", 0>>,
                              <<<<Node("final", NLayers, n.h, 0), 0>>>>>>

-----------------------------------------------------------------------------
(* The forward pass over the buffer, as the list of its operations. *)

(* An operation reads parts of the buffer, each an offset and a length,    *)
(* and writes n elements from an offset on, which are meant to be the      *)
(* node. It goes with a weight's name or a position.                       *)
Op(op, with, from, to, n, node) ==
  [op |-> op, with |-> with, from |-> from, to |-> to, n |-> n, node |-> node]

(* The n elements from an offset on, as a part of one vector. *)
View(m, off, n) ==
  LET first == m[off] IN
  IF \A d \in 0..(n-1) : m[off + d] = [first EXCEPT !.at = @ + d]
  THEN <<first.of, first.at>> ELSE <<Garbage, 0>>

Perform(m, o) ==
  LET operands == [k \in DOMAIN o.from |-> View(m, o.from[k][1], o.from[k][2])]
      with == IF o.op \in {"embed", "matmul", "rmsnorm"}
              THEN Weight(refs[o.with]) ELSE o.with
      made == IF Meaning(o.node) = <<o.op, with, operands>> THEN o.node ELSE Garbage
      written == o.to..(o.to + o.n - 1)
  IN  IF o.op = "copy"
      THEN [a \in DOMAIN m |-> m[IF a \in written THEN o.from[1][1] + a - o.to ELSE a]]
      ELSE [a \in DOMAIN m |->
              IF a \in written THEN [of |-> made, at |-> a - o.to] ELSE m[a]]

CacheHead(l, kind, head, pos) ==
  LET headStride == MaxSeq * HeadDim
      typeStride == NKvHeads * headStride
  IN  l * 2 * typeStride + (IF kind = "v" THEN typeStride ELSE 0)
        + head * headStride + pos * HeadDim

HeadAt(off, g) == <<off + g * HeadDim, HeadDim>>

(* rope_apply_q16 on each head of a vector, in place. *)
Rope(kind, off, n, l, h) ==
  [k \in 1..n |-> Op("rope", Len(h) - 1, <<HeadAt(off, k - 1)>>,
                     HeadAt(off, k - 1)[1], HeadDim, Node(kind, l, h, k - 1))]

(* The keys and values of this position go to the cache. *)
Remember(l, pos) ==
  LET copy(kind, off, g) ==
        Op("copy", "", <<HeadAt(off, g)>>, CacheHead(l, kind, g, pos), HeadDim, Garbage)
  IN  FlattenSeq([k \in 1..NKvHeads |-> <<copy("k", K, k - 1), copy("v", V, k - 1)>>])

(* Attention, head by head: the scores of all positions so far, made       *)
(* weights in place in the att buffer, and the weighted sum of the values. *)
Attend(l, h) ==
  LET cached(kind, g) ==
        [p \in 1..Len(h) |-> <<CacheHead(l, kind, Group(g), p - 1), HeadDim>>]
      head(g) ==
        <<Op("softmax", "", <<HeadAt(Q, g)>> \o cached("k", g),
             ATT, Len(h), Node("att", l, h, g)),
          Op("weigh", "", <<<<ATT, Len(h)>>>> \o cached("v", g),
             HeadAt(XB, g)[1], HeadDim, Node("o", l, h, g))>>
  IN  FlattenSeq([k \in 1..NHeads |-> head(k - 1)])

Layer(l, h) ==
  LET node(kind) == Node(kind, l, h, 0)
      apply(op, weights, kind, from, n, to, rows) ==
        Op(op, <<weights, l>>, <<<<from, n>>>>, to, rows, node(kind))
      residual(sum) == Op("add", "", <<<<X, Dim>>, <<XB2, Dim>>>>, X, Dim, sum)
      heads == [k \in 1..NHeads |-> HeadAt(XB, k - 1)]
  IN  <<apply("rmsnorm", "rms_att", "norm", X, Dim, XB, Dim),
        apply("matmul", "wq", "q", XB, Dim, Q, Dim),
        apply("matmul", "wk", "k", XB, Dim, K, NKvHeads * HeadDim),
        apply("matmul", "wv", "v", XB, Dim, V, NKvHeads * HeadDim)>>
      \o Rope("qr", Q, NHeads, l, h) \o Rope("kr", K, NKvHeads, l, h)
      \o Remember(l, Len(h) - 1) \o Attend(l, h)
      \o <<Op("matmul", <<"wo", l>>, heads, XB2, Dim, node("proj")),
           residual(node("mid")),
           apply("rmsnorm", "rms_ffn", "norm2", X, Dim, XB, Dim),
           apply("matmul", "gate", "gate", XB, Dim, HB, HiddenDim),
           apply("matmul", "up", "up", XB, Dim, HB2, HiddenDim),
           Op("silu", "", <<<<HB, HiddenDim>>>>, HB, HiddenDim, node("silu")),
           Op("mul", "", <<<<HB, HiddenDim>>, <<HB2, HiddenDim>>>>,
              HB, HiddenDim, node("hidden")),
           apply("matmul", "down", "ffn", HB, HiddenDim, XB2, Dim),
           residual(Node("x", l + 1, h, 0))>>

ForwardToken(m, h) ==
  LET embed == Op("embed", <<"embed", 0>>, <<>>, X, Dim, Node("x", 0, h, 0))
      norm == Op("rmsnorm", <<"rms_final", 0>>, <<<<X, Dim>>>>, XB, Dim,
                 Node("final", NLayers, h, 0))
      logits == Op("matmul", <<"embed", 0>>, <<<<XB, Dim>>>>, LOGITS, VocabSize,
                   Node("logits", NLayers, h, 0))
      layers == FlattenSeq([n \in 1..NLayers |-> Layer(n - 1, h)])
  IN  FoldLeft(Perform, m, <<embed>> \o layers \o <<norm, logits>>)

-----------------------------------------------------------------------------
(* Generation: generate_from_tokens, the lock being held throughout.  The  *)
(* second format runs in C and is not modelled further.                    *)

(* A faulty reset: the length is taken for bytes. *)
ResetKvCacheBytes(m) == [a \in DOMAIN m |-> IF 4 * a < KvLen THEN Zero ELSE m[a]]

ResetKvCache(m) == [a \in DOMAIN m |-> IF a < KvLen THEN Zero ELSE m[a]]

StartChat(prompt) ==
  /\ pc = "idle" /\ Loaded /\ slot["inf"] /\ chats < MaxChats
  /\ Len(prompt) \in 1..MaxSeq
  /\ chats' = chats + 1
  /\ pc' = "chat"
  /\ mem' = ResetKvCache(mem)
  /\ hist' = <<>>
  /\ todo' = prompt
  /\ left' = Min({MaxNew, MaxSeq - Len(prompt)})
  /\ UNCHANGED <<file, slot, heap, refs, loads>>

Forward ==
  /\ pc = "chat" /\ todo # <<>>
  /\ hist' = Append(hist, Head(todo))
  /\ todo' = Tail(todo)
  /\ mem' = ForwardToken(mem, hist')
  /\ UNCHANGED <<pc, file, slot, heap, refs, left, loads, chats>>

(* The token of the highest logit is any of them. *)
Sample(token) ==
  /\ pc = "chat" /\ todo = <<>> /\ left > 0
  /\ token \notin {ENDOFTEXT, IM_END}
  /\ todo' = <<token>>
  /\ left' = left - 1
  /\ UNCHANGED <<pc, file, slot, heap, refs, mem, hist, loads, chats>>

(* An end token, no room for more in the answer, or nothing left to give. *)
EndChat ==
  /\ pc = "chat" /\ todo = <<>>
  /\ pc' = "idle"
  /\ UNCHANGED <<file, slot, heap, refs, mem, hist, todo, left, loads, chats>>

-----------------------------------------------------------------------------
Init ==
  /\ pc = "idle" /\ slot = Null /\ heap = [k \in Kinds |-> 0]
  /\ file = [version |-> 1, header |-> FALSE, missing |-> 0] /\ refs = NoRefs
  /\ mem = <<>> /\ hist = <<>> /\ todo = <<>> /\ left = 0
  /\ loads = 0 /\ chats = 0

Next ==
  \/ \E f \in Files : RequestFirmware(f)
  \/ AllocData \/ AllocIndex \/ ParseWeights \/ AllocInference \/ BuildVocab
  \/ Unload
  \/ \E prompt \in Prompts : StartChat(prompt)
  \/ Forward
  \/ \E token \in 0..(VocabSize - 1) : Sample(token)
  \/ EndChat

Spec == Init /\ [][Next]_vars

-----------------------------------------------------------------------------
(* Properties. *)

(* Whenever nobody holds the lock, exactly the allocations the slot names  *)
(* are live, one of each: a load that fails, wherever it does, gives back  *)
(* all it took, none of it twice, and a load tried again, or of a file of  *)
(* the other format, drops none.  And unless a model is loaded there are   *)
(* none.                                                                   *)
HeapMatchesSlot ==
  pc = "idle" => \A k \in Kinds : /\ heap[k] = IF slot[k] THEN 1 ELSE 0
                                  /\ slot[k] => Loaded

(* After every token, the logits are those the transformer gives for the   *)
(* tokens of this conversation: every operation has read the vectors it    *)
(* should, at the right layer, head and position, before they were         *)
(* overwritten, and the weights the exporter wrote under that name, none   *)
(* of them past the end of the file.                                       *)
LogitsFaithful ==
  (pc = "chat" /\ hist # <<>>) =>
    View(mem, LOGITS, VocabSize) = <<Node("logits", NLayers, hist, 0), 0>>

(* The cache holds the keys and values of the conversation's tokens, each  *)
(* in its place, and nothing of an earlier conversation after them.        *)
CacheIsConversation ==
  pc = "chat" =>
    \A l \in 0..(NLayers - 1), g \in 0..(NKvHeads - 1), p \in 0..(MaxSeq - 1) :
      LET h == SubSeq(hist, 1, p + 1)
          cell(kind) == View(mem, CacheHead(l, kind, g, p), HeadDim)
      IN  IF p < Len(hist)
          THEN /\ cell("k") = <<Node("kr", l, h, g), 0>>
               /\ cell("v") = <<Node("v", l, h, 0), g * HeadDim>>
          ELSE \A kind \in {"k", "v"}, d \in 0..(HeadDim - 1) :
                 mem[CacheHead(l, kind, g, p) + d] = Zero
=============================================================================
