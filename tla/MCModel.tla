------------------------------- MODULE MCModel -------------------------------
(* The local model: the text around it and the model itself. They share no *)
(* state, so that one of them is active in each behaviour and the other is *)
(* as it begins.                                                           *)
(*   tokenizer  small vocabularies: an end-of-text token, characters of    *)
(*              one and of two bytes, and the tokens of a few merges,      *)
(*              under ids in several orders; all short texts               *)
(*   inference  two layers, four heads sharing two cached heads, room for  *)
(*              three positions; prompts of every length, one too long     *)
EXTENDS Tokenizer

MCEnd == <<60, 124>>
MCa == Utf8(Codepoint[97])
MCb == Utf8(Codepoint[98])
MCSpace == Utf8(Codepoint[32])
MCAccent == Utf8(Codepoint[233])

(* The tokens are the characters and then what each merge produces, the    *)
(* k-th token being given the id order[k].                                 *)
MCVocab(chars, merges, order) ==
  LET all == chars \o [r \in 1..Len(merges) |-> merges[r][1] \o merges[r][2]]
      at(id) == CHOOSE k \in 1..Len(all) : order[k] = id
  IN  [bytes |-> [id \in 0..(Len(all) - 1) |-> all[at(id)]],
       score |-> [id \in 0..(Len(all) - 1) |-> Len(chars) - at(id)],
       merges |-> merges]

MCVocabs ==
  { MCVocab(<<MCEnd, MCa, MCb, MCSpace, MCAccent>>,
            <<<<MCSpace, MCa>>, <<MCa, MCb>>, <<MCSpace \o MCa, MCb>>, <<MCb, MCb>>>>,
            order) : order \in {<<0, 1, 2, 3, 4, 5, 6, 7, 8>>,
                                <<0, 8, 7, 6, 5, 4, 3, 2, 1>>,
                                <<4, 7, 2, 0, 8, 3, 6, 1, 5>>} }
  \cup
  { MCVocab(<<MCEnd, MCa, MCSpace>>,
            <<<<MCa, MCa>>, <<MCa \o MCa, MCa \o MCa>>, <<MCSpace, MCa \o MCa>>,
              <<MCSpace \o MCa \o MCa, MCa>>>>,
            order) : order \in {<<0, 6, 1, 5, 2, 4, 3>>, <<0, 2, 4, 6, 1, 3, 5>>} }

MCTexts == UNION {[1..n -> {97, 98, 32, 233}] : n \in 1..4}
             \cup [1..5 -> {97, 32}]

VARIABLES
    active, \* the component that moves
    pc, file, slot, heap, refs, mem, hist, todo, left, loads, chats

Net == INSTANCE Inference WITH
    Dim <- 8, HiddenDim <- 4, NLayers <- 2, NHeads <- 4, NKvHeads <- 2,
    HeadDim <- 2, VocabSize <- 4, GroupSize <- 4, MaxSeq <- 3, TokSize <- 5,
    Prompts <- {<<3>>, <<1, 3>>, <<3, 3, 1>>, <<1, 3, 1, 3>>}, MaxNew <- 2,
    MaxLoads <- 2, MaxChats <- 2

ASSUME ModelAssumption == Net!ShapeAssumption

ofNet == <<pc, file, slot, heap, refs, mem, hist, todo, left, loads, chats>>

MCInit ==
    /\ active \in {"tokenizer", "inference"}
    /\ Init
    /\ Net!Init
    /\ active = "inference" => vocab = CHOOSE v \in Vocabs : TRUE

MCNext ==
    \/ active = "tokenizer" /\ Next /\ UNCHANGED <<active, ofNet>>
    \/ active = "inference" /\ Net!Next /\ UNCHANGED <<active, vars>>

MCSpec == MCInit /\ [][MCNext]_<<active, vars, ofNet>>

(* The index finds exactly the tokens there are; however far merging is,   *)
(* the tokens spell the text; and in the end they are the encoding the     *)
(* vocabulary was trained with.                                            *)
EncodingAsTrained == SearchExact /\ RoundTrip /\ AsTrained

(* The logits are those of the transformer for the tokens of this          *)
(* conversation, and the cache holds its keys and values and no others.    *)
LogitsFaithful == Net!LogitsFaithful /\ Net!CacheIsConversation
==============================================================================
