------------------------------ MODULE Tokenizer ------------------------------
(***************************************************************************)
(* The GPT-2 byte-pair tokenizer of the in-kernel model                    *)
(* (hackbot_tokenizer.rs).  When a model is loaded the token ids are heap  *)
(* sorted by their bytes, so that a token can be found from its bytes by   *)
(* binary search; a text is then encoded in place, in the array the        *)
(* prompt is built in: one token per character first, as many as the array *)
(* has room for, and then merge after merge until no adjacent pair of      *)
(* tokens is itself a token.  The module takes one step per iteration of   *)
(* the loops of the source.                                                *)
(***************************************************************************)
EXTENDS Integers, FiniteSets, SequencesExt

CONSTANTS Vocabs,      \* the vocabularies a model file may hold
          Texts,       \* the texts to encode
          Rooms,       \* how many tokens the caller's array has left
          MaxPreproc,  \* MAX_PREPROC_INPUT: bytes of the preprocessed text
          MaxConcat,   \* concat_buf: bytes of the longest merged token
          DecodeRoom   \* decode_buf: bytes one token decodes to at most

(* A vocabulary gives each id its bytes and its score, and records the     *)
(* merges it was trained with, best first: the code never sees those.      *)
IsVocab(v) ==
  LET ids == DOMAIN v.bytes IN
  /\ ids = 0..(Cardinality(ids) - 1)
  /\ DOMAIN v.score = ids
  /\ \A id \in ids : v.bytes[id] \in Seq(0..255) /\ v.score[id] \in Int

ASSUME VocabAssumption == \A v \in Vocabs : IsVocab(v)
ASSUME RoomAssumption == /\ Rooms \subseteq Nat \ {0}
                         /\ {MaxPreproc, MaxConcat, DecodeRoom} \subseteq Nat

VARIABLES vocab,        \* the model's tokenizer section
          sorted,       \* sorted_vocab_addr: ids, by index from 0
          i, end, root, \* heapsort_vocab: next node, heap size, node sifted
          byteToToken,  \* byte_to_token
          phase,        \* "sort", "ready", "merge" or "done"
          text, room, tokens  \* encode_bpe: input and out_tokens[0..len]

sortVars == <<sorted, i, end, root>>
vars == <<vocab, sorted, i, end, root, byteToToken, phase, text, room, tokens>>

ENDOFTEXT == 0
NoToken == -1
Idle == -1
VocabSize == Cardinality(DOMAIN vocab.bytes)

-----------------------------------------------------------------------------
(* Bytes, characters and tokens. *)

(* The codepoint a byte is written as: printable bytes keep theirs, the    *)
(* others take the codepoints from 256 on, in order.                       *)
Printable == (33..126) \cup (161..172) \cup (174..255)
Codepoint ==
  [b \in 0..255 |->
     IF b \in Printable THEN b ELSE 256 + Cardinality((0..(b-1)) \ Printable)]

Utf8(cp) == IF cp < 128 THEN <<cp>> ELSE <<192 + cp \div 64, 128 + (cp % 64)>>

(* The inverse table has a slot for every codepoint below 324, the bytes   *)
(* that are no codepoint of the first table being 0 in it.                 *)
RawByte(cp) ==
  IF cp >= 324 THEN 63
  ELSE IF \E b \in 0..255 : Codepoint[b] = cp
       THEN CHOOSE b \in 0..255 : Codepoint[b] = cp
       ELSE 0

(* gpt2_decode_token: the raw bytes of a token, cut to the buffer. *)
Decoded(bytes) ==
  LET raw[k \in 1..(Len(bytes) + 1)] ==
        IF k > Len(bytes) THEN <<>>
        ELSE IF bytes[k] < 128 THEN <<RawByte(bytes[k])>> \o raw[k+1]
        ELSE IF bytes[k] \in 192..223 /\ k < Len(bytes)
             THEN <<RawByte((bytes[k] % 32) * 64 + (bytes[k+1] % 64))>> \o raw[k+2]
             ELSE <<63>> \o raw[k+1]
  IN  SubSeq(raw[1], 1, Min({DecodeRoom, Len(raw[1])}))

(* preprocess_gpt2: the characters of the text, up to the first that does  *)
(* not fit whole in the buffer.                                            *)
Preprocess(input) ==
  LET chars == [k \in 1..Len(input) |-> Utf8(Codepoint[input[k]])]
      fits(n) == Len(FlattenSeq(SubSeq(chars, 1, n))) <= MaxPreproc
  IN  SubSeq(chars, 1, CHOOSE n \in 0..Len(input) :
                         fits(n) /\ (n < Len(input) => ~ fits(n + 1)))

(* The order of byte slices: tok_bytes_cmp and find_token_by_bytes. *)
Before(a, b) ==
  \E k \in 1..Len(b) : /\ k - 1 <= Len(a)
                       /\ SubSeq(a, 1, k-1) = SubSeq(b, 1, k-1)
                       /\ k > Len(a) \/ a[k] < b[k]

-----------------------------------------------------------------------------
(* Sorting the vocabulary. *)

Below(p, q) == Before(vocab.bytes[sorted[p]], vocab.bytes[sorted[q]])

Swap(f, p, q) == [f EXCEPT ![p] = f[q], ![q] = f[p]]

(* The node that should be the parent among root and its children. *)
Largest(r, size) ==
  LET left == 2 * r + 1
      right == left + 1
      l == IF left < size /\ Below(r, left) THEN left ELSE r
  IN  IF right < size /\ Below(l, right) THEN right ELSE l

Heapify ==
  /\ phase = "sort" /\ root = Idle /\ i > 0
  /\ i' = i - 1
  /\ root' = i - 1
  /\ UNCHANGED <<vocab, sorted, end, byteToToken, phase, text, room, tokens>>

Extract ==
  /\ phase = "sort" /\ root = Idle /\ i = 0 /\ end > 1
  /\ end' = end - 1
  /\ sorted' = Swap(sorted, 0, end - 1)
  /\ root' = 0
  /\ UNCHANGED <<vocab, i, byteToToken, phase, text, room, tokens>>

SiftDown ==
  /\ phase = "sort" /\ root # Idle
  /\ LET largest == Largest(root, end) IN
     /\ sorted' = Swap(sorted, root, largest)
     /\ root' = IF largest = root THEN Idle ELSE largest
  /\ UNCHANGED <<vocab, i, end, byteToToken, phase, text, room, tokens>>

(* find_token_by_bytes: the id, or NoToken. *)
FindToken(query) ==
  LET search[lo \in 0..VocabSize, hi \in 0..VocabSize] ==
        IF lo >= hi THEN NoToken
        ELSE LET mid == lo + (hi - lo) \div 2
                 bytes == vocab.bytes[sorted[mid]]
             IN  IF query = bytes THEN sorted[mid]
                 ELSE IF Before(query, bytes) THEN search[lo, mid]
                 ELSE search[mid + 1, hi]
  IN  search[0, VocabSize]

TokenOf(char) == LET id == FindToken(char)
                 IN  IF id = NoToken THEN ENDOFTEXT ELSE id

(* The rest of build_sorted_vocab. *)
BuildTable ==
  /\ phase = "sort" /\ root = Idle /\ i = 0 /\ end <= 1
  /\ byteToToken' = [b \in 0..255 |-> TokenOf(Utf8(Codepoint[b]))]
  /\ phase' = "ready"
  /\ UNCHANGED <<vocab, sortVars, text, room, tokens>>

-----------------------------------------------------------------------------
(* Encoding a text: encode_bpe. *)

FirstTokens(input, slots) ==
  LET chars == Preprocess(input)
      token(c) == IF Len(c) = 1 THEN byteToToken[c[1]] ELSE TokenOf(c)
      n == Min({Len(chars), slots})
  IN  [k \in 1..n |-> token(chars[k])]

Encode(input, slots) ==
  /\ phase = "ready"
  /\ text' = input
  /\ room' = slots
  /\ tokens' = FirstTokens(input, slots)
  /\ phase' = "merge"
  /\ UNCHANGED <<vocab, sortVars, byteToToken>>

(* The token the pair at k would become, or NoToken. *)
Merged(k) ==
  LET both == vocab.bytes[tokens[k]] \o vocab.bytes[tokens[k+1]]
  IN  IF Len(both) > MaxConcat THEN NoToken ELSE FindToken(both)

Mergeable == {k \in 1..(Len(tokens) - 1) : Merged(k) # NoToken}

(* A faulty choice: a later pair replaces an equal one. *)
BestLast(k) == \A j \in Mergeable :
                 LET mine == vocab.score[Merged(k)]
                     other == vocab.score[Merged(j)]
                 IN  other < mine \/ (other = mine /\ k >= j)

(* The pair merged first: the best score, the leftmost of equal ones. *)
Best(k) == \A j \in Mergeable :
             LET mine == vocab.score[Merged(k)]
                 other == vocab.score[Merged(j)]
             IN  other < mine \/ (other = mine /\ k <= j)

Merge ==
  /\ phase = "merge"
  /\ \E k \in Mergeable :
       /\ Best(k)
       /\ tokens' = SubSeq(tokens, 1, k-1) \o <<Merged(k)>>
                      \o SubSeq(tokens, k+2, Len(tokens))
  /\ UNCHANGED <<vocab, sortVars, byteToToken, phase, text, room>>

Return ==
  /\ phase = "merge" /\ Mergeable = {}
  /\ phase' = "done"
  /\ UNCHANGED <<vocab, sortVars, byteToToken, text, room, tokens>>

(* The caller has moved on past the tokens (append_chat_tokens). *)
Taken ==
  /\ phase = "done"
  /\ phase' = "ready"
  /\ text' = <<>> /\ room' = 0 /\ tokens' = <<>>
  /\ UNCHANGED <<vocab, sortVars, byteToToken>>

-----------------------------------------------------------------------------
Init ==
  /\ vocab \in Vocabs
  /\ sorted = [k \in 0..(VocabSize - 1) |-> k]
  /\ i = VocabSize \div 2
  /\ end = VocabSize
  /\ root = Idle
  /\ byteToToken = [b \in 0..255 |-> ENDOFTEXT]
  /\ phase = "sort"
  /\ text = <<>> /\ room = 0 /\ tokens = <<>>

Next ==
  \/ Heapify \/ Extract \/ SiftDown \/ BuildTable
  \/ \E input \in Texts, slots \in Rooms : Encode(input, slots)
  \/ Merge \/ Return \/ Taken

Spec == Init /\ [][Next]_vars

-----------------------------------------------------------------------------
(* Properties. *)

(* Once the index is built, the binary search finds a token from its bytes *)
(* exactly when the vocabulary has one: for every token, for every         *)
(* concatenation the merge loop could ask for, and for every character.    *)
SearchExact ==
  phase = "ready" =>
    LET known == {vocab.bytes[id] : id \in DOMAIN vocab.bytes}
        pairs == {p \o q : p \in known, q \in known}
        chars == {Utf8(Codepoint[b]) : b \in 0..255}
    IN  \A query \in known \cup pairs \cup chars :
          LET id == FindToken(query) IN
          IF query \in known
          THEN id \in DOMAIN vocab.bytes /\ vocab.bytes[id] = query
          ELSE id = NoToken

(* However far the merging is, the tokens spell the text from its start,   *)
(* as far as characters fit the two buffers; a byte without a token of its *)
(* own stands in it as the end-of-text token.  What decoding writes for    *)
(* the tokens, as the generator does token by token, is that text, unless  *)
(* a token is longer than the generator's buffer.                          *)
RoundTrip ==
  (phase \in {"merge", "done"}
   /\ \A k \in 1..Len(tokens) : Len(vocab.bytes[tokens[k]]) <= DecodeRoom) =>
    LET n == Len(FirstTokens(text, room))
        spelled(b) == IF \E id \in DOMAIN vocab.bytes :
                           vocab.bytes[id] = Utf8(Codepoint[b])
                      THEN <<b>> ELSE Decoded(vocab.bytes[ENDOFTEXT])
    IN  FlattenSeq([k \in 1..Len(tokens) |-> Decoded(vocab.bytes[tokens[k]])])
          = FlattenSeq([k \in 1..n |-> spelled(text[k])])

(* The encoding is the one the vocabulary was trained with: the merges of  *)
(* the training, each applied from left to right wherever its pair occurs, *)
(* best first; although the code knows no merges, only the tokens they     *)
(* produced and a score for each, and merges one pair at a time.           *)
Apply(units, rule) ==
  FoldLeft(LAMBDA done, u :
             IF done # <<>> /\ Last(done) = rule[1] /\ u = rule[2]
                /\ Len(rule[1]) + Len(rule[2]) <= MaxConcat
             THEN Append(Front(done), rule[1] \o rule[2])
             ELSE Append(done, u), <<>>, units)

AsTrained ==
  phase = "done" =>
    LET chars == FirstTokens(text, room) IN
    [k \in 1..Len(tokens) |-> vocab.bytes[tokens[k]]]
      = FoldLeft(Apply, [k \in 1..Len(chars) |-> vocab.bytes[chars[k]]],
                 vocab.merges)
=============================================================================
