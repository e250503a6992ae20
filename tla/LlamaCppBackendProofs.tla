----------------------- MODULE LlamaCppBackendProofs -----------------------
(***************************************************************************)
(* Proofs about the llama.cpp backend, for any requests, batch and context *)
(* size: an invariant of load(), unload() and infer_batch() under which    *)
(* llama_decode() gets what it requires and a sequence samples from its    *)
(* own logits.  LlamaServerProofs shows that the server establishes it.    *)
(***************************************************************************)
EXTENDS LlamaCppBackend, TLAPS

\* The configuration of a worker that serves.
Configured ==
  LET c == config
  IN  /\ c.max_sequences \in 1..(U32 - 1)
      /\ c.n_batch \in Nat /\ c.max_sequences <= c.n_batch
      /\ c.context_tokens_per_sequence \in 1..(U32 - 1)

ConfigInv == pc # "idle" => Configured

\* Every context has room for the sequences of a batch.
LoadedInv ==
  \A id \in DOMAIN loaded :
    /\ loaded[id] = config.context_tokens_per_sequence * config.max_sequences
    /\ config.max_sequences <= LLAMA_MAX_SEQ

Decoding == {"prefix", "decode_prefix", "bootstrap", "decode", "sample"}

\* The call of infer_batch().
CallInv ==
  /\ requests \in Seq(Requests)
  /\ pc \in {"idle", "entered"} \cup Decoding
  /\ pc # "idle" => requests # <<>>
  /\ pc \in Decoding =>
       model_id[requests[1]] \in DOMAIN loaded /\ Len(requests) <= config.max_sequences

\* The request of sequence k, and the tokens it has so far.
Of(k) == requests[live[k].result_index]
Whole(k) == prompt[Of(k)] \o live[k].text

LiveType == [result_index : Nat, seq_id : Nat, n_past : Nat, generated : Nat,
             text : Seq(Tokens), active : BOOLEAN, logits_batch_index : Int]

\* What is decoded: request k as sequence k - 1, if it fits.
LiveInv ==
  /\ live \in Seq(LiveType)
  /\ Len(live) <= Len(requests)
  /\ \A k \in DOMAIN live :
       /\ live[k].seq_id = k - 1
       /\ live[k].result_index \in DOMAIN requests
       /\ prompt[Of(k)] # <<>>
       /\ needed(Of(k)) <= config.context_tokens_per_sequence
       /\ live[k].generated = Len(live[k].text)
       /\ live[k].active => live[k].generated < max_output_tokens[Of(k)]

\* The cache never outgrows the share of a sequence.
CacheInv ==
  /\ kv \in [0..(LLAMA_MAX_SEQ - 1) -> Seq(Tokens)]
  /\ \A s \in DOMAIN kv : Len(kv[s]) <= config.context_tokens_per_sequence

EntryType == [token : Tokens, pos : Nat, seq_id : Nat, logits : BOOLEAN]

\* The first stages: nothing has been generated, and the cache has the
\* beginning of each prompt.
PromptInv ==
  \A k \in DOMAIN live :
    /\ live[k].active /\ live[k].text = <<>>
    /\ live[k].n_past < Len(prompt[Of(k)])
    /\ Len(kv[k - 1]) <= live[k].n_past
    /\ \A p \in DOMAIN kv[k - 1] : kv[k - 1][p] = prompt[Of(k)][p]

\* The batch has the tokens between the cache and n_past, in order.
PrefixInv ==
  /\ batch \in Seq(EntryType) /\ Len(batch) <= config.n_batch
  /\ \A i \in DOMAIN batch :
       LET k == batch[i].seq_id + 1
       IN  /\ k \in DOMAIN live
           /\ batch[i].pos \in Len(kv[k - 1])..(live[k].n_past - 1)
           /\ batch[i].token = prompt[Of(k)][batch[i].pos + 1]
  /\ \A k \in DOMAIN live : \A p \in Len(kv[k - 1])..(live[k].n_past - 1) :
       \E i \in DOMAIN batch : batch[i].seq_id = k - 1 /\ batch[i].pos = p
  /\ \A i, j \in DOMAIN batch :
       i < j /\ batch[i].seq_id = batch[j].seq_id => batch[i].pos < batch[j].pos

\* Before the bootstrap all but the last token of a prompt is in the cache.
BootstrapInv ==
  \A k \in DOMAIN live : live[k].n_past = Len(kv[k - 1]) /\ live[k].n_past + 1 = Len(prompt[Of(k)])

\* The batch has one token of each active sequence, the last, at its index.
DecodeInv ==
  /\ batch \in Seq(EntryType) /\ Len(batch) <= Len(live)
  /\ \A i \in DOMAIN batch :
       LET k == batch[i].seq_id + 1
       IN  k \in DOMAIN live /\ live[k].active /\ live[k].logits_batch_index + 1 = i
  /\ \A k \in DOMAIN live :
       live[k].active =>
         LET i == live[k].logits_batch_index + 1
         IN  /\ i \in DOMAIN batch
             /\ batch[i].seq_id = k - 1 /\ batch[i].logits
             /\ live[k].n_past = Len(Whole(k)) /\ batch[i].pos + 1 = live[k].n_past
             /\ batch[i].token = Whole(k)[live[k].n_past]
             /\ Len(kv[k - 1]) + 1 = live[k].n_past
             /\ \A p \in DOMAIN kv[k - 1] : kv[k - 1][p] = Whole(k)[p]

\* A sequence samples from the logits of all its tokens.
SampleInv ==
  \A k \in DOMAIN live :
    live[k].active =>
      /\ live[k].logits_batch_index + 1 \in DOMAIN logits
      /\ logits[live[k].logits_batch_index + 1] = Whole(k)
      /\ live[k].n_past = Len(Whole(k))
      /\ kv[k - 1] = Whole(k)

StageInv ==
  /\ pc \in Decoding => LiveInv /\ CacheInv
  /\ pc \in {"idle", "entered"} => batch = <<>>
  /\ pc \in {"prefix", "decode_prefix", "bootstrap"} => PromptInv
  /\ pc \in {"prefix", "decode_prefix"} => PrefixInv
  /\ pc = "bootstrap" => BootstrapInv
  /\ pc = "decode" => DecodeInv
  /\ pc = "sample" => SampleInv

DecodingInv == ConfigInv /\ LoadedInv /\ CallInv /\ StageInv

-----------------------------------------------------------------------------

\* Two sequences one after the other.
LEMMA Concat ==
  ASSUME NEW S, NEW p \in Seq(S), NEW t \in Seq(S)
  PROVE  /\ p \o t \in Seq(S) /\ Len(p \o t) = Len(p) + Len(t)
         /\ DOMAIN (p \o t) = 1..(Len(p) + Len(t))
         /\ \A i \in 1..Len(p) : (p \o t)[i] = p[i]
         /\ t = <<>> => p \o t = p
OBVIOUS

\* A token more at the end.
LEMMA ConcatAppend ==
  ASSUME NEW S, NEW p \in Seq(S), NEW t \in Seq(S), NEW x \in S
  PROVE  /\ Append(t, x) \in Seq(S) /\ Len(Append(t, x)) = Len(t) + 1
         /\ Len(p \o Append(t, x)) = Len(p) + Len(t) + 1
         /\ \A i \in 1..(Len(p) + Len(t)) : (p \o Append(t, x))[i] = (p \o t)[i]
         /\ (p \o Append(t, x))[Len(p) + Len(t) + 1] = x
OBVIOUS

\* Sequences with the same elements are the same.
LEMMA SameSequence ==
  ASSUME NEW S, NEW s \in Seq(S), NEW t \in Seq(S), Len(s) = Len(t),
         \A i \in 1..Len(s) : s[i] = t[i]
  PROVE  s = t
OBVIOUS

\* Sequences are functions.
LEMMA SequenceMap ==
  ASSUME NEW S, NEW s \in Seq(S)
  PROVE  Len(s) \in Nat /\ DOMAIN s = 1..Len(s) /\ s \in [1..Len(s) -> S]
OBVIOUS

\* And functions on an initial segment are sequences.
LEMMA MapSequence ==
  ASSUME NEW S, NEW n \in Nat, NEW f, f = [k \in 1..n |-> f[k]], \A k \in 1..n : f[k] \in S
  PROVE  f \in Seq(S) /\ Len(f) = n /\ DOMAIN f = 1..n
OBVIOUS

\* Division with remainder.
LEMMA Quotient ==
  ASSUME NEW a \in Int, NEW b \in Nat \ {0}
  PROVE  a % b \in 0..(b - 1) /\ a \div b \in Int /\ a = b * (a \div b) + (a % b)
OBVIOUS

\* A product divided by a factor.
LEMMA Share ==
  ASSUME NEW a \in Nat, NEW b \in Nat \ {0}
  PROVE  (a * b) \div b = a
<1>1. PICK q \in Int : q = (a * b) \div b
  OBVIOUS
<1>2. PICK r \in 0..(b - 1) : a * b = b * q + r
  <2>1. a * b \in Int
    OBVIOUS
  <2> QED
    BY <1>1, <2>1, Quotient, Zenon
<1>3. b * (a - q) = r
  BY <1>1, <1>2
<1>4. CASE a - q >= 1
  BY <1>3, <1>4
<1>5. CASE a - q <= -1
  BY <1>3, <1>5
<1> QED
  BY <1>1, <1>4, <1>5

\* The product of checked_mul_u32() has not wrapped.
LEMMA Product ==
  ASSUME U32 \in Nat, NEW a \in 1..(U32 - 1), NEW b \in 1..(U32 - 1), NEW n_ctx \in checked_mul_u32(a, b)
  PROVE  n_ctx = a * b
<1>1. PICK q \in Int : q = (U32 - 1) \div b
  OBVIOUS
<1>2. a <= q /\ n_ctx = (a * b) % U32
  BY <1>1 DEF checked_mul_u32
<1>3. PICK r \in 0..(b - 1) : U32 - 1 = b * q + r
  <2>1. U32 - 1 \in Int /\ b \in Nat \ {0}
    OBVIOUS
  <2> QED
    BY <1>1, <2>1, Quotient, Zenon
<1>4. PICK d \in Nat : q = a + d
  BY <1>2
<1>5. b * q = a * b + b * d
  BY <1>4
<1>6. b * d \in Nat /\ a * b \in Nat
  BY <1>4
<1>7. a * b <= U32 - 1
  BY <1>3, <1>5, <1>6
<1>8. PICK m \in Nat : m = a * b
  BY <1>6
<1>9. m % U32 = m
  BY <1>7, <1>8
<1> QED
  BY <1>2, <1>8, <1>9
-----------------------------------------------------------------------------

\* The largest element of a set.
LEMMA MaxIs ==
  ASSUME NEW S \in SUBSET Int, NEW m \in S, \A x \in S : x <= m
  PROVE  Max(S) = m
<1> DEFINE M == CHOOSE x \in S : \A y \in S : x >= y
<1>1. \E x \in S : \A y \in S : x >= y
  OBVIOUS
<1>2. M \in S /\ \A y \in S : M >= y
  BY <1>1, Zenon
<1>3. M \in Int /\ m \in Int /\ M >= m /\ M <= m
  BY <1>2, Zenon
<1> HIDE DEF M
<1>4. M = m
  BY <1>3
<1> QED
  BY <1>4 DEF Max, M

\* The entries of the batch.
LEMMA EntryFields ==
  ASSUME batch \in Seq(EntryType), NEW i \in DOMAIN batch
  PROVE  /\ batch[i].token \in Tokens /\ batch[i].pos \in Nat /\ batch[i].seq_id \in Nat
         /\ batch[i].logits \in BOOLEAN
         /\ i \in Nat
<1>1. batch[i] \in EntryType
  OBVIOUS
<1> QED
  BY <1>1 DEF EntryType

\* The sequences being decoded.
LEMMA LiveFields ==
  ASSUME LiveInv, NEW k \in DOMAIN live
  PROVE  /\ k \in 1..Len(live) /\ Len(live) \in Nat
         /\ live[k] = [result_index |-> live[k].result_index, seq_id |-> live[k].seq_id,
                       n_past |-> live[k].n_past, generated |-> live[k].generated,
                       text |-> live[k].text, active |-> live[k].active,
                       logits_batch_index |-> live[k].logits_batch_index]
         /\ live[k].result_index \in Nat /\ live[k].seq_id \in Nat /\ live[k].n_past \in Nat
         /\ live[k].generated \in Nat /\ live[k].text \in Seq(Tokens)
         /\ live[k].active \in BOOLEAN /\ live[k].logits_batch_index \in Int
<1>1. live \in Seq(LiveType)
  BY DEF LiveInv
<1>2. live[k] \in LiveType /\ k \in 1..Len(live) /\ Len(live) \in Nat
  BY <1>1
<1> QED
  BY <1>2 DEF LiveType

\* Where a sequence ends whose entries of the batch continue the cache.
LEMMA EndIs ==
  ASSUME NEW s \in DOMAIN kv, kv[s] \in Seq(Tokens), batch \in Seq(EntryType),
         NEW e \in Nat, Len(kv[s]) <= e,
         {batch[i].pos : i \in Mine(s)} = Len(kv[s])..(e - 1)
  PROVE  End(s) = e
<1> DEFINE Ends == {Len(kv[s])} \cup {batch[i].pos + 1 : i \in Mine(s)}
<1>1. ASSUME NEW i \in Mine(s) PROVE batch[i].pos \in Nat /\ batch[i].pos + 1 <= e
  <2>1. batch[i].pos \in {batch[j].pos : j \in Mine(s)}
    OBVIOUS
  <2>2. batch[i].pos \in Len(kv[s])..(e - 1)
    BY <2>1
  <2> QED
    BY <2>2
<1>2. Ends \in SUBSET Int /\ \A x \in Ends : x <= e
  BY <1>1
<1>3. e \in Ends
  <2>1. CASE e = Len(kv[s])
    BY <2>1
  <2>2. CASE e > Len(kv[s])
    <3>1. e - 1 \in {batch[i].pos : i \in Mine(s)}
      <4>1. e - 1 \in Len(kv[s])..(e - 1)
        BY <2>2
      <4> QED
        BY <4>1, Zenon
    <3>2. PICK i \in Mine(s) : e - 1 = batch[i].pos
      BY <3>1
    <3> QED
      BY <3>2
  <2> QED
    BY <2>1, <2>2
<1>4. Max(Ends) = e
  <2> HIDE DEF Ends
  <2> QED BY <1>2, <1>3, MaxIs
<1> QED
  BY <1>4 DEF End

\* In the prefix stage the entries of a sequence lead up to its n_past.
LEMMA PrefixEnds ==
  ASSUME LiveInv, CacheInv, PromptInv, PrefixInv, NEW s \in DOMAIN kv
  PROVE  /\ End(s) = IF s + 1 \in DOMAIN live THEN live[s + 1].n_past ELSE Len(kv[s])
         /\ {batch[i].pos : i \in Mine(s)} = Len(kv[s])..(End(s) - 1)
         /\ \A i, j \in Mine(s) : i < j => batch[i].pos < batch[j].pos
<1>1. s \in Nat /\ kv[s] \in Seq(Tokens) /\ Len(kv[s]) \in Nat
  BY TokenAssumption DEF CacheInv
<1>2. batch \in Seq(EntryType) /\ Mine(s) \subseteq DOMAIN batch
  BY DEF PrefixInv, Mine
<1>3. \A i \in Mine(s) : batch[i].pos \in Nat /\ batch[i].seq_id = s
  BY <1>2, EntryFields DEF Mine
<1>4. CASE s + 1 \in DOMAIN live
  <2> DEFINE n == live[s + 1].n_past
  <2>0. PICK k \in DOMAIN live : k = s + 1 /\ k - 1 = s
    BY <1>1, <1>4
  <2>1. n \in Nat /\ Len(kv[s]) <= n
    <3>1. live[k].n_past \in Nat
      BY LiveFields
    <3>2. Len(kv[k - 1]) <= live[k].n_past
      BY DEF PromptInv
    <3> QED
      BY <2>0, <3>1, <3>2
  <2>2. ASSUME NEW i \in Mine(s) PROVE batch[i].pos \in Len(kv[s])..(n - 1)
    <3>1. batch[i].seq_id + 1 = k /\ i \in DOMAIN batch
      BY <1>2, <1>3, <2>0
    <3>2. batch[i].pos \in Len(kv[k - 1])..(live[k].n_past - 1)
      BY <3>1 DEF PrefixInv
    <3> QED
      BY <2>0, <3>2
  <2>3. \A p \in Len(kv[k - 1])..(live[k].n_past - 1) : \E i \in DOMAIN batch :
          batch[i].seq_id = k - 1 /\ batch[i].pos = p
    BY DEF PrefixInv
  <2>4. \A p \in Len(kv[s])..(n - 1) : \E i \in Mine(s) : batch[i].pos = p
    BY <2>0, <2>3, Zenon DEF Mine
  <2>5. {batch[i].pos : i \in Mine(s)} = Len(kv[s])..(n - 1)
    <3> HIDE DEF n
    <3> QED BY <2>2, <2>4
  <2>6. End(s) = n
    <3> HIDE DEF n
    <3> QED BY <1>1, <1>2, <2>1, <2>5, EndIs, Zenon
  <2>7. \A i, j \in Mine(s) : i < j => batch[i].pos < batch[j].pos
    BY <1>2, <1>3 DEF PrefixInv
  <2> QED
    BY <1>4, <2>5, <2>6, <2>7
<1>5. CASE s + 1 \notin DOMAIN live
  <2>1. Mine(s) = {}
    BY <1>2, <1>3, <1>5 DEF PrefixInv
  <2> QED
    BY <1>1, <1>2, <1>5, <2>1, EndIs
<1> QED
  BY <1>4, <1>5

\* Later an active sequence has one entry, and it is the next.
LEMMA DecodeEnds ==
  ASSUME LiveInv, CacheInv, DecodeInv, NEW s \in DOMAIN kv
  PROVE  /\ End(s) = IF s + 1 \in DOMAIN live /\ live[s + 1].active
                     THEN live[s + 1].n_past ELSE Len(kv[s])
         /\ {batch[i].pos : i \in Mine(s)} = Len(kv[s])..(End(s) - 1)
         /\ \A i, j \in Mine(s) : i < j => batch[i].pos < batch[j].pos
<1>1. s \in Nat /\ kv[s] \in Seq(Tokens) /\ Len(kv[s]) \in Nat
  BY TokenAssumption DEF CacheInv
<1>2. batch \in Seq(EntryType) /\ Mine(s) \subseteq DOMAIN batch
  BY DEF DecodeInv, Mine
<1>3. \A i \in Mine(s) : batch[i].pos \in Nat /\ batch[i].seq_id = s
  BY <1>2, EntryFields DEF Mine
<1>4. CASE s + 1 \in DOMAIN live /\ live[s + 1].active
  <2>0. PICK k \in DOMAIN live : k = s + 1 /\ k - 1 = s /\ live[k].active
    BY <1>1, <1>4
  <2>1. PICK i : i = live[k].logits_batch_index + 1
    OBVIOUS
  <2>2. /\ i \in DOMAIN batch /\ batch[i].seq_id = k - 1
        /\ batch[i].pos + 1 = live[k].n_past /\ Len(kv[k - 1]) + 1 = live[k].n_past
    BY <2>0, <2>1 DEF DecodeInv
  <2>3. i \in Mine(s) /\ batch[i].pos \in Nat
    BY <1>2, <2>0, <2>2, EntryFields DEF Mine
  <2>4. batch[i].pos = Len(kv[s]) /\ live[k].n_past = Len(kv[s]) + 1
    BY <1>1, <2>0, <2>2, <2>3
  <2>5. ASSUME NEW j \in Mine(s) PROVE j = i
    <3>1. batch[j].seq_id + 1 = k /\ j \in DOMAIN batch
      BY <1>2, <1>3, <2>0, Zenon
    <3>2. live[k].logits_batch_index + 1 = j
      BY <3>1 DEF DecodeInv
    <3> QED
      BY <2>1, <3>2
  <2>6. Mine(s) = {i}
    BY <2>3, <2>5
  <2>7. PICK e \in Nat : e = Len(kv[s]) + 1 /\ Len(kv[s]) <= e
    BY <1>1
  <2>8. {batch[j].pos : j \in Mine(s)} = Len(kv[s])..(e - 1)
    BY <1>1, <2>4, <2>6, <2>7
  <2>9. End(s) = e
    BY <1>1, <1>2, <2>7, <2>8, EndIs, Zenon
  <2>10. i \in Nat
    BY <1>2, <2>2, EntryFields
  <2> QED
    BY <1>4, <2>0, <2>4, <2>6, <2>7, <2>8, <2>9, <2>10
<1>5. CASE ~(s + 1 \in DOMAIN live /\ live[s + 1].active)
  <2>1. Mine(s) = {}
    BY <1>2, <1>3, <1>5, Zenon DEF DecodeInv
  <2> QED
    BY <1>1, <1>2, <1>5, <2>1, EndIs, SMTT(60)
<1> QED
  BY <1>4, <1>5

\* llama_decode() adds the tokens of the batch to the cache.
LEMMA Decoded ==
  ASSUME CacheInv, batch \in Seq(EntryType), llama_decode, NEW s \in DOMAIN kv,
         End(s) \in Nat, Len(kv[s]) <= End(s)
  PROVE  /\ kv'[s] \in Seq(Tokens) /\ Len(kv'[s]) = End(s) /\ DOMAIN kv'[s] = 1..End(s)
         /\ \A p \in DOMAIN kv[s] : kv'[s][p] = kv[s][p]
         /\ \A i \in Mine(s) : kv'[s][batch[i].pos + 1] = batch[i].token
<1> DEFINE added(p) == batch[CHOOSE i \in Mine(s) : batch[i].pos = p].token
           held == kv[s]
           e == End(s)
<1>1. held \in Seq(Tokens) /\ Len(held) \in Nat /\ DOMAIN held = 1..Len(held)
  BY DEF CacheInv
<1>2. /\ {batch[i].pos : i \in Mine(s)} = Len(held)..(e - 1)
      /\ \A i, j \in Mine(s) : i < j => batch[i].pos < batch[j].pos
  BY Zenon DEF llama_decode, Decodable
<1>3. kv'[s] = [p \in 1..e |-> IF p \in DOMAIN held THEN held[p] ELSE added(p - 1)]
  BY DEF llama_decode
<1>4. ASSUME NEW i \in Mine(s)
      PROVE  /\ i \in DOMAIN batch /\ i \in Nat /\ batch[i].pos \in Nat
             /\ batch[i].token \in Tokens
  BY EntryFields DEF Mine
<1>5. e \in Nat /\ Len(held) <= e
  OBVIOUS
<1>6. ASSUME NEW i \in Mine(s)
      PROVE  added(batch[i].pos) = batch[i].token
  <2> DEFINE j == CHOOSE j \in Mine(s) : batch[j].pos = batch[i].pos
  <2>1. j \in Mine(s) /\ batch[j].pos = batch[i].pos
    OBVIOUS
  <2> HIDE DEF j
  <2>2. ~ (i < j) /\ ~ (j < i) /\ i \in Nat /\ j \in Nat
    BY <1>2, <1>4, <2>1
  <2>3. i = j
    BY <2>2
  <2> QED
    BY <2>3, Zenon DEF j
<1> HIDE DEF e, held, added
<1>7. ASSUME NEW p \in 1..e, p \notin DOMAIN held
      PROVE  added(p - 1) \in Tokens
  <2>1. p - 1 \in Len(held)..(e - 1)
    BY <1>1, <1>5, <1>7
  <2>2. PICK i \in Mine(s) : batch[i].pos = p - 1
    BY <1>2, <2>1, Zenon
  <2> QED
    BY <1>4, <1>6, <2>2
<1>8. kv'[s] \in [1..e -> Tokens]
  BY <1>1, <1>3, <1>7
<1>9. kv'[s] \in Seq(Tokens) /\ Len(kv'[s]) = e /\ DOMAIN kv'[s] = 1..e
  BY <1>5, <1>8
<1>10. \A p \in DOMAIN held : kv'[s][p] = held[p]
  BY <1>1, <1>3, <1>5
<1>11. ASSUME NEW i \in Mine(s) PROVE kv'[s][batch[i].pos + 1] = batch[i].token
  <2>1. batch[i].pos \in Len(held)..(e - 1)
    BY <1>2
  <2>2. batch[i].pos + 1 \in 1..e /\ batch[i].pos + 1 \notin DOMAIN held
        /\ (batch[i].pos + 1) - 1 = batch[i].pos
    BY <1>1, <1>4, <1>5, <2>1, SMTT(60)
  <2> QED
    BY <1>3, <1>6, <2>2
<1> QED
  BY <1>5, <1>9, <1>10, <1>11, Zenon DEF e, held
-----------------------------------------------------------------------------

\* The request of a sequence.
LEMMA OfRequest ==
  ASSUME CallInv, LiveInv, NEW k \in DOMAIN live
  PROVE  /\ Of(k) \in Requests /\ prompt[Of(k)] \in Seq(Tokens)
         /\ Len(prompt[Of(k)]) \in Nat /\ max_output_tokens[Of(k)] \in Nat \ {0}
         /\ DOMAIN prompt[Of(k)] = 1..Len(prompt[Of(k)])
         /\ needed(Of(k)) = Len(prompt[Of(k)]) + max_output_tokens[Of(k)]
         /\ needed(Of(k)) <= config.context_tokens_per_sequence
<1>1. Of(k) \in Requests
  <2>1. live[k].result_index \in DOMAIN requests /\ requests \in Seq(Requests)
    BY DEF CallInv, LiveInv
  <2> QED
    BY <2>1 DEF Of
<1>2. needed(Of(k)) <= config.context_tokens_per_sequence
  BY DEF LiveInv
<1>3. prompt[Of(k)] \in Seq(Tokens) /\ max_output_tokens[Of(k)] \in Nat \ {0}
  BY <1>1, TokenAssumption
<1> QED
  BY <1>1, <1>2, <1>3 DEF needed

\* The sizes of a context that decodes.
LEMMA Sizes ==
  ASSUME DecodingInv, pc \in Decoding
  PROVE  /\ config.max_sequences \in 1..(U32 - 1) /\ n_seq_max = config.max_sequences
         /\ config.max_sequences <= LLAMA_MAX_SEQ
         /\ config.context_tokens_per_sequence \in 1..(U32 - 1)
         /\ config.n_batch \in Nat /\ config.max_sequences <= config.n_batch
         /\ loaded[model_id[requests[1]]] \div n_seq_max = config.context_tokens_per_sequence
<1>1. pc # "idle"
  BY DEF Decoding
<1>2. /\ config.max_sequences \in 1..(U32 - 1)
      /\ config.context_tokens_per_sequence \in 1..(U32 - 1)
      /\ config.n_batch \in Nat /\ config.max_sequences <= config.n_batch
  BY <1>1 DEF DecodingInv, ConfigInv, Configured
<1>3. \A n \in 1..(U32 - 1) : n % U32 = n
  BY TokenAssumption
<1>4. n_seq_max = config.max_sequences
  BY <1>2, <1>3 DEF n_seq_max
<1>5. /\ loaded[model_id[requests[1]]] = config.context_tokens_per_sequence * config.max_sequences
      /\ config.max_sequences <= LLAMA_MAX_SEQ
  BY DEF DecodingInv, CallInv, LoadedInv
<1>6. PICK a \in Nat : a = config.context_tokens_per_sequence
  BY <1>2, TokenAssumption
<1>7. PICK b \in Nat \ {0} : b = config.max_sequences
  BY <1>2, TokenAssumption
<1>8. (a * b) \div b = a
  BY Share
<1> QED
  BY <1>1, <1>2, <1>4, <1>5, <1>6, <1>7, <1>8

\* What is left alone while infer_batch() goes on.
LEMMA StillDecoding ==
  ASSUME DecodingInv, pc \in Decoding, pc' \in Decoding, UNCHANGED <<config, loaded, requests>>
  PROVE  ConfigInv' /\ LoadedInv' /\ CallInv'
<1>1. pc # "idle"
  BY DEF Decoding
<1>2. ConfigInv' /\ LoadedInv'
  BY <1>1 DEF DecodingInv, ConfigInv, Configured, LoadedInv
<1>3. CallInv'
  BY <1>1 DEF DecodingInv, CallInv, Decoding
<1> QED
  BY <1>2, <1>3

\* infer_batch() returns.
LEMMA ReturnKeeps ==
  ASSUME DecodingInv, NEW answers, Return(answers)
  PROVE  DecodingInv'
<1>1. pc' = "idle" /\ batch' = <<>> /\ UNCHANGED <<config, loaded, requests>>
  BY DEF Return
<1>2. ConfigInv' /\ LoadedInv'
  BY <1>1 DEF DecodingInv, ConfigInv, LoadedInv
<1>3. CallInv' /\ StageInv'
  BY <1>1 DEF DecodingInv, CallInv, StageInv, Decoding
<1> QED
  BY <1>2, <1>3 DEF DecodingInv

\* The prompts fit.
LEMMA PrefixFits ==
  ASSUME CallInv, LiveInv, CacheInv, PromptInv, PrefixInv, NEW s \in DOMAIN kv,
         config.context_tokens_per_sequence \in Nat
  PROVE  /\ End(s) \in Nat /\ Len(kv[s]) <= End(s)
         /\ End(s) <= config.context_tokens_per_sequence
<1>1. s \in Nat /\ Len(kv[s]) \in Nat /\ Len(kv[s]) <= config.context_tokens_per_sequence
  BY TokenAssumption DEF CacheInv
<1>2. CASE s + 1 \in DOMAIN live
  <2>1. PICK k \in DOMAIN live : k = s + 1 /\ k - 1 = s
    BY <1>1, <1>2
  <2>2. End(s) = live[k].n_past
    BY <2>1, PrefixEnds
  <2>3. live[k].n_past < Len(prompt[Of(k)]) /\ Len(kv[k - 1]) <= live[k].n_past
    BY DEF PromptInv
  <2>4. live[k].n_past \in Nat
    BY LiveFields
  <2>5. Len(prompt[Of(k)]) \in Nat /\ Len(prompt[Of(k)]) <= config.context_tokens_per_sequence
    BY OfRequest
  <2> QED
    BY <2>1, <2>2, <2>3, <2>4, <2>5
<1>3. CASE s + 1 \notin DOMAIN live
  BY <1>1, <1>3, PrefixEnds
<1> QED
  BY <1>2, <1>3

\* So does the output.
LEMMA DecodeFits ==
  ASSUME CallInv, LiveInv, CacheInv, DecodeInv, NEW s \in DOMAIN kv,
         config.context_tokens_per_sequence \in Nat
  PROVE  /\ End(s) \in Nat /\ Len(kv[s]) <= End(s)
         /\ End(s) <= config.context_tokens_per_sequence
<1>1. s \in Nat /\ Len(kv[s]) \in Nat /\ Len(kv[s]) <= config.context_tokens_per_sequence
  BY TokenAssumption DEF CacheInv
<1>2. CASE s + 1 \in DOMAIN live /\ live[s + 1].active
  <2>1. PICK k \in DOMAIN live : k = s + 1 /\ k - 1 = s /\ live[k].active
    BY <1>1, <1>2
  <2>2. End(s) = live[k].n_past
    BY <2>1, DecodeEnds, Zenon
  <2>3. live[k].n_past = Len(Whole(k)) /\ Len(kv[k - 1]) + 1 = live[k].n_past
    BY <2>1, Zenon DEF DecodeInv
  <2>4. live[k].n_past \in Nat /\ live[k].text \in Seq(Tokens) /\ live[k].generated \in Nat
    BY LiveFields
  <2>5. live[k].generated = Len(live[k].text) /\ live[k].generated < max_output_tokens[Of(k)]
    BY <2>1, Zenon DEF LiveInv
  <2>6. /\ prompt[Of(k)] \in Seq(Tokens) /\ max_output_tokens[Of(k)] \in Nat
        /\ Len(prompt[Of(k)]) + max_output_tokens[Of(k)] <= config.context_tokens_per_sequence
    BY OfRequest
  <2>7. Len(Whole(k)) = Len(prompt[Of(k)]) + Len(live[k].text)
    BY <2>4, <2>6, Concat DEF Whole
  <2>8. Len(prompt[Of(k)]) \in Nat
    BY <2>6
  <2>9. live[k].n_past <= config.context_tokens_per_sequence
    <3>1. PICK a \in Nat : a = Len(prompt[Of(k)])
      BY <2>8, Zenon
    <3>2. PICK t \in Nat : t = Len(live[k].text)
      BY <2>4
    <3>3. PICK m \in Nat : m = max_output_tokens[Of(k)]
      BY <2>6, Zenon
    <3>4. live[k].n_past = a + t /\ t < m /\ a + m <= config.context_tokens_per_sequence
      BY <2>3, <2>5, <2>6, <2>7, <3>1, <3>2, <3>3, Zenon
    <3> QED
      BY <3>4
  <2>10. Len(kv[s]) <= live[k].n_past
    BY <1>1, <2>1, <2>3
  <2> QED
    BY <2>2, <2>4, <2>9, <2>10
<1>3. CASE ~(s + 1 \in DOMAIN live /\ live[s + 1].active)
  BY <1>1, <1>3, DecodeEnds
<1> QED
  BY <1>2, <1>3, Zenon

\* llama_decode() is always called with what it requires.
LEMMA DecodableIs == DecodingInv => AlwaysDecodable
<1> SUFFICES ASSUME DecodingInv, pc \in {"decode_prefix", "decode"} PROVE Decodable
  BY DEF AlwaysDecodable
<1>1. pc \in Decoding /\ LiveInv /\ CacheInv /\ CallInv
  BY DEF Decoding, DecodingInv, StageInv
<1>2. /\ (pc = "decode_prefix" => PromptInv /\ PrefixInv) /\ (pc = "decode" => DecodeInv)
  BY ZenonT(60) DEF DecodingInv, StageInv
<1>3. batch \in Seq(EntryType) /\ Len(batch) \in Nat /\ Len(live) \in Nat /\ Len(requests) \in Nat
  BY <1>1, <1>2 DEF PrefixInv, DecodeInv, LiveInv, CallInv
<1>4. /\ Len(live) <= Len(requests) /\ Len(requests) <= config.max_sequences
      /\ config.max_sequences \in Nat /\ config.n_batch \in Nat
      /\ config.context_tokens_per_sequence \in Nat
  BY <1>1, Sizes DEF LiveInv, CallInv
<1>5. Len(batch) <= n_batch_cap
  BY <1>1, <1>2, <1>3, <1>4, Sizes DEF n_batch_cap, PrefixInv, DecodeInv
<1>6. ASSUME NEW i \in DOMAIN batch PROVE batch[i].seq_id < n_seq_max
  <2>1. batch[i].seq_id + 1 \in DOMAIN live
    BY <1>2, Zenon DEF PrefixInv, DecodeInv
  <2>2. batch[i].seq_id \in Nat
    BY <1>3, EntryFields, Zenon
  <2>3. batch[i].seq_id + 1 <= Len(live)
    BY <1>1, <2>1, LiveFields
  <2> QED
    BY <1>1, <1>3, <1>4, <2>2, <2>3, Sizes
<1>7. ASSUME NEW s \in DOMAIN kv
      PROVE  /\ {batch[i].pos : i \in Mine(s)} = Len(kv[s])..(End(s) - 1)
             /\ \A i, j \in Mine(s) : i < j => batch[i].pos < batch[j].pos
             /\ End(s) <= config.context_tokens_per_sequence
  <2>1. CASE pc = "decode_prefix"
    BY <1>1, <1>2, <1>4, <2>1, PrefixEnds, PrefixFits, Zenon
  <2>2. CASE pc = "decode"
    BY <1>1, <1>2, <1>4, <2>2, DecodeEnds, DecodeFits, Zenon
  <2> QED
    BY <2>1, <2>2, Zenon
<1> QED
  BY <1>1, <1>5, <1>6, <1>7, Sizes DEF Decodable

\* And each sequence samples from what is its own.
LEMMA OwnLogits == DecodingInv => SamplesItsOwn
BY Zenon DEF DecodingInv, StageInv, SampleInv, SamplesItsOwn, Whole, Of
-----------------------------------------------------------------------------

\* The stops of a pass.
LEMMA PassFacts ==
  ASSUME NEW S, NEW n \in Nat, NEW pass \in Passes(S, n)
  PROVE  /\ \E m \in 0..n : pass \in [1..m -> S] /\ DOMAIN pass = 1..m /\ Len(pass) = m
         /\ \A i, j \in DOMAIN pass : i < j => pass[i] < pass[j]
         /\ \A x \in S : \E i \in DOMAIN pass : pass[i] = x
<1>1. PICK m \in 0..n : pass \in [1..m -> S]
  BY DEF Passes
<1>2. DOMAIN pass = 1..m /\ Len(pass) = m
  BY <1>1
<1> QED
  BY <1>1, <1>2 DEF Passes

\* The counts and positions of a step may move, the request of a sequence not.
LEMMA LiveStays ==
  ASSUME LiveInv, UNCHANGED <<config, requests>>,
         live' \in Seq(LiveType), Len(live') = Len(live), DOMAIN live' = DOMAIN live,
         \A k \in DOMAIN live :
           /\ Of(k)' = Of(k)
           /\ live'[k].seq_id = live[k].seq_id /\ live'[k].result_index = live[k].result_index
           /\ live'[k].text = live[k].text /\ live'[k].active = live[k].active
           /\ live'[k].generated = live[k].generated
  PROVE  LiveInv'
<1>1. Len(live') <= Len(requests')
  BY Zenon DEF LiveInv
<1>2. ASSUME NEW k \in DOMAIN live'
      PROVE  /\ live'[k].seq_id = k - 1
             /\ live'[k].result_index \in DOMAIN requests'
             /\ prompt[Of(k)'] # <<>>
             /\ needed(Of(k)') <= config'.context_tokens_per_sequence
             /\ live'[k].generated = Len(live'[k].text)
             /\ live'[k].active => live'[k].generated < max_output_tokens[Of(k)']
  BY ZenonT(60) DEF LiveInv
<1> QED
  BY <1>1, <1>2, Zenon DEF LiveInv, needed

\* The context has a cache for every sequence.
LEMMA InCache ==
  ASSUME DecodingInv, pc \in Decoding, NEW k \in DOMAIN live
  PROVE  k - 1 \in DOMAIN kv /\ (k - 1) + 1 = k /\ k \in Nat
<1>1. LiveInv /\ CacheInv /\ CallInv
  BY DEF DecodingInv, StageInv
<1>2. k \in 1..Len(live) /\ Len(live) \in Nat
  BY <1>1, LiveFields, Zenon
<1>3. Len(live) <= Len(requests) /\ Len(requests) <= config.max_sequences /\ Len(requests) \in Nat
  BY <1>1 DEF LiveInv, CallInv
<1>4. /\ config.max_sequences <= LLAMA_MAX_SEQ
      /\ config.max_sequences \in Nat /\ LLAMA_MAX_SEQ \in Nat
  BY Sizes, TokenAssumption
<1>5. DOMAIN kv = 0..(LLAMA_MAX_SEQ - 1)
  BY <1>1, Zenon DEF CacheInv
<1> QED
  BY <1>2, <1>3, <1>4, <1>5

\* The requests that fit become sequences.
LEMMA SetupKeeps ==
  ASSUME DecodingInv, NEW unusable, Setup(unusable)
  PROVE  DecodingInv'
<1> DEFINE tooLong(i) == needed(requests[i]) > config.context_tokens_per_sequence
           fine == {i \in DOMAIN requests :
                      i \notin unusable /\ ~tooLong(i) /\ prompt[requests[i]] # <<>>}
<1>1. CASE \E answers : Return(answers)
  BY <1>1, ReturnKeeps
<1>2. CASE /\ Refusals(requests) = {} /\ pc = "entered" /\ pc' = "prefix" /\ kv' = NoSequences
           /\ \E order \in Passes(fine, Len(requests)) :
                live' = [k \in DOMAIN order |-> LiveSeq(order[k], k - 1)]
           /\ UNCHANGED <<config, loaded, requests, batch>>
  <2> HIDE DEF fine
  <2>1. requests \in Seq(Requests) /\ requests # <<>> /\ batch = <<>> /\ Len(requests) \in Nat
    BY <1>2 DEF DecodingInv, CallInv, StageInv
  <2>2. model_id[requests[1]] \in DOMAIN loaded /\ ~(Len(requests) > config.max_sequences)
    BY <1>2, Zenon DEF Refusals
  <2>3. /\ config.max_sequences \in 1..(U32 - 1) /\ config.max_sequences <= LLAMA_MAX_SEQ
        /\ config.n_batch \in Nat /\ config.context_tokens_per_sequence \in 1..(U32 - 1)
        /\ LLAMA_MAX_SEQ \in Nat /\ U32 \in Nat
    BY <1>2, <2>2, TokenAssumption DEF DecodingInv, ConfigInv, Configured, LoadedInv
  <2>4. Len(requests) <= config.max_sequences
    BY <2>1, <2>2, <2>3
  <2>5. ConfigInv' /\ LoadedInv'
    BY <1>2 DEF DecodingInv, ConfigInv, Configured, LoadedInv
  <2>6. CallInv'
    BY <1>2, <2>1, <2>2, <2>4 DEF CallInv, Decoding
  <2>7. PICK order \in Passes(fine, Len(requests)) :
          live' = [k \in DOMAIN order |-> LiveSeq(order[k], k - 1)]
    BY <1>2
  <2>8. PICK n \in 0..Len(requests) : order \in [1..n -> fine] /\ DOMAIN order = 1..n
    BY <2>1, PassFacts
  <2>9. n \in Nat /\ DOMAIN live' = 1..n /\ \A k \in 1..n : live'[k] = LiveSeq(order[k], k - 1)
    BY <2>1, <2>7, <2>8
  <2>10. ASSUME NEW k \in 1..n
         PROVE  /\ order[k] \in DOMAIN requests /\ order[k] \in Nat
                /\ requests[order[k]] \in Requests /\ k - 1 \in Nat
                /\ needed(requests[order[k]]) <= config.context_tokens_per_sequence
                /\ prompt[requests[order[k]]] \in Seq(Tokens)
                /\ prompt[requests[order[k]]] # <<>>
                /\ 0 < max_output_tokens[requests[order[k]]]
    <3>1. order[k] \in fine
      BY <2>8
    <3>2. order[k] \in DOMAIN requests /\ ~tooLong(order[k]) /\ prompt[requests[order[k]]] # <<>>
      BY <3>1 DEF fine
    <3>3. requests[order[k]] \in Requests /\ order[k] \in Nat /\ k - 1 \in Nat
      BY <2>1, <2>8, <3>2
    <3>4. prompt[requests[order[k]]] \in Seq(Tokens) /\ max_output_tokens[requests[order[k]]] \in Nat \ {0}
      BY <3>3, TokenAssumption
    <3>5. needed(requests[order[k]]) \in Nat
      BY <3>4, SMTT(60) DEF needed
    <3> QED
      BY <2>3, <3>2, <3>3, <3>4, <3>5, SMTT(60)
  <2>11. ASSUME NEW k \in 1..n
         PROVE  /\ live'[k].seq_id = k - 1 /\ live'[k].result_index = order[k]
                /\ live'[k].n_past = 0 /\ live'[k].generated = 0 /\ live'[k].text = <<>>
                /\ live'[k].active = TRUE
                /\ live'[k] \in LiveType /\ Of(k)' = requests[order[k]]
    <3>1. PICK o \in Nat : o = order[k]
      BY <2>10, Zenon
    <3>2. PICK s \in Nat : s = k - 1
      BY <2>10
    <3>3. live'[k] = LiveSeq(o, s)
      BY <2>9, <3>1, <3>2, Zenon
    <3>4. live'[k] \in LiveType
      <4>1. <<>> \in Seq(Tokens)
        OBVIOUS
      <4> QED
        BY <3>3, <4>1 DEF LiveSeq, LiveType
    <3>5. live'[k].seq_id = s /\ live'[k].result_index = o
          /\ live'[k].n_past = 0 /\ live'[k].generated = 0 /\ live'[k].text = <<>>
          /\ live'[k].active = TRUE
      BY <3>3 DEF LiveSeq
    <3>6. Of(k)' = requests[o]
      BY <1>2, <3>5, Zenon DEF Of
    <3> QED
      BY <3>1, <3>2, <3>4, <3>5, <3>6
  <2>12. LiveInv'
    <3>1. live' \in Seq(LiveType) /\ Len(live') = n
      <4>1. \A k \in 1..n : live'[k] \in LiveType
        BY <2>11, Zenon
      <4>2. live' = [k \in 1..n |-> live'[k]]
        BY <2>7, <2>8, Zenon
      <4> QED
        BY <2>9, <4>1, <4>2
    <3>2. Len(live') <= Len(requests')
      BY <1>2, <2>1, <2>8, <3>1
    <3>3. ASSUME NEW k \in 1..n
          PROVE  /\ live'[k].seq_id = k - 1
                 /\ live'[k].result_index \in DOMAIN requests'
                 /\ prompt[Of(k)'] # <<>>
                 /\ needed(Of(k)') <= config'.context_tokens_per_sequence
                 /\ live'[k].generated = Len(live'[k].text)
                 /\ live'[k].generated < max_output_tokens[Of(k)']
      <4>1. requests' = requests /\ config' = config
        BY <1>2
      <4>2. live'[k].generated = 0 /\ live'[k].text = <<>>
        BY <2>11, Zenon
      <4>3. live'[k].generated = Len(live'[k].text)
        BY <4>2
      <4> QED
        BY <2>10, <2>11, <4>1, <4>3, ZenonT(60)
    <3> QED
      BY <2>9, <3>1, <3>2, <3>3, Zenon DEF LiveInv, needed
  <2>13. CacheInv'
    BY <1>2, <2>3 DEF CacheInv, NoSequences
  <2>14. ASSUME NEW k \in 1..n PROVE kv'[k - 1] = <<>>
    <3>1. k - 1 \in 0..(LLAMA_MAX_SEQ - 1)
      BY <2>1, <2>3, <2>4, <2>8
    <3> QED
      BY <1>2, <3>1 DEF NoSequences
  <2>15. PromptInv'
    <3>1. ASSUME NEW k \in 1..n
          PROVE  /\ live'[k].active /\ live'[k].text = <<>>
                 /\ live'[k].n_past < Len(prompt[Of(k)'])
                 /\ Len(kv'[k - 1]) <= live'[k].n_past
                 /\ DOMAIN kv'[k - 1] = {}
      <4>1. kv'[k - 1] = <<>> /\ live'[k].n_past = 0 /\ live'[k].active /\ live'[k].text = <<>>
        BY <2>11, <2>14, Zenon
      <4>2. prompt[Of(k)'] \in Seq(Tokens) /\ prompt[Of(k)'] # <<>>
        BY <2>10, <2>11, ZenonT(60)
      <4>3. 0 < Len(prompt[Of(k)'])
        BY <4>2
      <4>4. Len(kv'[k - 1]) = 0 /\ DOMAIN kv'[k - 1] = {}
        BY <4>1
      <4> QED
        BY <4>1, <4>3, <4>4
    <3> QED
      BY <2>9, <3>1, Zenon DEF PromptInv
  <2>16. PrefixInv'
    <3>1. batch' = <<>> /\ Len(batch') = 0 /\ DOMAIN batch' = {} /\ batch' \in Seq(EntryType)
      BY <1>2, <2>1
    <3>2. ASSUME NEW k \in DOMAIN live' PROVE Len(kv'[k - 1])..(live'[k].n_past - 1) = {}
      <4>1. kv'[k - 1] = <<>> /\ live'[k].n_past = 0
        BY <2>9, <2>11, <2>14, Zenon
      <4>2. Len(kv'[k - 1]) = 0
        BY <4>1
      <4> QED
        BY <4>1, <4>2
    <3> QED
      BY <1>2, <2>3, <3>1, <3>2 DEF PrefixInv
  <2> QED
    BY <1>2, <2>5, <2>6, <2>12, <2>13, <2>15, <2>16, Zenon DEF DecodingInv, StageInv
<1>3. \/ \E answers : Return(answers)
      \/ /\ Refusals(requests) = {} /\ pc = "entered" /\ pc' = "prefix" /\ kv' = NoSequences
         /\ \E order \in Passes(fine, Len(requests)) :
              live' = [k \in DOMAIN order |-> LiveSeq(order[k], k - 1)]
         /\ UNCHANGED <<config, loaded, requests, batch>>
  BY Zenon DEF Setup
<1> QED
  BY <1>1, <1>2, <1>3, Zenon

\* One more prompt token is put in the batch.
LEMMA FillPrefixKeeps ==
  ASSUME DecodingInv, FillPrefix
  PROVE  DecodingInv'
<1>1. /\ pc = "prefix" /\ pc' = "prefix" /\ Len(batch) < n_batch_cap
      /\ UNCHANGED <<config, loaded, kv, requests>>
  BY DEF FillPrefix
<1>2. PICK k \in DOMAIN live :
        /\ HasPrefix(live[k])
        /\ batch' = Append(batch, Entry(live[k], prompt_tokens(live[k])[live[k].n_past + 1],
                                        live[k].n_past, FALSE))
        /\ live' = [live EXCEPT ![k].n_past = @ + 1]
  BY Zenon DEF FillPrefix
<1>3. pc \in Decoding /\ LiveInv /\ CacheInv /\ CallInv /\ PromptInv /\ PrefixInv
  BY <1>1 DEF Decoding, DecodingInv, StageInv
<1>4. ConfigInv' /\ LoadedInv' /\ CallInv'
  BY <1>1, <1>3, StillDecoding, Zenon
<1> DEFINE n == live[k].n_past
           P == prompt[Of(k)]
<1>5. /\ n \in Nat /\ P \in Seq(Tokens) /\ n + 1 < Len(P) /\ n + 1 \in 1..Len(P)
      /\ P[n + 1] \in Tokens /\ live[k].seq_id = k - 1 /\ k - 1 \in Nat
      /\ k \in Nat /\ (k - 1) + 1 = k
  <2>1. n \in Nat /\ P \in Seq(Tokens) /\ k \in 1..Len(live)
    BY <1>3, LiveFields, OfRequest
  <2>2. n + 1 < Len(P)
    BY <1>2 DEF HasPrefix, prompt_tokens, Of
  <2>3. live[k].seq_id = k - 1
    BY <1>3, Zenon DEF LiveInv
  <2> QED
    BY <2>1, <2>2, <2>3, SMTT(60)
<1>6. batch' = Append(batch, [token |-> P[n + 1], pos |-> n, seq_id |-> k - 1, logits |-> FALSE])
  BY <1>2, <1>5, Zenon DEF Entry, prompt_tokens, Of
<1>7. /\ DOMAIN live' = DOMAIN live /\ Len(live') = Len(live) /\ live' \in Seq(LiveType)
      /\ \A j \in DOMAIN live :
           /\ j # k => live'[j] = live[j]
           /\ live'[j].seq_id = live[j].seq_id /\ live'[j].result_index = live[j].result_index
           /\ live'[j].text = live[j].text /\ live'[j].active = live[j].active
           /\ live'[j].generated = live[j].generated
           /\ live'[j].n_past = IF j = k THEN n + 1 ELSE live[j].n_past
  <2>1. live \in Seq(LiveType)
    BY <1>3, Zenon DEF LiveInv
  <2>2. live[k] \in LiveType /\ n + 1 \in Nat
    BY <1>5, <2>1
  <2>3. PICK x : x = [live[k] EXCEPT !.n_past = n + 1]
    BY Zenon
  <2>4. x \in LiveType /\ x.n_past = n + 1 /\ x.seq_id = live[k].seq_id
        /\ x.result_index = live[k].result_index /\ x.text = live[k].text
        /\ x.active = live[k].active /\ x.generated = live[k].generated
    BY <2>2, <2>3, Zenon DEF LiveType
  <2>5. live' = [live EXCEPT ![k] = x]
    BY <1>2, <2>3
  <2>6. /\ DOMAIN live' = DOMAIN live /\ Len(live') = Len(live) /\ live' \in Seq(LiveType)
        /\ live'[k] = x /\ \A j \in DOMAIN live : j # k => live'[j] = live[j]
    BY <2>1, <2>4, <2>5
  <2> QED
    BY <2>4, <2>6, Zenon
<1> HIDE DEF n, P
<1>8. \A j \in DOMAIN live : Of(j)' = Of(j)
  BY <1>1, <1>7, Zenon DEF Of
<1>9. LiveInv'
  BY <1>1, <1>3, <1>7, <1>8, LiveStays, Zenon
<1>10. CacheInv'
  BY <1>1, <1>3 DEF CacheInv
<1>11. PromptInv'
  <2>1. ASSUME NEW j \in DOMAIN live
        PROVE  /\ live'[j].active /\ live'[j].text = <<>>
               /\ live'[j].n_past < Len(prompt[Of(j)'])
               /\ Len(kv[j - 1]) <= live'[j].n_past
               /\ \A p \in DOMAIN kv[j - 1] : kv[j - 1][p] = prompt[Of(j)'][p]
    <3>1. /\ live[j].active /\ live[j].text = <<>>
          /\ live[j].n_past < Len(prompt[Of(j)])
          /\ Len(kv[j - 1]) <= live[j].n_past
          /\ \A p \in DOMAIN kv[j - 1] : kv[j - 1][p] = prompt[Of(j)][p]
      BY <1>3, Zenon DEF PromptInv
    <3>2. CASE j = k
      <4>1. Len(kv[j - 1]) \in Nat
        <5>1. j - 1 \in DOMAIN kv
          BY <1>3, InCache
        <5>2. kv[j - 1] \in Seq(Tokens)
          BY <1>3, <5>1, Zenon DEF CacheInv
        <5> QED
          BY <5>2
      <4>2. Len(kv[j - 1]) <= n + 1
        BY <1>5, <3>1, <3>2, <4>1 DEF n
      <4> QED
        BY <1>5, <1>7, <1>8, <3>1, <3>2, <4>2 DEF P
    <3>3. CASE j # k
      BY <1>7, <1>8, <3>1, <3>3
    <3> QED
      BY <3>2, <3>3, Zenon
  <2> QED
    BY <1>1, <1>7, <2>1 DEF PromptInv
<1>12. PrefixInv'
  <2> DEFINE b == [token |-> P[n + 1], pos |-> n, seq_id |-> k - 1, logits |-> FALSE]
             L == Len(batch)
  <2>1. batch \in Seq(EntryType) /\ L \in Nat /\ DOMAIN batch = 1..L
    BY <1>3 DEF PrefixInv
  <2>2. b \in EntryType
    BY <1>5 DEF EntryType
  <2>3. b.token = P[n + 1] /\ b.pos = n /\ b.seq_id = k - 1
    OBVIOUS
  <2>4. PICK e \in EntryType : e = b
    BY <2>2, Zenon
  <2>5. /\ batch' \in Seq(EntryType) /\ Len(batch') = L + 1 /\ DOMAIN batch' = 1..(L + 1)
        /\ batch'[L + 1] = e /\ \A i \in 1..L : batch'[i] = batch[i]
    <3> HIDE DEF b
    <3> QED
      BY <1>6, <2>1, <2>4 DEF b
  <2>6. e.token = P[n + 1] /\ e.pos = n /\ e.seq_id = k - 1
    BY <2>3, <2>4
  <2> HIDE DEF b
  <2>7. L + 1 <= config'.n_batch
    <3>1. config.n_batch \in Nat
      BY <1>3, Sizes, Zenon
    <3> QED
      BY <1>1, <2>1, <3>1 DEF n_batch_cap
  <2>8. ASSUME NEW j \in DOMAIN live
        PROVE  /\ Len(kv[j - 1]) \in Nat /\ live[j].n_past \in Nat
               /\ Len(kv[j - 1]) <= live[j].n_past
    <3>1. j - 1 \in DOMAIN kv
      BY <1>3, InCache
    <3>2. kv[j - 1] \in Seq(Tokens)
      BY <1>3, <3>1 DEF CacheInv
    <3>3. Len(kv[j - 1]) \in Nat
      BY <3>2
    <3>4. live[j].n_past \in Nat
      BY <1>3, LiveFields, Zenon
    <3>5. Len(kv[j - 1]) <= live[j].n_past
      BY <1>3, Zenon DEF PromptInv
    <3> QED
      BY <3>3, <3>4, <3>5, Zenon
  <2>9. ASSUME NEW i \in DOMAIN batch'
        PROVE  \E j \in DOMAIN live :
                 /\ batch'[i].seq_id + 1 = j
                 /\ batch'[i].pos \in Len(kv[j - 1])..(live'[j].n_past - 1)
                 /\ batch'[i].token = prompt[Of(j)][batch'[i].pos + 1]
    <3>1. CASE i \in 1..L
      <4>1. PICK j : j = batch[i].seq_id + 1
        BY Zenon
      <4>2. /\ j \in DOMAIN live
            /\ batch[i].pos \in Len(kv[j - 1])..(live[j].n_past - 1)
            /\ batch[i].token = prompt[Of(j)][batch[i].pos + 1]
        BY <1>3, <2>1, <3>1, <4>1, Zenon DEF PrefixInv
      <4>3. live'[j].n_past = live[j].n_past \/ live'[j].n_past = live[j].n_past + 1
        BY <1>7, <4>2, Zenon DEF n
      <4>4. batch[i].pos \in Len(kv[j - 1])..(live'[j].n_past - 1)
        BY <2>8, <4>2, <4>3
      <4> QED
        BY <2>5, <3>1, <4>1, <4>2, <4>4, Zenon
    <3>2. CASE i = L + 1
      <4>1. batch'[i].seq_id + 1 = k
        BY <1>5, <2>5, <2>6, <3>2, Zenon
      <4>2. n \in Len(kv[k - 1])..(live'[k].n_past - 1)
        BY <1>5, <1>7, <2>8 DEF n
      <4> QED
        BY <2>5, <2>6, <3>2, <4>1, <4>2, Zenon DEF P
    <3> QED
      BY <2>1, <2>5, <3>1, <3>2
  <2>10. ASSUME NEW j \in DOMAIN live', NEW p \in Len(kv'[j - 1])..(live'[j].n_past - 1)
         PROVE  \E i \in DOMAIN batch' : batch'[i].seq_id = j - 1 /\ batch'[i].pos = p
    <3>1. CASE p \in Len(kv[j - 1])..(live[j].n_past - 1)
      <4>1. PICK i \in DOMAIN batch : batch[i].seq_id = j - 1 /\ batch[i].pos = p
        <5>1. j \in DOMAIN live
          BY <1>7, Zenon
        <5> QED
          BY <1>3, <3>1, <5>1, Zenon DEF PrefixInv
      <4> QED
        BY <2>1, <2>5, <4>1
    <3>2. CASE ~(p \in Len(kv[j - 1])..(live[j].n_past - 1))
      <4>1. kv' = kv /\ j \in DOMAIN live
        BY <1>1, <1>7, Zenon
      <4>2. j = k
        BY <1>7, <3>2, <4>1, Zenon
      <4>3. p = n
        <5>1. n \in Nat /\ Len(kv[k - 1]) \in Nat
          BY <1>5, <2>8, Zenon
        <5>2. live'[k].n_past = n + 1 /\ live[k].n_past = n
          BY <1>7, <4>1, <4>2, Zenon DEF n
        <5>3. p \in Len(kv[k - 1])..((n + 1) - 1) /\ ~(p \in Len(kv[k - 1])..(n - 1))
          BY <3>2, <4>1, <4>2, <5>2, Zenon
        <5> QED
          BY <5>1, <5>3
      <4>4. L + 1 \in DOMAIN batch'
        BY <2>1, <2>5
      <4> QED
        BY <2>5, <2>6, <4>2, <4>3, <4>4, Zenon
    <3> QED
      BY <3>1, <3>2, Zenon
  <2>11. ASSUME NEW i \in DOMAIN batch', NEW j \in DOMAIN batch', i < j,
                batch'[i].seq_id = batch'[j].seq_id
         PROVE  batch'[i].pos < batch'[j].pos
    <3>1. CASE j \in 1..L
      <4>1. i \in 1..L
        BY <2>1, <2>5, <2>11, <3>1
      <4> QED
        BY <1>3, <2>1, <2>5, <2>11, <3>1, <4>1, Zenon DEF PrefixInv
    <3>2. CASE j = L + 1
      <4>1. i \in 1..L
        BY <2>1, <2>5, <2>11, <3>2
      <4>2. batch[i].seq_id = k - 1
        BY <2>5, <2>6, <2>11, <3>2, <4>1, Zenon
      <4>3. batch[i].seq_id + 1 = k
        BY <1>5, <4>2, Zenon
      <4>4. batch[i].pos \in Len(kv[k - 1])..(live[k].n_past - 1)
        BY <1>3, <2>1, <4>1, <4>3, Zenon DEF PrefixInv
      <4>5. batch[i].pos < n
        BY <2>8, <4>4 DEF n
      <4> QED
        BY <2>5, <2>6, <3>2, <4>1, <4>5, Zenon
    <3> QED
      BY <2>1, <2>5, <3>1, <3>2
  <2>12. batch' \in Seq(EntryType) /\ Len(batch') <= config'.n_batch
    BY <2>5, <2>7, Zenon
  <2>13. ASSUME NEW i \in DOMAIN batch', NEW j, j = batch'[i].seq_id + 1
         PROVE  /\ j \in DOMAIN live'
                /\ batch'[i].pos \in Len(kv'[j - 1])..(live'[j].n_past - 1)
                /\ batch'[i].token = prompt[requests'[live'[j].result_index]][batch'[i].pos + 1]
    <3>1. PICK k2 \in DOMAIN live :
            /\ batch'[i].seq_id + 1 = k2
            /\ batch'[i].pos \in Len(kv[k2 - 1])..(live'[k2].n_past - 1)
            /\ batch'[i].token = prompt[Of(k2)][batch'[i].pos + 1]
      BY <2>9, Zenon
    <3>2. j = k2 /\ j \in DOMAIN live' /\ kv' = kv
      BY <1>1, <1>7, <2>13, <3>1, Zenon
    <3>3. Of(j) = requests'[live'[j].result_index]
      BY <1>1, <1>7, <3>2, Zenon DEF Of
    <3> QED
      BY <3>1, <3>2, <3>3, Zenon
  <2> QED
    BY <2>10, <2>11, <2>12, <2>13, Zenon DEF PrefixInv, Of
<1> QED
  BY <1>1, <1>4, <1>9, <1>10, <1>11, <1>12, Zenon DEF DecodingInv, StageInv

\* The cache of a sequence.
LEMMA CacheOf ==
  ASSUME DecodingInv, pc \in Decoding, NEW k \in DOMAIN live
  PROVE  /\ k - 1 \in DOMAIN kv /\ (k - 1) + 1 = k /\ k \in Nat
         /\ kv[k - 1] \in Seq(Tokens) /\ Len(kv[k - 1]) \in Nat
         /\ DOMAIN kv[k - 1] = 1..Len(kv[k - 1])
<1>1. k - 1 \in DOMAIN kv /\ (k - 1) + 1 = k /\ k \in Nat
  BY InCache
<1>2. kv[k - 1] \in Seq(Tokens)
  BY <1>1 DEF DecodingInv, StageInv, CacheInv
<1> QED
  BY <1>1, <1>2

\* A prompt without prefix left has only its last token to come.
LEMMA PrefixDone ==
  ASSUME CallInv, LiveInv, PromptInv, NEW k \in DOMAIN live, ~HasPrefix(live[k])
  PROVE  live[k].n_past + 1 = Len(prompt[Of(k)])
<1>1. ~(live[k].n_past + 1 < Len(prompt[Of(k)]))
  BY DEF HasPrefix, prompt_tokens, Of
<1>2. live[k].n_past < Len(prompt[Of(k)])
  BY Zenon DEF PromptInv
<1>3. live[k].n_past \in Nat /\ Len(prompt[Of(k)]) \in Nat
  BY LiveFields, OfRequest
<1> QED
  BY <1>1, <1>2, <1>3

\* The batch of the prefixes stays as it was when nothing it depends on changes.
LEMMA PrefixStays ==
  ASSUME PrefixInv, UNCHANGED <<config, kv, requests, live, batch>>
  PROVE  PrefixInv'
<1>1. batch' \in Seq(EntryType) /\ Len(batch') <= config'.n_batch
  BY Zenon DEF PrefixInv
<1>2. ASSUME NEW i \in DOMAIN batch'
      PROVE  LET k == batch'[i].seq_id + 1
             IN  /\ k \in DOMAIN live'
                 /\ batch'[i].pos \in Len(kv'[k - 1])..(live'[k].n_past - 1)
                 /\ batch'[i].token = prompt[requests'[live'[k].result_index]][batch'[i].pos + 1]
  BY Zenon DEF PrefixInv, Of
<1>3. ASSUME NEW k \in DOMAIN live', NEW p \in Len(kv'[k - 1])..(live'[k].n_past - 1)
      PROVE  \E i \in DOMAIN batch' : batch'[i].seq_id = k - 1 /\ batch'[i].pos = p
  BY Zenon DEF PrefixInv
<1>4. ASSUME NEW i \in DOMAIN batch', NEW j \in DOMAIN batch',
             i < j /\ batch'[i].seq_id = batch'[j].seq_id
      PROVE  batch'[i].pos < batch'[j].pos
  BY <1>4, Zenon DEF PrefixInv
<1> QED
  BY <1>1, <1>2, <1>3, <1>4, Zenon DEF PrefixInv, Of

\* The batch is full, or all prefixes are in batches.
LEMMA PrefixFilledKeeps ==
  ASSUME DecodingInv, PrefixFilled
  PROVE  DecodingInv'
<1>1. pc = "prefix" /\ UNCHANGED <<config, loaded, kv, requests, live, batch>>
  BY DEF PrefixFilled
<1>2. pc \in Decoding /\ LiveInv /\ CacheInv /\ CallInv /\ PromptInv /\ PrefixInv
  BY <1>1 DEF Decoding, DecodingInv, StageInv
<1>3. pc' \in {"bootstrap", "decode_prefix"} /\ pc' \in Decoding
  BY DEF PrefixFilled, Decoding
<1>4. ConfigInv' /\ LoadedInv' /\ CallInv'
  BY <1>1, <1>2, <1>3, StillDecoding
<1>5. LiveInv' /\ CacheInv' /\ PromptInv' /\ PrefixInv'
  <2>1. \A k : Of(k)' = Of(k)
    BY <1>1, Zenon DEF Of
  <2>2. LiveInv' /\ CacheInv'
    BY <1>1, <1>2, <2>1, Zenon DEF LiveInv, CacheInv, needed
  <2>3. PromptInv' /\ PrefixInv'
    <3>1. PromptInv'
      BY <1>1, <1>2, <2>1, Zenon DEF PromptInv
    <3> QED
      BY <1>1, <1>2, <3>1, PrefixStays, Zenon
  <2> QED
    BY <2>2, <2>3, Zenon
<1>6. CASE pc' = "decode_prefix"
  BY <1>4, <1>5, <1>6, Zenon DEF DecodingInv, StageInv
<1>7. CASE pc' = "bootstrap"
  <2>1. batch = <<>>
    BY <1>7, Zenon DEF PrefixFilled
  <2>2. ~(Len(batch) >= n_batch_cap)
    BY <1>2, <2>1, Sizes DEF n_batch_cap
  <2>3. \A k \in DOMAIN live : ~HasPrefix(live[k])
    BY <2>2, Zenon DEF PrefixFilled
  <2>4. ASSUME NEW k \in DOMAIN live
        PROVE  live[k].n_past = Len(kv[k - 1]) /\ live[k].n_past + 1 = Len(prompt[Of(k)])
    <3>1. Len(kv[k - 1]) \in Nat /\ live[k].n_past \in Nat /\ Len(kv[k - 1]) <= live[k].n_past
      BY <1>2, CacheOf, LiveFields DEF PromptInv
    <3>2. ASSUME Len(kv[k - 1]) < live[k].n_past PROVE FALSE
      <4>1. Len(kv[k - 1]) \in Len(kv[k - 1])..(live[k].n_past - 1)
        BY <3>1, <3>2
      <4>2. \E i \in DOMAIN batch : batch[i].seq_id = k - 1 /\ batch[i].pos = Len(kv[k - 1])
        BY <1>2, <4>1, Zenon DEF PrefixInv
      <4> QED
        BY <2>1, <4>2
    <3>3. live[k].n_past + 1 = Len(prompt[Of(k)])
      BY <1>2, <2>3, PrefixDone, Zenon
    <3> QED
      BY <3>1, <3>2, <3>3
  <2>5. BootstrapInv'
    BY <1>1, <2>4, Zenon DEF BootstrapInv, Of
  <2> QED
    BY <1>4, <1>5, <1>7, <2>5, Zenon DEF DecodingInv, StageInv
<1> QED
  BY <1>3, <1>6, <1>7

\* llama_decode() puts the prefixes in the cache.
LEMMA DecodePrefixKeeps ==
  ASSUME DecodingInv, DecodePrefix
  PROVE  DecodingInv'
<1>1. /\ pc = "decode_prefix" /\ llama_decode /\ batch' = <<>>
      /\ UNCHANGED <<config, loaded, requests, live>>
      /\ pc' = IF \E k \in DOMAIN live : HasPrefix(live[k]) THEN "prefix" ELSE "bootstrap"
  BY DEF DecodePrefix
<1>2. pc \in Decoding /\ LiveInv /\ CacheInv /\ CallInv /\ PromptInv /\ PrefixInv
  BY <1>1 DEF Decoding, DecodingInv, StageInv
<1>3. pc' \in {"prefix", "bootstrap"} /\ pc' \in Decoding
  BY <1>1 DEF Decoding
<1>4. ConfigInv' /\ LoadedInv' /\ CallInv'
  BY <1>1, <1>2, <1>3, StillDecoding, Zenon
<1>5. config.context_tokens_per_sequence \in Nat /\ config.n_batch \in Nat
  BY <1>2, Sizes
<1>6. \A k : Of(k)' = Of(k)
  BY <1>1, Zenon DEF Of
<1>7. LiveInv'
  BY <1>1, <1>2, <1>6, Zenon DEF LiveInv, needed
<1>8. ASSUME NEW s \in DOMAIN kv
      PROVE  /\ End(s) \in Nat /\ Len(kv[s]) <= End(s)
             /\ End(s) <= config.context_tokens_per_sequence
             /\ kv'[s] \in Seq(Tokens) /\ Len(kv'[s]) = End(s) /\ DOMAIN kv'[s] = 1..End(s)
             /\ \A p \in DOMAIN kv[s] : kv'[s][p] = kv[s][p]
             /\ \A i \in Mine(s) : kv'[s][batch[i].pos + 1] = batch[i].token
  <2>1. /\ End(s) \in Nat /\ Len(kv[s]) <= End(s)
        /\ End(s) <= config.context_tokens_per_sequence
    BY <1>2, <1>5, PrefixFits, Zenon
  <2>2. batch \in Seq(EntryType)
    BY <1>2, Zenon DEF PrefixInv
  <2> QED
    BY <1>1, <1>2, <2>1, <2>2, Decoded, Zenon
<1>9. CacheInv'
  <2>1. kv' = [s \in DOMAIN kv |-> kv'[s]] /\ DOMAIN kv = 0..(LLAMA_MAX_SEQ - 1)
    BY <1>1, <1>2, Zenon DEF llama_decode, CacheInv
  <2> QED
    BY <1>1, <1>8, <2>1, Zenon DEF CacheInv
<1>10. ASSUME NEW k \in DOMAIN live
       PROVE  /\ Len(kv'[k - 1]) = live[k].n_past
              /\ \A p \in DOMAIN kv'[k - 1] : kv'[k - 1][p] = prompt[Of(k)][p]
  <2>1. PICK s \in DOMAIN kv : s = k - 1 /\ s + 1 = k
    BY <1>2, CacheOf
  <2>2. End(s) = live[k].n_past
    BY <1>2, <2>1, PrefixEnds, Zenon
  <2>3. kv[s] \in Seq(Tokens) /\ Len(kv[s]) \in Nat /\ DOMAIN kv[s] = 1..Len(kv[s])
    BY <1>2, <2>1, CacheOf, Zenon
  <2>4. ASSUME NEW p \in 1..End(s) PROVE kv'[s][p] = prompt[Of(k)][p]
    <3>1. CASE p \in 1..Len(kv[s])
      BY <1>2, <1>8, <2>1, <2>3, <3>1 DEF PromptInv
    <3>2. CASE ~(p \in 1..Len(kv[s]))
      <4>1. PICK q : q = p - 1 /\ q + 1 = p
        BY <1>8, SMTT(60)
      <4>2. q \in Len(kv[k - 1])..(live[k].n_past - 1)
        BY <1>8, <2>1, <2>2, <2>3, <3>2, <4>1
      <4>3. PICK i \in DOMAIN batch : batch[i].seq_id = k - 1 /\ batch[i].pos = q
        BY <1>2, <4>2, Zenon DEF PrefixInv
      <4>4. batch[i].seq_id + 1 = k /\ i \in Mine(s)
        BY <2>1, <4>3, Zenon DEF Mine
      <4>5. batch[i].token = prompt[Of(k)][q + 1]
        BY <1>2, <4>3, <4>4, Zenon DEF PrefixInv
      <4>6. kv'[s][q + 1] = batch[i].token
        BY <1>8, <4>3, <4>4, Zenon
      <4> QED
        BY <4>1, <4>5, <4>6, Zenon
    <3> QED
      BY <3>1, <3>2, Zenon
  <2> QED
    BY <1>8, <2>1, <2>2, <2>4, Zenon
<1>11. PromptInv'
  <2>1. ASSUME NEW k \in DOMAIN live
        PROVE  /\ live[k].active /\ live[k].text = <<>>
               /\ live[k].n_past < Len(prompt[Of(k)]) /\ Len(kv'[k - 1]) <= live[k].n_past
    BY <1>2, <1>10, LiveFields, SMTT(60) DEF PromptInv
  <2> QED
    BY <1>1, <1>6, <1>10, <2>1, ZenonT(60) DEF PromptInv
<1>12. PrefixInv'
  <2>1. batch' \in Seq(EntryType) /\ Len(batch') = 0 /\ DOMAIN batch' = {}
    BY <1>1, SMTT(60)
  <2>2. ASSUME NEW k \in DOMAIN live' PROVE Len(kv'[k - 1])..(live'[k].n_past - 1) = {}
    <3>1. live[k].n_past \in Nat /\ k \in DOMAIN live
      BY <1>1, <1>2, LiveFields, Zenon
    <3> QED
      BY <1>1, <1>10, <3>1
  <2> QED
    BY <1>1, <1>5, <2>1, <2>2 DEF PrefixInv
<1>13. pc' = "bootstrap" => BootstrapInv'
  <2>1. ASSUME pc' = "bootstrap", NEW k \in DOMAIN live
        PROVE  live[k].n_past + 1 = Len(prompt[Of(k)])
    BY <1>1, <1>2, <2>1, PrefixDone, Zenon
  <2> QED
    BY <1>1, <1>6, <1>10, <2>1, Zenon DEF BootstrapInv
<1> QED
  BY <1>3, <1>4, <1>7, <1>9, <1>11, <1>12, <1>13, ZenonT(60) DEF DecodingInv, StageInv

\* The last prompt token of every sequence is put in the batch.
LEMMA BootstrapKeeps ==
  ASSUME DecodingInv, Bootstrap
  PROVE  DecodingInv'
<1>1. pc = "bootstrap" /\ pc' = "decode" /\ UNCHANGED <<config, loaded, kv, requests>>
  BY Zenon DEF Bootstrap
<1>2. pc \in Decoding /\ pc' \in Decoding /\ LiveInv /\ CacheInv /\ CallInv /\ PromptInv /\ BootstrapInv
  BY <1>1, Zenon DEF Decoding, DecodingInv, StageInv
<1>3. ConfigInv' /\ LoadedInv' /\ CallInv'
  BY <1>1, <1>2, StillDecoding, Zenon
<1> DEFINE last(k) == prompt[Of(k)][Len(prompt[Of(k)])]
<1>4. Len(live) \in Nat /\ DOMAIN live = 1..Len(live)
  BY <1>2, SMTT(60) DEF LiveInv
<1>5. ASSUME NEW k \in DOMAIN live
      PROVE  /\ batch'[k] = [token |-> last(k), pos |-> live[k].n_past, seq_id |-> k - 1, logits |-> TRUE]
             /\ batch'[k] \in EntryType
             /\ batch'[k].token = last(k) /\ batch'[k].pos = live[k].n_past
             /\ batch'[k].seq_id = k - 1 /\ batch'[k].logits = TRUE
  <2>1. live[k].seq_id = k - 1
    BY <1>2, Zenon DEF LiveInv
  <2>2. prompt_tokens(live[k]) = prompt[Of(k)]
    BY DEF prompt_tokens, Of
  <2>3. batch'[k] = Entry(live[k], last(k), live[k].n_past, TRUE)
    BY <2>2, Zenon DEF Bootstrap
  <2>4. last(k) \in Tokens
    <3>1. prompt[Of(k)] \in Seq(Tokens) /\ Len(prompt[Of(k)]) \in Nat /\ live[k].n_past \in Nat
      BY <1>2, OfRequest, LiveFields, Zenon
    <3>2. live[k].n_past < Len(prompt[Of(k)])
      BY <1>2, Zenon DEF PromptInv
    <3>3. Len(prompt[Of(k)]) \in 1..Len(prompt[Of(k)])
      BY <3>1, <3>2
    <3> QED
      BY <3>1, <3>3
  <2>5. live[k].n_past \in Nat /\ k - 1 \in Nat
    BY <1>2, LiveFields
  <2> HIDE DEF last
  <2> QED
    BY <2>1, <2>3, <2>4, <2>5 DEF Entry, EntryType
<1>6. ASSUME NEW k \in DOMAIN live
      PROVE  /\ live'[k] \in LiveType
             /\ live'[k].seq_id = live[k].seq_id /\ live'[k].result_index = live[k].result_index
             /\ live'[k].text = live[k].text /\ live'[k].active = live[k].active
             /\ live'[k].generated = live[k].generated
             /\ live'[k].n_past = live[k].n_past + 1 /\ live'[k].logits_batch_index = k - 1
  <2>1. live'[k] = [live[k] EXCEPT !.logits_batch_index = k - 1, !.n_past = live[k].n_past + 1]
    BY Zenon DEF Bootstrap
  <2>2. live[k] \in LiveType /\ live[k].n_past + 1 \in Nat /\ k - 1 \in Int
    BY <1>2, LiveFields, SMTT(60) DEF LiveInv
  <2> QED
    BY <2>1, <2>2, ZenonT(60) DEF LiveType
<1>7. /\ DOMAIN live' = DOMAIN live /\ live' \in Seq(LiveType) /\ Len(live') = Len(live)
      /\ DOMAIN batch' = DOMAIN live /\ batch' \in Seq(EntryType) /\ Len(batch') = Len(live)
  <2>1. live' = [k \in 1..Len(live) |-> live'[k]] /\ batch' = [k \in 1..Len(live) |-> batch'[k]]
    BY <1>4, Zenon DEF Bootstrap
  <2>2. \A k \in 1..Len(live) : live'[k] \in LiveType /\ batch'[k] \in EntryType
    BY <1>4, <1>5, <1>6, Zenon
  <2> QED
    BY <1>4, <2>1, <2>2
<1>8. \A k \in DOMAIN live : Of(k)' = Of(k)
  BY <1>1, <1>6, Zenon DEF Of
<1>9. LiveInv'
  BY <1>1, <1>2, <1>6, <1>7, <1>8, LiveStays, Zenon
<1>10. CacheInv'
  BY <1>1, <1>2 DEF CacheInv
<1>11. ASSUME NEW k \in DOMAIN live
       PROVE  /\ Whole(k)' = prompt[Of(k)]
              /\ live'[k].n_past = Len(prompt[Of(k)]) /\ Len(kv[k - 1]) + 1 = live'[k].n_past
              /\ \A p \in DOMAIN kv[k - 1] : kv[k - 1][p] = prompt[Of(k)][p]
  <2>1. live[k].text = <<>> /\ \A p \in DOMAIN kv[k - 1] : kv[k - 1][p] = prompt[Of(k)][p]
    BY <1>2 DEF PromptInv
  <2>2. prompt[Of(k)] \o <<>> = prompt[Of(k)]
    BY <1>2, OfRequest, Concat
  <2>3. live[k].n_past = Len(kv[k - 1]) /\ live[k].n_past + 1 = Len(prompt[Of(k)])
    BY <1>2 DEF BootstrapInv
  <2> QED
    BY <1>6, <1>8, <2>1, <2>2, <2>3, ZenonT(60) DEF Whole
<1>12. DecodeInv'
  <2>1. ASSUME NEW i \in DOMAIN batch', NEW k, k = batch'[i].seq_id + 1
        PROVE  k \in DOMAIN live' /\ live'[k].active /\ live'[k].logits_batch_index + 1 = i
    <3>1. i \in DOMAIN live /\ k = i
      BY <1>2, <1>5, <1>7, <2>1, InCache, Zenon
    <3>2. live[i].active
      BY <1>2, <3>1, Zenon DEF PromptInv
    <3> QED
      BY <1>2, <1>6, <1>7, <3>1, <3>2, InCache, Zenon
  <2>2. ASSUME NEW k \in DOMAIN live', NEW i, i = live'[k].logits_batch_index + 1
        PROVE  /\ i \in DOMAIN batch'
               /\ batch'[i].seq_id = k - 1 /\ batch'[i].logits
               /\ live'[k].n_past = Len(Whole(k)') /\ batch'[i].pos + 1 = live'[k].n_past
               /\ batch'[i].token = Whole(k)'[live'[k].n_past]
               /\ Len(kv'[k - 1]) + 1 = live'[k].n_past
               /\ \A p \in DOMAIN kv'[k - 1] : kv'[k - 1][p] = Whole(k)'[p]
    <3>1. k \in DOMAIN live /\ i = k
      BY <1>2, <1>6, <1>7, <2>2, InCache, Zenon
    <3>2. /\ batch'[k].token = last(k) /\ batch'[k].pos = live[k].n_past
          /\ batch'[k].seq_id = k - 1 /\ batch'[k].logits = TRUE /\ k \in DOMAIN batch'
      BY <1>5, <1>7, <3>1, Zenon
    <3>3. /\ Whole(k)' = prompt[Of(k)]
          /\ live'[k].n_past = Len(prompt[Of(k)]) /\ Len(kv[k - 1]) + 1 = live'[k].n_past
          /\ \A p \in DOMAIN kv[k - 1] : kv[k - 1][p] = prompt[Of(k)][p]
      BY <1>11, <3>1, Zenon
    <3>4. live'[k].n_past = live[k].n_past + 1 /\ kv' = kv
      BY <1>1, <1>6, <3>1, Zenon
    <3> QED
      BY <3>1, <3>2, <3>3, <3>4, Zenon
  <2>3. batch' \in Seq(EntryType) /\ Len(batch') <= Len(live')
    BY <1>4, <1>7
  <2> QED
    BY <2>1, <2>2, <2>3, Zenon DEF DecodeInv
<1> QED
  BY <1>1, <1>3, <1>9, <1>10, <1>12, Zenon DEF DecodingInv, StageInv

\* All of a sequence.
LEMMA AllOf ==
  ASSUME NEW S, NEW s \in Seq(S), NEW n, n = Len(s)
  PROVE  SubSeq(s, 1, n) = s
OBVIOUS

\* llama_decode() puts the last token of each active sequence in the cache.
LEMMA DecodeKeeps ==
  ASSUME DecodingInv, Decode
  PROVE  DecodingInv'
<1>1. /\ pc = "decode" /\ pc' = "sample" /\ llama_decode
      /\ UNCHANGED <<config, loaded, requests, live, batch>>
  BY DEF Decode
<1>2. pc \in Decoding /\ pc' \in Decoding /\ LiveInv /\ CacheInv /\ CallInv /\ DecodeInv
  BY <1>1 DEF Decoding, DecodingInv, StageInv
<1>3. ConfigInv' /\ LoadedInv' /\ CallInv'
  BY <1>1, <1>2, StillDecoding, Zenon
<1>4. config.context_tokens_per_sequence \in Nat
  BY <1>2, Sizes
<1>5. \A k : Of(k)' = Of(k) /\ Whole(k)' = Whole(k)
  BY <1>1, Zenon DEF Of, Whole
<1>6. LiveInv'
  BY <1>1, <1>2, <1>5, Zenon DEF LiveInv, needed
<1>7. ASSUME NEW s \in DOMAIN kv
      PROVE  /\ End(s) \in Nat /\ Len(kv[s]) <= End(s)
             /\ End(s) <= config.context_tokens_per_sequence
             /\ kv'[s] \in Seq(Tokens) /\ Len(kv'[s]) = End(s) /\ DOMAIN kv'[s] = 1..End(s)
             /\ \A p \in DOMAIN kv[s] : kv'[s][p] = kv[s][p]
             /\ \A i \in Mine(s) : kv'[s][batch[i].pos + 1] = batch[i].token
  <2>1. /\ End(s) \in Nat /\ Len(kv[s]) <= End(s)
        /\ End(s) <= config.context_tokens_per_sequence
    BY <1>2, <1>4, DecodeFits, Zenon
  <2>2. batch \in Seq(EntryType)
    BY <1>2, Zenon DEF DecodeInv
  <2> QED
    BY <1>1, <1>2, <2>1, <2>2, Decoded, Zenon
<1>8. CacheInv'
  <2>1. kv' = [s \in DOMAIN kv |-> kv'[s]] /\ DOMAIN kv = 0..(LLAMA_MAX_SEQ - 1)
    BY <1>1, <1>2, Zenon DEF llama_decode, CacheInv
  <2> QED
    BY <1>1, <1>7, <2>1, Zenon DEF CacheInv
<1>9. ASSUME NEW k \in DOMAIN live, live[k].active
      PROVE  /\ live[k].logits_batch_index + 1 \in DOMAIN logits'
             /\ logits'[live[k].logits_batch_index + 1] = Whole(k)
             /\ live[k].n_past = Len(Whole(k)) /\ kv'[k - 1] = Whole(k)
  <2>1. PICK i : i = live[k].logits_batch_index + 1
    BY Zenon
  <2>2. /\ i \in DOMAIN batch /\ batch[i].seq_id = k - 1 /\ batch[i].logits
        /\ live[k].n_past = Len(Whole(k)) /\ batch[i].pos + 1 = live[k].n_past
        /\ batch[i].token = Whole(k)[live[k].n_past]
        /\ Len(kv[k - 1]) + 1 = live[k].n_past
        /\ \A p \in DOMAIN kv[k - 1] : kv[k - 1][p] = Whole(k)[p]
    BY <1>2, <1>9, <2>1, Zenon DEF DecodeInv
  <2>3. PICK s \in DOMAIN kv : s = k - 1 /\ s + 1 = k
    BY <1>2, CacheOf, Zenon
  <2>4. End(s) = live[k].n_past
    BY <1>2, <1>9, <2>3, DecodeEnds, Zenon
  <2>5. kv[s] \in Seq(Tokens) /\ Len(kv[s]) \in Nat /\ DOMAIN kv[s] = 1..Len(kv[s])
    BY <1>2, <2>3, CacheOf, Zenon
  <2>6. Whole(k) \in Seq(Tokens)
    BY <1>2, OfRequest, LiveFields, Concat, Zenon DEF Whole
  <2>7. ASSUME NEW p \in 1..End(s) PROVE kv'[s][p] = Whole(k)[p]
    <3>1. CASE p \in 1..Len(kv[s])
      <4>1. kv[s][p] = Whole(k)[p]
        BY <2>2, <2>3, <2>5, <3>1, Zenon
      <4>2. kv'[s][p] = kv[s][p]
        BY <1>7, <2>5, <3>1, ZenonT(60)
      <4> QED
        BY <4>1, <4>2, Zenon
    <3>2. CASE ~(p \in 1..Len(kv[s]))
      <4>1. p = live[k].n_past
        BY <1>7, <2>2, <2>3, <2>4, <2>5, <3>2, SMTT(60)
      <4>2. i \in Mine(s)
        BY <2>2, <2>3 DEF Mine
      <4> QED
        BY <1>7, <2>2, <4>1, <4>2, SMTT(60)
    <3> QED
      BY <3>1, <3>2, Zenon
  <2>8. kv'[s] = Whole(k)
    <3>1. kv'[s] \in Seq(Tokens) /\ Len(kv'[s]) = Len(Whole(k)) /\ Len(kv'[s]) = End(s)
      BY <1>7, <2>2, <2>4
    <3> QED
      BY <2>6, <2>7, <3>1, SameSequence, ZenonT(60)
  <2>9. i \in DOMAIN logits' /\ logits'[i] = SubSeq(kv'[s], 1, batch[i].pos + 1)
    BY <1>1, <2>2, <2>3, Zenon DEF llama_decode
  <2>10. SubSeq(kv'[s], 1, batch[i].pos + 1) = kv'[s]
    BY <2>2, <2>6, <2>8, AllOf
  <2> QED
    BY <2>1, <2>2, <2>3, <2>8, <2>9, <2>10, Zenon
<1>10. SampleInv'
  BY <1>1, <1>5, <1>9, Zenon DEF SampleInv
<1> QED
  BY <1>1, <1>3, <1>6, <1>8, <1>10, Zenon DEF DecodingInv, StageInv

\* What an active sequence samples is a token.
LEMMA SampledToken ==
  ASSUME DecodingInv, pc = "sample", NEW k \in DOMAIN live, live[k].active
  PROVE  /\ Sampled(live[k]) \in Tokens /\ Whole(k) \in Seq(Tokens)
         /\ kv[k - 1] = Whole(k) /\ live[k].n_past = Len(Whole(k))
         /\ Len(Whole(k)) = Len(prompt[Of(k)]) + Len(live[k].text)
<1>1. pc \in Decoding /\ LiveInv /\ CallInv /\ SampleInv
  BY Zenon DEF Decoding, DecodingInv, StageInv
<1>2. /\ prompt[Of(k)] \in Seq(Tokens) /\ live[k].text \in Seq(Tokens) /\ Of(k) \in Requests
      /\ max_output_tokens[Of(k)] \in Nat
      /\ needed(Of(k)) = Len(prompt[Of(k)]) + max_output_tokens[Of(k)]
  BY <1>1, OfRequest, LiveFields, Zenon
<1>3. /\ Whole(k) \in Seq(Tokens)
      /\ Len(Whole(k)) = Len(prompt[Of(k)]) + Len(live[k].text)
      /\ DOMAIN Whole(k) = 1..Len(Whole(k))
  BY <1>2, Concat DEF Whole
<1>4. /\ live[k].generated = Len(live[k].text) /\ live[k].generated < max_output_tokens[Of(k)]
      /\ prompt[Of(k)] # <<>>
  BY <1>1, Zenon DEF LiveInv
<1>5. Len(Whole(k)) \in 1..needed(Of(k))
  <2>1. PICK a \in Nat : a = Len(prompt[Of(k)]) /\ a >= 1
    BY <1>2, <1>4
  <2>2. PICK t \in Nat : t = Len(live[k].text)
    BY <1>2
  <2>3. PICK m \in Nat : m = max_output_tokens[Of(k)]
    BY <1>2, Zenon
  <2>4. t < m /\ Len(Whole(k)) = a + t /\ needed(Of(k)) = a + m
    BY <1>2, <1>3, <1>4, <2>1, <2>2, <2>3, Zenon
  <2> QED
    BY <2>1, <2>4
<1>6. Whole(k) \in [1..Len(Whole(k)) -> Tokens]
  BY <1>3, SequenceMap, Zenon
<1>7. Greedy(Whole(k)) \in Tokens
  BY <1>2, <1>5, <1>6, TokenAssumption, ZenonT(60)
<1>8. logits[live[k].logits_batch_index + 1] = Whole(k) /\ live[k].n_past = Len(Whole(k))
      /\ kv[k - 1] = Whole(k)
  BY <1>1 DEF SampleInv
<1> QED
  BY <1>3, <1>7, <1>8, Zenon DEF Sampled

\* A pass stops once at each of its places.
LEMMA SlotOf ==
  ASSUME NEW S \in SUBSET Nat, NEW n \in Nat, NEW order \in Passes(S, n), NEW j \in DOMAIN order
  PROVE  Slot(order[j], order) + 1 = j /\ Slot(order[j], order) \in Int
<1>1. PICK m \in 0..n : order \in [1..m -> S] /\ DOMAIN order = 1..m
  BY PassFacts
<1>2. \A a, b \in 1..m : a < b => order[a] < order[b]
  BY <1>1, PassFacts, Zenon
<1> DEFINE c == CHOOSE i \in DOMAIN order : order[i] = order[j]
<1>3. c \in DOMAIN order /\ order[c] = order[j]
  OBVIOUS
<1>4. Slot(order[j], order) = c - 1
  BY DEF Slot
<1> HIDE DEF c
<1>5. order[c] \in Nat /\ order[j] \in Nat /\ c \in 1..m /\ j \in 1..m
  BY <1>1, <1>3, Zenon
<1>6. ~(c < j) /\ ~(j < c)
  BY <1>2, <1>3, <1>5
<1>7. c = j
  BY <1>5, <1>6
<1> QED
  BY <1>4, <1>5, <1>7

\* The sequences sample and those that go on are put in the next batch.
LEMMA SampleKeeps ==
  ASSUME DecodingInv, NEW unprintable, Sample(unprintable)
  PROVE  DecodingInv'
<1> DEFINE fate(k) == IF live[k].active THEN Fate(live[k], unprintable) ELSE "inactive"
           going == {k \in DOMAIN live : fate(k) = "on"}
           token(k) == Sampled(live[k])
           After(order) ==
             /\ batch' = [j \in DOMAIN order |->
                            Entry(live[order[j]], token(order[j]), live[order[j]].n_past, TRUE)]
             /\ live' = [k \in DOMAIN live |->
                           IF k \in going
                           THEN [live[k] EXCEPT !.text = Append(live[k].text, token(k)),
                                                !.generated = @ + 1,
                                                !.logits_batch_index = Slot(k, order),
                                                !.n_past = @ + 1]
                           ELSE [live[k] EXCEPT !.active = FALSE]]
<1>1. \/ \E answers : Return(answers)
      \/ /\ pc' = "decode" /\ UNCHANGED <<config, loaded, kv, logits, requests>>
         /\ \E order \in Passes(going, Len(live)) : After(order)
  BY Zenon DEF Sample
<1>2. CASE \E answers : Return(answers)
  BY <1>2, ReturnKeeps
<1>3. ASSUME pc' = "decode", UNCHANGED <<config, loaded, kv, logits, requests>>,
             NEW order \in Passes(going, Len(live)), After(order)
      PROVE  DecodingInv'
  <2>1. pc = "sample"
    BY ZenonT(60) DEF Sample
  <2>2. pc \in Decoding /\ pc' \in Decoding /\ LiveInv /\ CacheInv /\ CallInv /\ SampleInv
    BY <1>3, <2>1, ZenonT(60) DEF Decoding, DecodingInv, StageInv
  <2>3. ConfigInv' /\ LoadedInv' /\ CallInv'
    BY <1>3, <2>2, StillDecoding, ZenonT(60)
  <2>4. /\ Len(live) \in Nat /\ DOMAIN live = 1..Len(live) /\ live \in Seq(LiveType)
        /\ going \in SUBSET Nat /\ going \subseteq DOMAIN live
    BY <2>2, SMTT(60) DEF LiveInv
  <2>5. ASSUME NEW k \in going
        PROVE  /\ k \in DOMAIN live /\ live[k].active
               /\ live[k].generated + 1 < max_output_tokens[Of(k)]
    <3>1. k \in DOMAIN live /\ fate(k) = "on"
      BY Zenon
    <3>2. live[k].active /\ Fate(live[k], unprintable) = "on"
      BY <3>1, Zenon
    <3>3. ~(live[k].generated + 1 >= max_output_tokens[requests[live[k].result_index]])
      BY <3>2, Zenon DEF Fate
    <3>4. max_output_tokens[Of(k)] \in Nat /\ live[k].generated \in Nat
      BY <2>2, <3>1, OfRequest, LiveFields, Zenon
    <3> QED
      BY <3>1, <3>2, <3>3, <3>4 DEF Of
  <2>6. PICK m \in 0..Len(live) : order \in [1..m -> going] /\ DOMAIN order = 1..m
    <3> HIDE DEF going
    <3> QED
      BY <2>4, PassFacts
  <2>7. \A k \in going : \E j \in DOMAIN order : order[j] = k
    <3> HIDE DEF going
    <3> QED
      BY <2>4, PassFacts, ZenonT(60)
  <2>8. ASSUME NEW j \in DOMAIN order PROVE Slot(order[j], order) + 1 = j /\ Slot(order[j], order) \in Int
    <3> HIDE DEF going
    <3> QED
      BY <2>4, SlotOf, Zenon
  <2>9. ASSUME NEW k \in going PROVE Slot(k, order) \in Int
    BY <2>7, <2>8
  <2>10. ASSUME NEW k \in going
         PROVE  /\ live'[k] = [live[k] EXCEPT !.text = Append(live[k].text, token(k)),
                                              !.generated = live[k].generated + 1,
                                              !.logits_batch_index = Slot(k, order),
                                              !.n_past = live[k].n_past + 1]
    BY <1>3, <2>4, ZenonT(60)
  <2>11. ASSUME NEW k \in DOMAIN live, k \notin going
         PROVE  live'[k] = [live[k] EXCEPT !.active = FALSE]
    BY <1>3, <2>11, ZenonT(60)
  <2>12. ASSUME NEW j \in DOMAIN order
         PROVE  batch'[j] = Entry(live[order[j]], token(order[j]), live[order[j]].n_past, TRUE)
    BY <1>3, ZenonT(60)
  <2>13. /\ DOMAIN live' = 1..Len(live) /\ live' = [k \in 1..Len(live) |-> live'[k]]
         /\ DOMAIN batch' = 1..m /\ batch' = [j \in 1..m |-> batch'[j]]
    BY <1>3, <2>4, <2>6, ZenonT(60)
  <2>14. ASSUME NEW k \in going
         PROVE  token(k) \in Tokens
    BY <2>1, <2>5, SampledToken, ZenonT(60)
  <2> HIDE DEF going, token, After
  <2>15. ASSUME NEW k \in DOMAIN live
         PROVE  /\ live'[k] \in LiveType
                /\ live'[k].seq_id = live[k].seq_id /\ live'[k].result_index = live[k].result_index
                /\ live'[k].active => k \in going
                /\ k \in going => /\ live'[k].text = Append(live[k].text, token(k))
                                  /\ live'[k].generated = live[k].generated + 1
                                  /\ live'[k].logits_batch_index = Slot(k, order)
                                  /\ live'[k].n_past = live[k].n_past + 1
                /\ k \notin going => live'[k].text = live[k].text /\ live'[k].generated = live[k].generated
    <3>1. live[k] \in LiveType
      BY <2>4
    <3>2. CASE k \in going
      <4>1. PICK t \in Seq(Tokens) : t = Append(live[k].text, token(k))
        BY <2>2, <2>14, <3>2, LiveFields, ConcatAppend, ZenonT(60)
      <4>2. PICK g \in Nat : g = live[k].generated + 1
        BY <2>2, LiveFields
      <4>3. PICK n \in Nat : n = live[k].n_past + 1
        BY <2>2, LiveFields
      <4>4. PICK l \in Int : l = Slot(k, order)
        BY <2>9, <3>2
      <4>5. live'[k] = [live[k] EXCEPT !.text = t, !.generated = g, !.logits_batch_index = l, !.n_past = n]
        BY <2>10, <3>2, <4>1, <4>2, <4>3, <4>4, ZenonT(60)
      <4>6. /\ live'[k] \in LiveType
            /\ live'[k].seq_id = live[k].seq_id /\ live'[k].result_index = live[k].result_index
            /\ live'[k].text = t /\ live'[k].generated = g
            /\ live'[k].logits_batch_index = l /\ live'[k].n_past = n
        BY <3>1, <4>5, ZenonT(60) DEF LiveType
      <4> QED
        BY <3>2, <4>1, <4>2, <4>3, <4>4, <4>6, Zenon
    <3>3. CASE k \notin going
      <4>1. /\ live'[k] \in LiveType
            /\ live'[k].seq_id = live[k].seq_id /\ live'[k].result_index = live[k].result_index
            /\ live'[k].text = live[k].text /\ live'[k].generated = live[k].generated
            /\ live'[k].active = FALSE
        BY <2>11, <3>1, <3>3, ZenonT(60) DEF LiveType
      <4> QED
        BY <3>3, <4>1
    <3> QED
      BY <3>2, <3>3
  <2>16. live' \in Seq(LiveType) /\ Len(live') = Len(live) /\ DOMAIN live' = DOMAIN live
    <3>1. live' = [k \in 1..Len(live) |-> live'[k]] /\ Len(live) \in Nat /\ DOMAIN live = 1..Len(live)
      BY <2>4, <2>13, Zenon
    <3>2. \A k \in 1..Len(live) : live'[k] \in LiveType
      BY <2>15, <3>1, Zenon
    <3> QED
      BY <3>1, <3>2
  <2>17. \A k \in DOMAIN live : Of(k)' = Of(k)
    BY <1>3, <2>15, Zenon DEF Of
  <2>18. LiveInv'
    <3>1. ASSUME NEW k \in DOMAIN live
          PROVE  /\ live'[k].generated = Len(live'[k].text)
                 /\ live'[k].active => live'[k].generated < max_output_tokens[Of(k)]
      <4>1. live[k].generated = Len(live[k].text)
        BY <2>2, Zenon DEF LiveInv
      <4>2. CASE k \in going
        <5>1. Len(Append(live[k].text, token(k))) = Len(live[k].text) + 1
          BY <2>2, <2>14, <4>2, LiveFields, ConcatAppend
        <5> QED
          BY <2>5, <2>15, <4>1, <4>2, <5>1, ZenonT(60)
      <4>3. CASE k \notin going
        BY <2>15, <4>1, <4>3, Zenon
      <4> QED
        BY <4>2, <4>3, Zenon
    <3>2. ASSUME NEW k \in DOMAIN live
          PROVE  /\ live'[k].seq_id = k - 1
                 /\ live'[k].result_index \in DOMAIN requests
                 /\ prompt[Of(k)] # <<>>
                 /\ needed(Of(k)) <= config.context_tokens_per_sequence
      BY <2>2, <2>15, Zenon DEF LiveInv
    <3>3. Len(live') <= Len(requests')
      BY <1>3, <2>2, <2>16, Zenon DEF LiveInv
    <3> QED
      BY <1>3, <2>16, <2>17, <3>1, <3>2, <3>3, Zenon DEF LiveInv, needed
  <2>19. CacheInv'
    BY <1>3, <2>2, ZenonT(60) DEF CacheInv
  <2>20. ASSUME NEW j \in DOMAIN order
         PROVE  /\ batch'[j] \in EntryType /\ batch'[j].seq_id = order[j] - 1
                /\ batch'[j].token = token(order[j]) /\ batch'[j].pos = live[order[j]].n_past
                /\ batch'[j].logits = TRUE
    <3>1. PICK k \in going : k = order[j]
      BY <2>6, Zenon
    <3>2. live[k].seq_id = k - 1 /\ k - 1 \in Nat /\ live[k].n_past \in Nat /\ token(k) \in Tokens
      BY <2>2, <2>4, <2>14, LiveFields, Zenon DEF LiveInv
    <3>3. batch'[j] = [token |-> token(k), pos |-> live[k].n_past, seq_id |-> k - 1, logits |-> TRUE]
      BY <2>12, <3>1, <3>2, Zenon DEF Entry
    <3> QED
      BY <3>1, <3>2, <3>3 DEF EntryType
  <2>21. batch' \in Seq(EntryType) /\ Len(batch') = m /\ DOMAIN batch' = DOMAIN order
    <3>1. \A j \in 1..m : batch'[j] \in EntryType
      BY <2>6, <2>20, Zenon
    <3>2. m \in Nat
      BY <2>4, <2>6
    <3> QED
      BY <2>6, <2>13, <3>1, <3>2, MapSequence, Zenon
  <2>22. DecodeInv'
    <3>1. ASSUME NEW i \in DOMAIN batch', NEW k, k = batch'[i].seq_id + 1
          PROVE  k \in DOMAIN live' /\ live'[k].active /\ live'[k].logits_batch_index + 1 = i
      <4>1. k = order[i] /\ k \in going /\ i \in DOMAIN order
        <5>1. i \in DOMAIN order /\ order[i] \in going /\ order[i] \in Nat
          BY <2>4, <2>6, <2>21, Zenon
        <5>2. (order[i] - 1) + 1 = order[i]
          BY <5>1
        <5> QED
          BY <2>20, <3>1, <5>1, <5>2, Zenon
      <4>2. live'[k].active
        <5>1. live[k].active /\ live[k] \in LiveType
          <6>1. k \in DOMAIN live /\ live \in Seq(LiveType)
            BY <2>4, <4>1, ZenonT(60)
          <6>2. live[k] \in LiveType
            BY <6>1
          <6> QED
            BY <2>5, <4>1, <6>2, Zenon
        <5>2. live'[k].active = live[k].active
          BY <2>10, <4>1, <5>1, Zenon DEF LiveType
        <5> QED
          BY <5>1, <5>2, Zenon
      <4> QED
        BY <2>4, <2>8, <2>15, <2>16, <4>1, <4>2, ZenonT(60)
    <3>2. ASSUME NEW k \in DOMAIN live', live'[k].active, NEW i, i = live'[k].logits_batch_index + 1
          PROVE  /\ i \in DOMAIN batch'
                 /\ batch'[i].seq_id = k - 1 /\ batch'[i].logits
                 /\ live'[k].n_past = Len(Whole(k)') /\ batch'[i].pos + 1 = live'[k].n_past
                 /\ batch'[i].token = Whole(k)'[live'[k].n_past]
                 /\ Len(kv'[k - 1]) + 1 = live'[k].n_past
                 /\ \A p \in DOMAIN kv'[k - 1] : kv'[k - 1][p] = Whole(k)'[p]
      <4>1. k \in going /\ k \in DOMAIN live
        BY <2>15, <2>16, <3>2, Zenon
      <4>2. PICK j \in DOMAIN order : order[j] = k
        BY <2>7, <4>1, Zenon
      <4>3. i = j
        BY <2>8, <2>15, <3>2, <4>1, <4>2, Zenon
      <4>4. /\ Whole(k) \in Seq(Tokens) /\ kv[k - 1] = Whole(k) /\ live[k].n_past = Len(Whole(k))
            /\ Len(Whole(k)) = Len(prompt[Of(k)]) + Len(live[k].text)
        BY <2>1, <2>5, <4>1, SampledToken, ZenonT(60)
      <4>5. Whole(k)' = prompt[Of(k)] \o Append(live[k].text, token(k))
        BY <2>15, <2>17, <4>1, Zenon DEF Whole
      <4>6. prompt[Of(k)] \in Seq(Tokens) /\ live[k].text \in Seq(Tokens) /\ token(k) \in Tokens
        BY <2>2, <2>14, <4>1, OfRequest, LiveFields, Zenon
      <4>7. /\ Len(Whole(k)') = Len(Whole(k)) + 1
            /\ \A p \in 1..Len(Whole(k)) : Whole(k)'[p] = Whole(k)[p]
            /\ Whole(k)'[Len(Whole(k)) + 1] = token(k)
        <5>1. PICK P \in Seq(Tokens) : P = prompt[Of(k)]
          BY <4>6, Zenon
        <5>2. PICK t \in Seq(Tokens) : t = live[k].text
          BY <4>6, Zenon
        <5>3. PICK x \in Tokens : x = token(k)
          BY <4>6, ZenonT(60)
        <5>4. /\ Len(P \o Append(t, x)) = Len(P) + Len(t) + 1
              /\ \A p \in 1..(Len(P) + Len(t)) : (P \o Append(t, x))[p] = (P \o t)[p]
              /\ (P \o Append(t, x))[Len(P) + Len(t) + 1] = x
          BY ConcatAppend, SMTT(60)
        <5>5. /\ Whole(k)' = P \o Append(t, x) /\ Whole(k) = P \o t
              /\ Len(Whole(k)) = Len(P) + Len(t)
          BY <4>4, <4>5, <5>1, <5>2, <5>3, Zenon DEF Whole
        <5> QED
          BY <5>3, <5>4, <5>5, Zenon
      <4>8. kv' = kv /\ DOMAIN kv[k - 1] = 1..Len(Whole(k)) /\ live'[k].n_past = live[k].n_past + 1
        <5>1. DOMAIN Whole(k) = 1..Len(Whole(k))
          BY <4>4, SequenceMap
        <5> QED
          BY <1>3, <2>15, <4>1, <4>4, <5>1, ZenonT(60)
      <4>9. /\ batch'[i].seq_id = k - 1 /\ batch'[i].token = token(k)
            /\ batch'[i].pos = live[k].n_past /\ batch'[i].logits = TRUE /\ i \in DOMAIN batch'
        BY <2>20, <2>21, <4>2, <4>3, ZenonT(60)
      <4> HIDE DEF Whole
      <4> QED
        BY <4>4, <4>7, <4>8, <4>9, ZenonT(60)
    <3>3. batch' \in Seq(EntryType) /\ Len(batch') <= Len(live')
      BY <2>4, <2>6, <2>16, <2>21
    <3> QED
      BY <3>1, <3>2, <3>3, Zenon DEF DecodeInv
  <2> QED
    BY <1>3, <2>3, <2>18, <2>19, <2>22, Zenon DEF DecodingInv, StageInv
<1> QED
  BY <1>1, <1>2, <1>3, Zenon

\* A step of infer_batch() keeps the invariant.
LEMMA BackendKeeps ==
  ASSUME DecodingInv, BackendStep
  PROVE  DecodingInv'
<1>1. CASE \E unusable : Setup(unusable)
  BY <1>1, SetupKeeps
<1>2. CASE \E unprintable : Sample(unprintable)
  BY <1>2, SampleKeeps
<1>3. CASE FillPrefix \/ PrefixFilled \/ Bootstrap
  BY <1>3, FillPrefixKeeps, PrefixFilledKeeps, BootstrapKeeps
<1>4. CASE DecodePrefix \/ Decode
  BY <1>4, DecodePrefixKeeps, DecodeKeeps
<1>5. CASE DecodeFails \/ Throws
  <2>1. \E answers : Return(answers)
    BY <1>5, Zenon DEF DecodeFails, Throws
  <2> QED
    BY <2>1, ReturnKeeps
<1> QED
  BY <1>1, <1>2, <1>3, <1>4, <1>5, Zenon DEF BackendStep

\* Between two calls there is no batch.
LEMMA IdleKeeps ==
  ASSUME DecodingInv, pc = "idle", pc' = pc, batch' = batch, UNCHANGED <<config, loaded>>,
         requests' \in Seq(Requests)
  PROVE  DecodingInv'
<1>1. ConfigInv' /\ LoadedInv'
  BY Zenon DEF DecodingInv, ConfigInv, LoadedInv
<1>2. CallInv' /\ StageInv'
  BY Zenon DEF DecodingInv, CallInv, StageInv, Decoding
<1> QED
  BY <1>1, <1>2, Zenon DEF DecodingInv

\* The backend is constructed.
LEMMA ConfigureKeeps ==
  ASSUME DecodingInv, pc = "idle", loaded = <<>>, UNCHANGED <<pc, loaded, requests, batch>>
  PROVE  DecodingInv'
<1>1. ConfigInv' /\ LoadedInv'
  BY DEF ConfigInv, LoadedInv
<1>2. CallInv' /\ StageInv'
  BY Zenon DEF DecodingInv, CallInv, StageInv, Decoding
<1> QED
  BY <1>1, <1>2, Zenon DEF DecodingInv

\* infer_batch() is called.
LEMMA InferBatchKeeps ==
  ASSUME DecodingInv, Configured, NEW reqs \in Seq(Requests), InferBatch(reqs)
  PROVE  DecodingInv'
<1>1. /\ pc = "idle" /\ pc' = "entered" /\ requests' = reqs /\ reqs # <<>>
      /\ UNCHANGED <<config, loaded, batch>>
  BY Zenon DEF InferBatch
<1>2. ConfigInv' /\ LoadedInv'
  BY <1>1, Zenon DEF DecodingInv, ConfigInv, Configured, LoadedInv
<1>3. CallInv' /\ StageInv'
  BY <1>1, Zenon DEF DecodingInv, CallInv, StageInv, Decoding
<1> QED
  BY <1>2, <1>3, Zenon DEF DecodingInv

\* A loaded model has a context with room for the sequences.
LEMMA LoadKeeps ==
  ASSUME DecodingInv, Configured, NEW id, Load(id)
  PROVE  DecodingInv'
<1>1. /\ pc = "idle" /\ UNCHANGED <<config, requests, pc, batch>>
      /\ n_seq_max <= LLAMA_MAX_SEQ
  BY Zenon DEF Load, callVars
<1>2. PICK n_ctx \in checked_mul_u32(config.context_tokens_per_sequence, n_seq_max) :
        loaded' = [x \in DOMAIN loaded \cup {id} |-> IF x = id THEN n_ctx ELSE loaded[x]]
  BY Zenon DEF Load
<1>3. config.max_sequences \in 1..(U32 - 1) /\ config.context_tokens_per_sequence \in 1..(U32 - 1)
  BY Zenon DEF Configured
<1>4. \A n \in 1..(U32 - 1) : n % U32 = n
  BY TokenAssumption
<1>5. n_seq_max = config.max_sequences
  BY <1>3, <1>4, Zenon DEF n_seq_max
<1>6. n_ctx = config.context_tokens_per_sequence * config.max_sequences
  BY <1>2, <1>3, <1>5, TokenAssumption, Product, Zenon
<1>7. LoadedInv'
  BY <1>1, <1>2, <1>5, <1>6, Zenon DEF DecodingInv, LoadedInv
<1>8. ConfigInv'
  BY <1>1, ZenonT(60) DEF ConfigInv
<1>9. CallInv' /\ StageInv'
  BY <1>1 DEF DecodingInv, CallInv, StageInv, Decoding
<1> QED
  BY <1>7, <1>8, <1>9, Zenon DEF DecodingInv

\* An unloaded model leaves the other contexts alone.
LEMMA UnloadKeeps ==
  ASSUME DecodingInv, NEW id, Unload(id)
  PROVE  DecodingInv'
<1>1. /\ pc = "idle" /\ UNCHANGED <<config, requests, pc, batch>>
      /\ loaded' = [x \in DOMAIN loaded \ {id} |-> loaded[x]]
  BY DEF Unload, callVars
<1>2. LoadedInv'
  BY <1>1 DEF DecodingInv, LoadedInv
<1>3. ConfigInv'
  BY <1>1, Zenon DEF ConfigInv
<1>4. CallInv' /\ StageInv'
  BY <1>1, Zenon DEF DecodingInv, CallInv, StageInv, Decoding
<1> QED
  BY <1>2, <1>3, <1>4, Zenon DEF DecodingInv

\* Nothing of it changes.
LEMMA StutterKeeps ==
  ASSUME DecodingInv, UNCHANGED <<config, loaded, kv, logits, pc, requests, live, batch>>
  PROVE  DecodingInv'
<1>1. \A k : Of(k)' = Of(k) /\ Whole(k)' = Whole(k)
  BY Zenon DEF Of, Whole
<1>2. ConfigInv' /\ LoadedInv' /\ CallInv'
  BY ZenonT(60) DEF DecodingInv, ConfigInv, Configured, LoadedInv, CallInv
<1>3. (LiveInv => LiveInv') /\ (CacheInv => CacheInv')
  BY <1>1 DEF LiveInv, CacheInv, needed
<1>4. (PromptInv => PromptInv') /\ (BootstrapInv => BootstrapInv')
  BY <1>1, ZenonT(60) DEF PromptInv, BootstrapInv
<1>5. PrefixInv => PrefixInv'
  BY PrefixStays, Zenon
<1>6. DecodeInv => DecodeInv'
  BY ZenonT(60) DEF DecodeInv, Of, Whole
<1>7. SampleInv => SampleInv'
  BY <1>1 DEF SampleInv
<1>8. StageInv'
  BY <1>3, <1>4, <1>5, <1>6, <1>7 DEF DecodingInv, StageInv
<1> QED
  BY <1>2, <1>8, Zenon DEF DecodingInv
=============================================================================
