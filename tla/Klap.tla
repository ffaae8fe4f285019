-------------------------------- MODULE Klap --------------------------------
(***************************************************************************)
(* The cipher and encodings of the Kasa transport (service/src/kasa.rs and *)
(* crypto.rs).  A digest is a term of what was digested and an encrypted   *)
(* block a term of its key, the initialisation vector and the plaintext up *)
(* to it: terms are equal only when these are.  Padding and base64 are     *)
(* computed.                                                               *)
(***************************************************************************)
EXTENDS HttpAnswer, JsonValue, SequencesExt, TLC

CONSTANTS
    BlockSize,  \* of the cipher, 16
    Words       \* the sequence numbers: 2^32

ASSUME KlapAssumption == BlockSize \in Nat \ {0} /\ Words \in Nat \ {0}

-----------------------------------------------------------------------------
(* Digests and session keys.  A seed stands for the pair of seeds of one   *)
(* handshake.                                                              *)

sha256(term) == <<"sha256", term>>

auth_hash(account) == sha256(<<"account", account>>)

\* What the plug proves, and what the collector proves in return.
plug_proof(seed, auth) == sha256(<<"local", "remote", seed, auth>>)
our_proof(seed, auth) == sha256(<<"remote", "local", seed, auth>>)

derive_keys(seed, auth) ==
    [key |-> sha256(<<"lsk", seed, auth>>), iv |-> sha256(<<"iv", seed, auth>>),
     sig |-> sha256(<<"ldk", seed, auth>>)]

\* Mutant: the sequence number stops at the largest word.
saturating_add(seq) == IF seq = Words - 1 THEN seq ELSE seq + 1

wrapping_add(seq) == (seq + 1) % Words

-----------------------------------------------------------------------------
(* AES-128-CBC with PKCS#7 padding.  A text has the newline, whose byte is *)
(* a padding value: here the second.                                       *)

PadByte == [n \in 1..BlockSize |-> IF n = 2 THEN Newline ELSE "pad" \o ToString(n)]

\* One block: with what is chained to it, it depends on the text so far.
encrypt_block(key, iv, plain) == <<"block", key, iv, plain>>

padded(text) ==
    LET pad == BlockSize - (Len(text) % BlockSize) IN text \o [i \in 1..pad |-> PadByte[pad]]

aes128_cbc_encrypt(key, iv, text) ==
    [b \in 1..Len(padded(text)) \div BlockSize |->
        encrypt_block(key, iv, SubSeq(padded(text), 1, b * BlockSize))]

\* A block that was encrypted otherwise decrypts to noise, which is no padding.
Noise == [i \in 1..BlockSize |-> "noise"]

\* What was chained to a block when it was encrypted.
chained_to(block) ==
    LET before == Len(block[4]) - BlockSize
    IN  IF before = 0 THEN block[3]
        ELSE encrypt_block(block[2], block[3], SubSeq(block[4], 1, before))

decrypt_block(key, block, chained) ==
    IF block[2] = key /\ chained = chained_to(block)
    THEN SubSeq(block[4], Len(block[4]) - BlockSize + 1, Len(block[4])) ELSE Noise

\* The padding is checked and removed.
strip_padding(plain) ==
    {SubSeq(plain, 1, Len(plain) - pad) :
        pad \in {n \in 1..BlockSize :
                    \A i \in Len(plain) - n + 1..Len(plain) : plain[i] = PadByte[n]}}

\* A block and a byte of what is decrypted.
plain_block(key, iv, cipher, b) ==
    decrypt_block(key, cipher[b], IF b = 1 THEN iv ELSE cipher[b - 1])

plain_byte(key, iv, cipher, i) ==
    plain_block(key, iv, cipher, ((i - 1) \div BlockSize) + 1)[((i - 1) % BlockSize) + 1]

aes128_cbc_decrypt(key, iv, cipher) ==
    IF cipher = << >> \/ Piece \in Range(cipher) THEN {}
    ELSE strip_padding([i \in 1..Len(cipher) * BlockSize |-> plain_byte(key, iv, cipher, i)])

-----------------------------------------------------------------------------
(* Payloads.                                                               *)

iv_of(keys, seq) == <<keys.iv, seq>>

\* The signature goes first.
encrypt_payload(keys, seq, text) ==
    LET cipher == aes128_cbc_encrypt(keys.key, iv_of(keys, seq), text)
    IN  <<sha256(<<keys.sig, seq, cipher>>)>> \o cipher

\* It is skipped in an answer.
decrypt_payload(keys, seq, payload) ==
    IF payload = << >> \/ payload = <<Piece>> THEN {}
    ELSE aes128_cbc_decrypt(keys.key, iv_of(keys, seq), Tail(payload))

-----------------------------------------------------------------------------
(* base64 (RFC 4648).                                                      *)

B64 ==
    << "A", "B", "C", "D", "E", "F", "G", "H", "I", "J", "K", "L", "M", "N", "O", "P",
       "Q", "R", "S", "T", "U", "V", "W", "X", "Y", "Z", "a", "b", "c", "d", "e", "f",
       "g", "h", "i", "j", "k", "l", "m", "n", "o", "p", "q", "r", "s", "t", "u", "v",
       "w", "x", "y", "z", "0", "1", "2", "3", "4", "5", "6", "7", "8", "9", "+", "/" >>

Sextet ==
    [c \in Range(B64) \cup {"="} |-> IF c = "=" THEN 0 ELSE (CHOOSE i \in 1..64 : B64[i] = c) - 1]

\* Three bytes give four characters; "=" stands for those of missing bytes.
encode_three(b) ==
    LET byte(i) == IF i <= Len(b) THEN b[i] ELSE 0
        n == byte(1) * 65536 + byte(2) * 256 + byte(3)
        sextet(i) == n \div <<262144, 4096, 64, 1>>[i] % 64
    IN  [i \in 1..4 |-> IF i > Len(b) + 1 THEN "=" ELSE B64[sextet(i) + 1]]

base64_encode(bytes) ==
    FlattenSeq([g \in 1..(Len(bytes) + 2) \div 3 |->
                   encode_three(SubSeq(bytes, 3 * g - 2, Min({3 * g, Len(bytes)})))])

\* Four characters are one number, a padding a digit of 0 ...
word_of(c) == ((Sextet[c[1]] * 64 + Sextet[c[2]]) * 64 + Sextet[c[3]]) * 64 + Sextet[c[4]]

pad_of(c) == Cardinality({i \in 3..4 : c[i] = "="})

\* ... and three bytes, one less for every padding.
decode_four(c) ==
    LET n == word_of(c)
    IN  SubSeq(<<n \div 65536, n \div 256 % 256, n % 256>>, 1, 3 - pad_of(c))

\* ASCII whitespace does not count ...
Blanks == Space \cup {"\f"}

without_blanks(text) ==
    FlattenSeq([i \in DOMAIN text |-> IF text[i] \in Blanks THEN << >> ELSE <<text[i]>>])

\* ... and "=" is allowed in the last two places of a group only.
base64_decode(text) ==
    LET cleaned == without_blanks(text)
        allowed(i) == cleaned[i] \in DOMAIN Sextet /\ (cleaned[i] = "=" => (i - 1) % 4 >= 2)
    IN  IF Len(cleaned) % 4 # 0 \/ \E i \in DOMAIN cleaned : ~allowed(i) THEN {}
        ELSE {FlattenSeq([g \in 1..Len(cleaned) \div 4 |->
                             decode_four(SubSeq(cleaned, 4 * g - 3, 4 * g))])}

\* The characters of the bytes that the names of the instances have.
Ascii == 10 :> "\n" @@ 34 :> Quote @@ 65 :> "A"

=============================================================================
