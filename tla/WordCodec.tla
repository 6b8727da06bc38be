------------------------------ MODULE WordCodec ------------------------------
(***************************************************************************)
(* What is computed of a wake word on its way to the engine: its phonemes  *)
(* (src/siren_alg.cpp), its default scores (src/siren_proxy.cpp) and the   *)
(* message that carries the list (src/siren_channel.cpp), laid out byte by *)
(* byte because lengths and offsets are what can be wrong with it.         *)
(*                                                                         *)
(* A string is a sequence of characters.  A byte of a message holds a      *)
(* character, NUL, or, at the first of its bytes, a packed structure.      *)
(* Scores are in tenths.  The five bool settings and vt_classify_shield    *)
(* are one value, flags.                                                   *)
(***************************************************************************)
EXTENDS Integers, Sequences, SequencesExt

CONSTANTS
  Letters,    \* characters isalnum accepts beside the digits
  Phonemes,   \* phonemeMaps: syllables with their tone to their phonemes
  NUL         \* '\0', and any byte of padding

Digits == {"0", "1", "2", "3", "4", "5", "6", "7", "8", "9"}

\* genResult puts '|' behind the head of a phoneme, so no result is alphanumeric.
ASSUME PhonemesAreMarked ==
  \A s \in DOMAIN Phonemes : \E i \in DOMAIN Phonemes[s] :
    Phonemes[s][i] \notin Letters \cup Digits

\* What c_str() gives back whole.
IsText(t) == t \in Seq(Range(t) \ {NUL})

ASSUME PhonemesAreTexts == " " # NUL /\ \A s \in DOMAIN Phonemes : IsText(Phonemes[s])

\* A siren_vt_word with its alg_config.
IsWord(w) ==
  /\ w = [vt_type |-> w.vt_type, vt_word |-> w.vt_word, vt_phone |-> w.vt_phone,
          alg |-> w.alg]
  /\ w.alg = [avg |-> w.alg.avg, min |-> w.alg.min, flags |-> w.alg.flags,
              nnet_path |-> w.alg.nnet_path]
  /\ IsText(w.vt_word) /\ IsText(w.vt_phone) /\ IsText(w.alg.nnet_path)

---------------------------------------------------------------------------
(* pinyin2Phoneme *)

\* The pinyin cut behind each digit; what follows the last one is dropped.
Syllables(pinyin) ==
  LET tones == {i \in DOMAIN pinyin : pinyin[i] \in Digits}
      UpTo(i) == {t \in tones : t <= i}
      end(k) == CHOOSE t \in tones : Cardinality(UpTo(t)) = k
      start(k) == Max({0} \cup UpTo(end(k) - 1)) + 1
  IN [k \in 1 .. Cardinality(tones) |-> SubSeq(pinyin, start(k), end(k))]

HasPhoneme(pinyin) ==
  /\ \A i \in DOMAIN pinyin : pinyin[i] \in Letters \cup Digits
  /\ Syllables(pinyin) # <<>>
  /\ Range(Syllables(pinyin)) \subseteq DOMAIN Phonemes

Pinyin2Phoneme(pinyin) ==
  LET syllables == Syllables(pinyin)
      spaced == FlattenSeq([k \in DOMAIN syllables |-> Append(Phonemes[syllables[k]], " ")])
  IN Front(spaced)

\* vt_block_avg_score and vt_block_min_score by the number of tones 1 to 4.
DefaultScores(pinyin) ==
  LET size == Len(SelectSeq(pinyin, LAMBDA c : c \in {"1", "2", "3", "4"}))
      ecx == (size + 1) \div 2 - 1
      less == IF ecx \in 1 .. 2 THEN 5 * ecx ELSE 0
  IN [avg |-> Max({42 - less, 32}), min |-> Max({27 - less, 17})]

---------------------------------------------------------------------------
(* The SYNC_VT_WORD_LIST message *)

ConfigBytes == 37   \* sizeof(UnpackedVTConfig): 3 floats, 5 bools, 5 ints, packed
CountBytes == 16    \* the number of words and three ints nobody reads

Zeros(n) == [i \in 1 .. n |-> NUL]

PackedLen(w) ==
  LET len == ConfigBytes + Len(w.vt_word) + Len(w.vt_phone) + Len(w.alg.nnet_path) + 3
  IN len + (8 - (len % 8))

UnpackedVTConfig(w) ==
  [total_len |-> PackedLen(w), vt_type |-> w.vt_type, avg |-> w.alg.avg,
   min |-> w.alg.min, flags |-> w.alg.flags, word_size |-> Len(w.vt_word),
   phone_size |-> Len(w.vt_phone), nnet_size |-> Len(w.alg.nnet_path)]

\* What follows in the buffer is written after it, over anything beyond its length.
Packed(w) ==
  SubSeq(<<UnpackedVTConfig(w)>> \o Zeros(ConfigBytes - 1)
           \o Append(w.vt_word, NUL) \o Append(w.vt_phone, NUL)
           \o Append(w.alg.nnet_path, NUL) \o Zeros(8),
         1, PackedLen(w))

AllocateMessageFromVTWord(words) ==
  LET data == <<Len(words)>> \o Zeros(CountBytes - 1)
                \o FlattenSeq([i \in DOMAIN words |-> Packed(words[i])])
  IN IF words = <<>> THEN [len |-> 0, data |-> <<>>]
                     ELSE [len |-> Len(data), data |-> data]

\* The C string at offset k of the data.
CString(data, k) ==
  LET end == SelectInSubSeq(data, k + 1, Len(data), LAMBDA b : b = NUL)
  IN SubSeq(data, k + 1, end - 1)

\* The word packed at offset k, and the code it makes getVTWordFromMessage return.
Unpacked(data, k) ==
  LET c == data[k + 1]
      word == k + ConfigBytes
      phone == word + c.word_size + 1
      path == phone + c.phone_size + 1
      Ends(p, size) == data[p + size + 1] = NUL
  IN [ret |-> IF ~Ends(word, c.word_size) THEN -4
              ELSE IF ~Ends(phone, c.phone_size) THEN -7
              ELSE IF c.nnet_size # 0 /\ ~Ends(path, c.nnet_size) THEN -5 ELSE 0,
      word |-> [vt_type |-> c.vt_type, vt_word |-> CString(data, word),
                vt_phone |-> CString(data, phone),
                alg |-> [avg |-> c.avg, min |-> c.min, flags |-> c.flags,
                         nnet_path |-> IF c.nnet_size = 0 THEN <<>> ELSE CString(data, path)]]]

\* Where the words begin, each total_len bytes behind the one before.
Offsets(data) ==
  LET offset[i \in 1 .. data[1]] ==
        IF i = 1 THEN CountBytes
                 ELSE offset[i - 1] + data[offset[i - 1] + 1].total_len
  IN offset

GetVTWordFromMessage(m) ==
  LET num == m.data[1]
      unpacked == [i \in 1 .. num |-> Unpacked(m.data, Offsets(m.data)[i])]
      bad == {i \in 1 .. num : unpacked[i].ret # 0}
  IN IF m.len = 0 THEN [ret |-> -2, words |-> <<>>]
     ELSE IF m.len < ConfigBytes * num THEN [ret |-> -6, words |-> <<>>]
     ELSE [ret |-> IF bad = {} THEN 0 ELSE unpacked[Min(bad)].ret,
           words |-> [i \in 1 .. num |-> unpacked[i].word]]
=============================================================================
