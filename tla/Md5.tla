--------------------------------- MODULE Md5 ---------------------------------
(***************************************************************************)
(* calculate_md5, on a little endian platform.  Data is a sequence of      *)
(* bytes, and an uint32_t is the set of its bits that are 1: the integers  *)
(* TLC computes with are too small for it.  The digest and the indices of  *)
(* words begin at 0, as in the code, where they are computed with.         *)
(***************************************************************************)
EXTENDS Integers, SequencesExt

block_size               == 64
processed_width_per_step == 16
number_of_steps          == block_size \div processed_width_per_step
size_of_size             == 8
max_size_minus_size      == block_size - size_of_size
bits_per_byte            == 8
Width                    == 32

-----------------------------------------------------------------------------
(* Words. *)
BitsFrom(n, offset) ==
  {offset + i : i \in {j \in 0 .. 15 : (n \div 2 ^ j) % 2 = 1}}

WordOf(high, low) == BitsFrom(low, 0) \cup BitsFrom(high, 16)

bnot(x) == (0 .. Width - 1) \ x

xor(x, y) == (x \ y) \cup (y \ x)

(* The sum of words.  A bit is carried from a place where both have one as *)
(* far as one of them has; the last carry is lost.                         *)
Plus(x, y) ==
  LET both       == x \cap y
      any        == x \cup y
      carried(i) == \E j \in both : j < i /\ j + 1 .. i - 1 \subseteq any
  IN  {i \in 0 .. Width - 1 : (i \in xor(x, y)) # carried(i)}

rotate_left(x, bits) == {(i + bits) % Width : i \in x}

(* floor(abs(sin(i + 1)) * 2^32), which make_table_k calculates, as the    *)
(* upper and the lower half of a word.                                     *)
table_k ==
  <<<<55146, 42104>>, <<59591, 46934>>, <<9248, 28891>>, <<49597, 52974>>,
    <<62844, 4015>>, <<18311, 50730>>, <<43056, 17939>>, <<64838, 38145>>,
    <<27008, 39128>>, <<35652, 63407>>, <<65535, 23473>>, <<35164, 55230>>,
    <<27536, 4386>>, <<64920, 29075>>, <<42617, 17294>>, <<18868, 2081>>,
    <<63006, 9570>>, <<49216, 45888>>, <<9822, 23121>>, <<59830, 51114>>,
    <<54831, 4189>>, <<580, 5203>>, <<55457, 59009>>, <<59347, 64456>>,
    <<8673, 52710>>, <<49975, 2006>>, <<62677, 3463>>, <<17754, 5357>>,
    <<43491, 59653>>, <<64751, 41976>>, <<26479, 729>>, <<36138, 19594>>,
    <<65530, 14658>>, <<34673, 63105>>, <<28061, 24866>>, <<64997, 14348>>,
    <<42174, 59972>>, <<19422, 53161>>, <<63163, 19296>>, <<48831, 48240>>,
    <<10395, 32454>>, <<60065, 10234>>, <<54511, 12421>>, <<1160, 7429>>,
    <<55764, 53305>>, <<59099, 39397>>, <<8098, 31992>>, <<50348, 22117>>,
    <<62505, 8772>>, <<17194, 65431>>, <<43924, 9127>>, <<64659, 41017>>,
    <<25947, 22979>>, <<36620, 52370>>, <<65519, 62589>>, <<34180, 24017>>,
    <<28584, 32335>>, <<65068, 59104>>, <<41729, 17172>>, <<19976, 4513>>,
    <<63315, 32386>>, <<48442, 62005>>, <<10967, 53947>>, <<60294, 54161>>>>

get_value_of_k(i) == WordOf(table_k[i + 1][1], table_k[i + 1][2])

-----------------------------------------------------------------------------
(* The functions f, g, h and i of set1 to set4, which add the same to what *)
(* these functions return.                                                 *)
Combined(fn, b, c, d) ==
  CASE fn = 1 -> (b \cap c) \cup (bnot(b) \cap d)
    [] fn = 2 -> (b \cap d) \cup (c \cap bnot(d))
    [] fn = 3 -> xor(xor(b, c), d)
    [] fn = 4 -> xor(c, b \cup bnot(d))

get_indice_array(seed, inc, mod) ==
  [i \in 0 .. processed_width_per_step - 1 |-> (seed + i * inc) % mod]

settings ==
  <<[indices |-> get_indice_array(0, 1, processed_width_per_step),
     shifts |-> <<7, 12, 17, 22>>],
    [indices |-> get_indice_array(1, 5, processed_width_per_step),
     shifts |-> <<5, 9, 14, 20>>],
    [indices |-> get_indice_array(5, 3, processed_width_per_step),
     shifts |-> <<4, 11, 16, 23>>],
    [indices |-> get_indice_array(0, 7, processed_width_per_step),
     shifts |-> <<6, 10, 15, 21>>]>>

(* The elements a, b, c and d of digest change their places. *)
Index(j, offset) ==
  (((number_of_steps - j) % number_of_steps) + offset) % number_of_steps

(* What set1 to set4 return, with number n of table_k. *)
SetFn(fn, digest, j, word, n) ==
  Plus(rotate_left(Plus(Plus(Plus(digest[Index(j, 0)],
                                  Combined(fn, digest[Index(j, 1)], digest[Index(j, 2)],
                                           digest[Index(j, 3)])),
                             word),
                        get_value_of_k(n)),
                   settings[fn].shifts[j + 1]),
       digest[Index(j, 1)])

(* step_fn with setting number fn. *)
step_fn(digest, x, fn) ==
  FoldLeft(LAMBDA d, n :
             [d EXCEPT ![Index(n % number_of_steps, 0)] =
                SetFn(fn, d, n % number_of_steps, x[settings[fn].indices[n]],
                      processed_width_per_step * (fn - 1) + n)],
           digest, [n \in 1 .. processed_width_per_step |-> n - 1])

(* The bytes of a block, taken for words. *)
WordsOf(block) ==
  [k \in 0 .. processed_width_per_step - 1 |->
     WordOf(block[4 * k + 3] + 256 * block[4 * k + 4],
          block[4 * k + 1] + 256 * block[4 * k + 2])]

AddWords(digest, copy) == [n \in 0 .. 3 |-> Plus(digest[n], copy[n])]

process(digest, block) ==
  LET x == WordsOf(block)
  IN  AddWords(digest, FoldLeft(LAMBDA copy, fn : step_fn(copy, x, fn), digest, <<1, 2, 3, 4>>))

initial_digest ==
  [n \in 0 .. 3 |-> CASE n = 0 -> WordOf(26437, 8961)
                      [] n = 1 -> WordOf(61389, 43913)
                      [] n = 2 -> WordOf(39098, 56574)
                      [] n = 3 -> WordOf(4146, 21622)]

-----------------------------------------------------------------------------
Fill(count) == [i \in 1 .. count |-> 0]

Rest(data) == SubSeq(data, block_size * (Len(data) \div block_size) + 1, Len(data))

(* The size in bits, of which four bytes are enough here. *)
SizeBytes(size) ==
  [i \in 1 .. size_of_size |->
     IF i > 4 THEN 0 ELSE ((size * bits_per_byte) \div 256 ^ (i - 1)) % 256]

(* Mutant: the byte behind the data is forgotten. *)
NeedsAnotherBlockForSize(remaining) == remaining > max_size_minus_size

NeedsAnotherBlock(remaining) == remaining > max_size_minus_size - 1

(* What data_buffer contains when it is processed.  The bit behind the     *)
(* data is in the block that the data ends in.                             *)
LastBlocks(rest, size) ==
  LET ended == rest \o <<128>> \o Fill(block_size)
      again == <<0>> \o Fill(max_size_minus_size - 1)
  IN  IF NeedsAnotherBlock(Len(rest))
      THEN <<SubSeq(ended, 1, block_size), again \o SizeBytes(size)>>
      ELSE <<SubSeq(ended, 1, max_size_minus_size) \o SizeBytes(size)>>

(* The blocks calculate_md5 processes. *)
Blocks(data) ==
  [n \in 1 .. Len(data) \div block_size |->
     SubSeq(data, block_size * (n - 1) + 1, block_size * n)]
    \o LastBlocks(Rest(data), Len(data))

ByteOf(x, k) ==
  FoldLeft(LAMBDA n, i : n + (IF bits_per_byte * k + i \in x THEN 2 ^ i ELSE 0), 0,
           <<0, 1, 2, 3, 4, 5, 6, 7>>)

calculate_md5(data) ==
  LET digest == FoldLeft(process, initial_digest, Blocks(data))
  IN  [i \in 1 .. 16 |-> ByteOf(digest[(i - 1) \div 4], (i - 1) % 4)]

-----------------------------------------------------------------------------
(***************************************************************************)
(* The padding of RFC 1321: a bit, as many zeros as needed, and the size.  *)
(***************************************************************************)
Padded(data) ==
  LET zeros == CHOOSE n \in 0 .. block_size - 1 :
                 (Len(data) + 1 + n + size_of_size) % block_size = 0
  IN  data \o <<128>> \o Fill(zeros) \o SizeBytes(Len(data))

(***************************************************************************)
(* What is processed is the padded data, whether the size has space in the *)
(* block the data ends in, or not.                                         *)
(***************************************************************************)
IsPaddedRight(data) == FlattenSeq(Blocks(data)) = Padded(data)

(***************************************************************************)
(* The operations of RFC 1321: the four registers move on by one place in  *)
(* each, and the word that is taken is a function of its number.           *)
(***************************************************************************)
RfcWord(fn, n) ==
  CASE fn = 1 -> n % 16
    [] fn = 2 -> (5 * n + 1) % 16
    [] fn = 3 -> (3 * n + 5) % 16
    [] fn = 4 -> (7 * n) % 16

RfcFunction(fn, b, c, d) ==
  {i \in 0 .. Width - 1 :
     CASE fn = 1 -> IF i \in b THEN i \in c ELSE i \in d
       [] fn = 2 -> IF i \in d THEN i \in b ELSE i \in c
       [] fn = 3 -> (i \in b) = ((i \in c) = (i \in d))
       [] fn = 4 -> (i \in c) # (i \in b \/ i \notin d)}

RfcOperation(r, x, fn, n) ==
  LET sum == Plus(Plus(r[1], RfcFunction(fn, r[2], r[3], r[4])),
                  Plus(x[RfcWord(fn, n)], get_value_of_k(n)))
  IN  <<r[4], Plus(r[2], rotate_left(sum, settings[fn].shifts[(n % 4) + 1])), r[2], r[3]>>

RfcProcess(digest, block) ==
  LET x == WordsOf(block)
      r == FoldLeft(LAMBDA s, n : RfcOperation(s, x, (n - 1) \div 16 + 1, n - 1),
                    [n \in 1 .. 4 |-> digest[n - 1]], [n \in 1 .. 64 |-> n])
  IN  AddWords(digest, [n \in 0 .. 3 |-> r[n + 1]])

(***************************************************************************)
(* A block is processed as RFC 1321 says.                                  *)
(***************************************************************************)
IsProcessedRight(data) ==
  LET block == SubSeq(Padded(data), 1, block_size)
  IN  process(initial_digest, block) = RfcProcess(initial_digest, block)
=============================================================================
