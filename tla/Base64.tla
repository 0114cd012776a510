-------------------------------- MODULE Base64 --------------------------------
(***************************************************************************)
(* Base64::encode() and decode() of src/util/base64.cpp, by which          *)
(* HttpConnect and HttpProxyPost write a user and a password in the header.*)
(*                                                                         *)
(* A character of the encoded text is its place in the table of encode():  *)
(* 0 to 63, and 64 for `='.  decode() has -1 for all others.               *)
(***************************************************************************)
EXTENDS Integers, Sequences

Byte == 0..255
Code == -1..64

\* encode(): a group of four from each three bytes; what a byte past the end
\* would give is left out, or is `='.
encode(s) ==
  LET len  == Len(s)
      a(i) == (s[i + 1] % 4) * 16 + (IF i + 1 < len THEN s[i + 2] \div 16 ELSE 0)
      b(i) == IF i + 1 < len
                THEN (s[i + 2] % 16) * 4 + (IF i + 2 < len THEN s[i + 3] \div 64 ELSE 0)
                ELSE 64
      c(i) == IF i + 2 < len THEN s[i + 3] % 64 ELSE 64
  IN  [at \in 1..(((len + 2) \div 3) * 4) |->
         LET i == ((at - 1) \div 4) * 3
             k == (at - 1) % 4
         IN  << s[i + 1] \div 4, a(i), b(i), c(i) >>[k + 1]]

\* The text that decode() takes: groups of four, no `=' in the first half of one.
Decodable(s) ==
  /\ Len(s) % 4 = 0
  /\ \A n \in DOMAIN s : s[n] >= 0 /\ (n % 4 \in {1, 2} => s[n] # 64)

\* How many bytes the last group is short of three: c and d are its last two.
Short(s) ==
  LET c == s[Len(s) - 1]
      d == s[Len(s)]
  IN  IF Len(s) = 0 THEN 0 ELSE IF c = 64 THEN 2 ELSE IF d = 64 THEN 1 ELSE 0

\* decode(): three bytes from each group of four, or nothing at all.
decode(s) ==
  IF ~Decodable(s) THEN <<>>
  ELSE [at \in 1..((Len(s) \div 4) * 3 - Short(s)) |->
          LET i == ((at - 1) \div 3) * 4
              k == (at - 1) % 3
          IN  << (s[i + 1] % 64) * 4 + ((s[i + 2] \div 16) % 4),
                 (s[i + 2] % 16) * 16 + ((s[i + 3] \div 4) % 16),
                 (s[i + 3] % 4) * 64 + (s[i + 4] % 64) >>[k + 1]]
=============================================================================
