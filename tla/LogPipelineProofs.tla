-------------------------- MODULE LogPipelineProofs -------------------------
(***************************************************************************)
(* What the order of processors and the redaction buy, for texts of any    *)
(* length, events of any shape and depth, and wherever values are cut.     *)
(***************************************************************************)
EXTENDS LogPipeline, TLAPS

(* What every sequence is, whatever it is of.                              *)
LEMMA SequencesAre ==
    /\ \A S : \A s \in Seq(S) : IsSequence(s)
    /\ \A s : IsSequence(s) => /\ Len(s) \in Nat /\ DOMAIN s = 1..Len(s)
                               /\ DOMAIN s \subseteq Int
                               /\ s = [i \in DOMAIN s |-> s[i]]
                               /\ s # <<>> => Len(s) # 0
<1>1. ASSUME NEW S, NEW s \in Seq(S)
      PROVE  IsSequence(s)
  <2> DEFINE T == {s[i] : i \in DOMAIN s}
  <2>1. Len(s) \in Nat /\ s = [i \in 1..Len(s) |-> s[i]] /\ DOMAIN s = 1..Len(s)
    OBVIOUS
  <2>2. \A i \in 1..Len(s) : s[i] \in T
    BY <2>1
  <2> HIDE DEF T
  <2>3. [i \in 1..Len(s) |-> s[i]] \in Seq(T)
    BY <2>1, <2>2
  <2> QED BY <2>1, <2>3 DEF IsSequence, T
<1>2. ASSUME NEW s, IsSequence(s)
      PROVE  /\ Len(s) \in Nat /\ DOMAIN s = 1..Len(s)
             /\ DOMAIN s \subseteq Int
             /\ s = [i \in DOMAIN s |-> s[i]]
             /\ s # <<>> => Len(s) # 0
  <2> DEFINE T == {s[i] : i \in DOMAIN s}
  <2>1. s \in Seq(T)
    BY <1>2 DEF IsSequence
  <2> HIDE DEF T
  <2> QED BY <2>1
<1> QED BY <1>1, <1>2

(* What scrub_text is given, and leaves at each of its steps.              *)
IsText(words) ==
    /\ \E n \in Nat : DOMAIN words = 1..n
    /\ \A w \in DOMAIN words : words[w] \in Openers => w = 1 \/ words[w - 1] = " "

(* Word w is of the token that begins at s.                                *)
Begins(words, s, w) == (s = 1 \/ words[s - 1] = " ") /\ Token(words, {}, s, w)

Same(words, out, a, b) == \A x \in a..b : out[x] = words[x]

(* Its words are numbered from one.                                        *)
LEMMA TextIs ==
    ASSUME NEW words, IsText(words)
    PROVE  /\ DOMAIN words \subseteq Int
           /\ \A x \in DOMAIN words : x \in Int /\ 1 <= x
           /\ \A x \in DOMAIN words : \A y \in Int : 1 <= y /\ y <= x => y \in DOMAIN words
           /\ \A x \in DOMAIN words :
                 words[x] \in Openers => x = 1 \/ (words[x - 1] = " " /\ x - 1 \in DOMAIN words)
<1>1. PICK n \in Nat : DOMAIN words = 1..n
  BY DEF IsText
<1>2. \A x \in DOMAIN words : x \in Int /\ 1 <= x /\ x <= n
  BY <1>1
<1>3. ASSUME NEW x \in DOMAIN words, NEW y \in Int, 1 <= y, y <= x
      PROVE  y \in DOMAIN words
  <2>1. y <= n
    BY <1>2, <1>3
  <2> QED BY <1>1, <1>3, <2>1
<1>4. ASSUME NEW x \in DOMAIN words, words[x] \in Openers, x # 1
      PROVE  words[x - 1] = " " /\ x - 1 \in DOMAIN words
  <2>1. x - 1 \in Int /\ 1 <= x - 1 /\ x - 1 <= x
    BY <1>2, <1>4
  <2> QED BY <1>3, <1>4, <2>1 DEF IsText
<1> QED BY <1>2, <1>3, <1>4

(* A token can be looked at in part.                                       *)
LEMMA TokenParts ==
    ASSUME NEW words, IsText(words), NEW stops, NEW a \in Int, NEW b \in Int,
           Token(words, stops, a, b)
    PROVE  /\ a \in DOMAIN words /\ b \in DOMAIN words /\ a <= b
           /\ \A x \in a..b : /\ Token(words, stops, a, x) /\ Token(words, {}, a, x)
                              /\ x \in DOMAIN words
                              /\ words[x] # " " /\ words[x] # Mark /\ words[x] \notin stops
<1>0. a <= b
  BY DEF Token
<1>1. a \in a..b /\ b \in a..b
  BY <1>0
<1>2. \A x \in a..b : x \in Int /\ a <= x /\ \A y \in a..x : y \in a..b
  OBVIOUS
<1>3. \A x \in a..b : /\ x \in DOMAIN words
                      /\ words[x] # " " /\ words[x] # Mark /\ words[x] \notin stops
  BY DEF Token
<1>4. \A x \in a..b : Token(words, stops, a, x) /\ Token(words, {}, a, x)
  BY <1>2, <1>3 DEF Token
<1> QED BY <1>0, <1>1, <1>3, <1>4

(* A word is of one token.                                                 *)
LEMMA OneToken ==
    ASSUME NEW words, IsText(words), NEW s \in Int, NEW t \in Int, NEW w \in Int,
           Begins(words, s, w), Begins(words, t, w)
    PROVE  s = t
<1>1. s <= w /\ s \in DOMAIN words
  BY TokenParts DEF Begins
<1>2. t <= w /\ t \in DOMAIN words
  BY TokenParts DEF Begins
<1>3. /\ \A x \in s..w : words[x] # " "
      /\ \A x \in t..w : words[x] # " "
  BY TokenParts DEF Begins
<1>4. 1 <= s /\ 1 <= t
  BY <1>1, <1>2, TextIs
<1>5. (s = 1 \/ words[s - 1] = " ") /\ (t = 1 \/ words[t - 1] = " ")
  BY DEF Begins
<1>6. CASE s < t
  <2>1. t - 1 \in s..w /\ t # 1
    BY <1>2, <1>4, <1>6
  <2> QED BY <1>3, <1>5, <2>1
<1>7. CASE t < s
  <2>1. s - 1 \in t..w /\ s # 1
    BY <1>1, <1>4, <1>7
  <2> QED BY <1>3, <1>5, <2>1
<1> QED BY <1>6, <1>7

(* A JWT that begins at s goes as far as w.                                *)
IsJwt(words, s, w) ==
    /\ \A n \in DOMAIN Jwt : s + n - 1 \in DOMAIN words /\ words[s + n - 1] = Jwt[n]
    /\ w \in s..(s + 5) \/ (w > s + 5 /\ Token(words, {"."}, s + 5, w))

(* Where the token that a scheme's pattern matches begins.                 *)
LEMMA SchemeMatches ==
    ASSUME NEW words, IsText(words), NEW scheme, NEW stops,
           NEW w \in SchemeToken(scheme, stops, words)
    PROVE  \E s \in DOMAIN words :
              /\ Begins(words, s, w) /\ s > 2
              /\ words[s - 2] = scheme /\ words[s - 1] = " "
              /\ LongToken(words, stops, s) /\ Token(words, stops, s, w)
<1>0. DOMAIN words \subseteq Int
  BY TextIs
<1>1. w \in Int
  BY <1>0 DEF SchemeToken
<1>2. PICK s \in DOMAIN words :
            /\ s > 2 /\ words[s - 2] = scheme /\ words[s - 1] = " "
            /\ LongToken(words, stops, s) /\ Token(words, stops, s, w)
  BY DEF SchemeToken
<1>3. Token(words, {}, s, w)
  <2>0. s \in Int /\ s <= w
    BY <1>0, <1>1, <1>2, TokenParts
  <2>1. w \in s..w
    BY <1>1, <2>0
  <2> QED BY <1>0, <1>1, <1>2, <2>1, TokenParts
<1> QED BY <1>2, <1>3 DEF Begins

(* Where the others begin.                                                 *)
LEMMA WhatMatches ==
    ASSUME NEW words, IsText(words)
    PROVE  /\ \A w \in _JWT(words) :
                 \E s \in DOMAIN words :
                    /\ IsJwt(words, s, w)
                    /\ words[s] = "eyJhb" /\ words[s + 2] = "."
                    /\ \E b \in DOMAIN words :
                          /\ s + 5 <= b /\ w \in s..b
                          /\ Begins(words, s, b) /\ Begins(words, s, w)
           /\ \A w \in _REFRESH(words) :
                 \E s \in DOMAIN words :
                    /\ words[s] = "rt1_" /\ LongToken(words, {}, s + 1)
                    /\ Begins(words, s, w)
<1>0. DOMAIN words \subseteq Int
  BY TextIs
<1>2. ASSUME NEW w \in _JWT(words)
      PROVE  \E s \in DOMAIN words :
                    /\ IsJwt(words, s, w)
                    /\ words[s] = "eyJhb" /\ words[s + 2] = "."
                    /\ \E b \in DOMAIN words :
                          /\ s + 5 <= b /\ w \in s..b
                          /\ Begins(words, s, b) /\ Begins(words, s, w)
  <2>1. w \in Int /\ w \in DOMAIN words
    BY <1>0 DEF _JWT
  <2>2. PICK s \in DOMAIN words :
              /\ IsJwt(words, s, w)
              /\ \A n \in DOMAIN Jwt : s + n - 1 \in DOMAIN words /\ words[s + n - 1] = Jwt[n]
              /\ w \in s..(s + 5) \/ (w > s + 5 /\ Token(words, {"."}, s + 5, w))
    BY DEF _JWT, IsJwt
  <2>3. s \in Int
    BY <1>0
  <2>4. /\ DOMAIN Jwt = 1..6
        /\ Jwt[1] = "eyJhb" /\ Jwt[2] = "GciOi" /\ Jwt[3] = "."
        /\ Jwt[4] = "eyJzdW" /\ Jwt[5] = "." /\ Jwt[6] = "c2lnbm"
    BY DEF Jwt
  <2>5. \A x \in s..(s + 5) : /\ x - s + 1 \in 1..6 /\ s + (x - s + 1) - 1 = x
    BY <2>3
  <2>6. \A x \in s..(s + 5) : x \in DOMAIN words /\ words[x] = Jwt[x - s + 1]
    BY <2>2, <2>4, <2>5
  <2>7. \A n \in 1..6 : Jwt[n] # " " /\ Jwt[n] # Mark
    <3>1. \A n \in 1..6 : n = 1 \/ n = 2 \/ n = 3 \/ n = 4 \/ n = 5 \/ n = 6
      OBVIOUS
    <3> QED BY <2>4, <3>1 DEF Mark
  <2>8. \A x \in s..(s + 5) : words[x] # " " /\ words[x] # Mark
    BY <2>5, <2>6, <2>7
  <2>9. words[s] = "eyJhb" /\ words[s + 2] = "."
    <3>1. /\ s \in s..(s + 5) /\ s + 2 \in s..(s + 5)
          /\ s - s + 1 = 1 /\ (s + 2) - s + 1 = 3
      BY <2>3
    <3> QED BY <2>4, <2>6, <3>1
  <2>10. s = 1 \/ words[s - 1] = " "
    BY <2>9, TextIs DEF Openers
  <2>11. CASE w \in s..(s + 5)
    <3>1. s + 5 \in DOMAIN words /\ s + 5 \in Int /\ s <= s + 5
      BY <2>3, <2>6
    <3>2. Token(words, {}, s, s + 5)
      BY <2>6, <2>8, <3>1 DEF Token
    <3>3. Token(words, {}, s, w)
      BY <2>3, <2>11, <3>1, <3>2, TokenParts
    <3>4. Begins(words, s, s + 5) /\ Begins(words, s, w)
      BY <2>10, <3>2, <3>3 DEF Begins
    <3>5. s + 5 <= s + 5
      BY <3>1
    <3> QED BY <2>2, <2>9, <2>11, <3>1, <3>4, <3>5
  <2>12. CASE w > s + 5 /\ Token(words, {"."}, s + 5, w)
    <3>1. s <= w /\ \A x \in s..w : x \in s..(s + 5) \/ x \in (s + 5)..w
      BY <2>1, <2>3, <2>12
    <3>2. \A x \in (s + 5)..w : x \in DOMAIN words /\ words[x] # " " /\ words[x] # Mark
      BY <2>12 DEF Token
    <3>3. Token(words, {}, s, w)
      BY <2>6, <2>8, <3>1, <3>2 DEF Token
    <3>4. s + 5 <= w /\ w \in s..w
      BY <2>1, <2>3, <2>12
    <3> QED BY <2>1, <2>2, <2>9, <2>10, <3>3, <3>4 DEF Begins
  <2> QED BY <2>2, <2>11, <2>12
<1>3. ASSUME NEW w \in _REFRESH(words)
      PROVE  \E s \in DOMAIN words :
                    /\ words[s] = "rt1_" /\ LongToken(words, {}, s + 1)
                    /\ Begins(words, s, w)
  <2>1. PICK s \in DOMAIN words :
              words[s] = "rt1_" /\ LongToken(words, {}, s + 1) /\ Token(words, {}, s, w)
    BY DEF _REFRESH
  <2>2. s = 1 \/ words[s - 1] = " "
    BY <2>1, TextIs DEF Openers
  <2> QED BY <2>1, <2>2 DEF Begins
<1> QED BY <1>2, <1>3

(* A pattern matches no white space.                                       *)
LEMMA MatchesNoSpace ==
    ASSUME NEW words, IsText(words),
           NEW matched \in {_BEARER(words), _BASIC(words), _JWT(words), _REFRESH(words)}
    PROVE  \A w \in matched : w \in DOMAIN words /\ words[w] # " "
<1> SUFFICES ASSUME NEW w \in matched
             PROVE  w \in DOMAIN words /\ words[w] # " "
  OBVIOUS
<1>1. w \in DOMAIN words /\ w \in Int
  BY TextIs DEF _BEARER, _BASIC, _JWT, _REFRESH, SchemeToken
<1>2. \E s \in DOMAIN words : Begins(words, s, w)
  <2>1. CASE matched = _BEARER(words)
    <3>1. w \in SchemeToken("bearer", {}, words)
      BY <2>1 DEF _BEARER
    <3> QED BY <3>1, SchemeMatches
  <2>2. CASE matched = _BASIC(words)
    <3>1. w \in SchemeToken("basic", {".", "rt1_"}, words)
      BY <2>2 DEF _BASIC
    <3> QED BY <3>1, SchemeMatches
  <2>3. CASE matched = _JWT(words)
    BY <2>3, WhatMatches
  <2>4. CASE matched = _REFRESH(words)
    BY <2>4, WhatMatches
  <2> QED BY <2>1, <2>2, <2>3, <2>4
<1>3. PICK s \in DOMAIN words : s \in Int /\ Token(words, {}, s, w)
  BY <1>2, TextIs DEF Begins
<1>4. w \in s..w
  <2>1. s <= w
    BY <1>1, <1>3, TokenParts
  <2> QED BY <1>1, <1>3, <2>1
<1> QED BY <1>1, <1>3, <1>4, TokenParts

(* What a substitution leaves is a text again.                             *)
LEMMA Substituted ==
    ASSUME NEW words, IsText(words),
           NEW matched \in {_BEARER(words), _BASIC(words), _JWT(words), _REFRESH(words)}
    PROVE  /\ DOMAIN sub(matched, words) = DOMAIN words
           /\ \A w \in DOMAIN words :
                 /\ w \in matched => sub(matched, words)[w] = Mark
                 /\ w \notin matched => sub(matched, words)[w] = words[w]
           /\ IsText(sub(matched, words))
<1> DEFINE out == sub(matched, words)
<1>1. /\ DOMAIN out = DOMAIN words
      /\ \A w \in DOMAIN words : /\ w \in matched => out[w] = Mark
                                 /\ w \notin matched => out[w] = words[w]
  BY DEF sub
<1> HIDE DEF out
<1>2. ASSUME NEW w \in DOMAIN out, out[w] \in Openers, w # 1
      PROVE  out[w - 1] = " "
  <2>1. out[w] = words[w]
    BY <1>1, <1>2 DEF Openers, Mark
  <2>2. w \in DOMAIN words /\ words[w] \in Openers
    BY <1>1, <1>2, <2>1
  <2>3. words[w - 1] = " " /\ w - 1 \in DOMAIN words
    BY <1>2, <2>2, TextIs
  <2> QED BY <1>1, <2>3, MatchesNoSpace
<1>3. IsText(out)
  <2>1. \E n \in Nat : DOMAIN out = 1..n
    BY <1>1 DEF IsText
  <2> QED BY <1>2, <2>1 DEF IsText
<1> QED BY <1>1, <1>3 DEF out

(* Where two texts are the same they have the same tokens.                 *)
LEMMA SameTokens ==
    ASSUME NEW words, NEW out, DOMAIN out = DOMAIN words, NEW stops,
           NEW a \in Int, NEW b \in Int, Same(words, out, a, b),
           NEW x \in a..b, NEW y \in a..b, Token(words, stops, x, y)
    PROVE  Token(out, stops, x, y)
<1>1. \A z \in x..y : z \in a..b
  OBVIOUS
<1> QED BY <1>1 DEF Token, Same

(* Until the pattern of a token has its turn, its words are as they were,  *)
(* or another took the token's beginning.                                  *)
LEMMA TokenTouched ==
    ASSUME NEW words, IsText(words),
           NEW matched \in {_BEARER(words), _BASIC(words), _JWT(words), _REFRESH(words)},
           NEW s \in DOMAIN words, NEW b \in DOMAIN words, Begins(words, s, b),
           ~ Same(words, sub(matched, words), s, b)
    PROVE  \E x \in matched : x \in s..b /\ Begins(words, s, x)
<1>0. s \in Int /\ b \in Int
  BY TextIs
<1>1. PICK x \in s..b : sub(matched, words)[x] # words[x]
  BY DEF Same
<1>2. x \in DOMAIN words /\ Token(words, {}, s, x)
  BY <1>0, TokenParts DEF Begins
<1>3. x \in matched
  BY <1>1, <1>2, Substituted
<1> QED BY <1>2, <1>3 DEF Begins

(* The bearer pattern takes a token whole.                                 *)
LEMMA BearerTakesAll ==
    ASSUME NEW words, IsText(words), NEW s \in DOMAIN words, NEW b \in DOMAIN words,
           Begins(words, s, b), ~ Same(words, sub(_BEARER(words), words), s, b)
    PROVE  /\ words[s - 2] = "bearer" /\ LongToken(words, {}, s)
           /\ \A y \in s..b : y \in _BEARER(words)
<1>0. s \in Int /\ b \in Int
  BY TextIs
<1>1. PICK x \in _BEARER(words) : x \in s..b /\ Begins(words, s, x)
  BY TokenTouched
<1>2. PICK t \in DOMAIN words : /\ Begins(words, t, x) /\ t > 2
                                /\ words[t - 2] = "bearer" /\ words[t - 1] = " "
                                /\ LongToken(words, {}, t)
  <2>1. x \in SchemeToken("bearer", {}, words)
    BY <1>1 DEF _BEARER
  <2> QED BY <2>1, SchemeMatches
<1>3. t = s
  <2>1. t \in Int
    BY TextIs
  <2>2. x \in Int
    BY <1>0, <1>1
  <2>3. Begins(words, s, x) /\ Begins(words, t, x)
    BY <1>1, <1>2
  <2> QED BY <1>0, <2>1, <2>2, <2>3, OneToken
<1>4. \A y \in s..b : Token(words, {}, s, y) /\ y \in DOMAIN words
  BY <1>0, TokenParts DEF Begins
<1> QED BY <1>2, <1>3, <1>4 DEF _BEARER, SchemeToken

(* The basic pattern takes only what follows its name.                     *)
LEMMA BasicTakes ==
    ASSUME NEW words, IsText(words), NEW s \in DOMAIN words, NEW b \in DOMAIN words,
           Begins(words, s, b), ~ Same(words, sub(_BASIC(words), words), s, b)
    PROVE  /\ s > 2 /\ words[s - 2] = "basic" /\ words[s - 1] = " "
           /\ LongToken(words, {".", "rt1_"}, s)
<1>0. s \in Int /\ b \in Int
  BY TextIs
<1>1. PICK x \in _BASIC(words) : x \in s..b /\ Begins(words, s, x)
  BY TokenTouched
<1>2. PICK t \in DOMAIN words : /\ Begins(words, t, x) /\ t > 2
                                /\ words[t - 2] = "basic" /\ words[t - 1] = " "
                                /\ LongToken(words, {".", "rt1_"}, t)
  <2>1. x \in SchemeToken("basic", {".", "rt1_"}, words)
    BY <1>1 DEF _BASIC
  <2> QED BY <2>1, SchemeMatches
<1>3. t = s
  <2>1. t \in Int
    BY TextIs
  <2>2. x \in Int
    BY <1>0, <1>1
  <2>3. Begins(words, s, x) /\ Begins(words, t, x)
    BY <1>1, <1>2
  <2> QED BY <1>0, <2>1, <2>2, <2>3, OneToken
<1> QED BY <1>2, <1>3

(* A long token has two words, so it is not followed at once by a space.   *)
LEMMA LongTokens ==
    ASSUME NEW words, IsText(words), NEW stops, NEW a \in Int, LongToken(words, stops, a)
    PROVE  \E b, c \in DOMAIN words :
              /\ a <= b /\ b < c /\ words[b] # "." /\ words[c] # "."
              /\ Token(words, stops, a, c)
              /\ a + 1 \in a..c /\ a \in a..c /\ b \in a..c /\ c \in a..c
<1>1. PICK b, c \in DOMAIN words : /\ a <= b /\ b < c /\ words[b] # "." /\ words[c] # "."
                                   /\ Token(words, stops, a, c)
  BY DEF LongToken
<1>2. b \in Int /\ c \in Int
  BY TextIs
<1> QED BY <1>1, <1>2

(* The text after each substitution.                                       *)
One(words) == sub(_BEARER(words), words)
Two(words) == sub(_BASIC(One(words)), One(words))
Three(words) == sub(_JWT(Two(words)), Two(words))

LEMMA Stages ==
    ASSUME NEW words, IsText(words)
    PROVE  /\ IsText(One(words)) /\ IsText(Two(words)) /\ IsText(Three(words))
           /\ DOMAIN One(words) = DOMAIN words /\ DOMAIN Two(words) = DOMAIN words
           /\ DOMAIN Three(words) = DOMAIN words /\ DOMAIN Patterns(words) = DOMAIN words
           /\ \A w \in DOMAIN words :
                 /\ w \in _BEARER(words) => One(words)[w] = Mark
                 /\ w \in _BASIC(One(words)) => Two(words)[w] = Mark
                 /\ w \in _JWT(Two(words)) => Three(words)[w] = Mark
                 /\ w \in _REFRESH(Three(words)) => Patterns(words)[w] = Mark
                 /\ One(words)[w] \in {Mark, words[w]}
                 /\ Two(words)[w] \in {Mark, One(words)[w]}
                 /\ Three(words)[w] \in {Mark, Two(words)[w]}
                 /\ Patterns(words)[w] \in {Mark, Three(words)[w]}
<1>1. /\ IsText(One(words)) /\ DOMAIN One(words) = DOMAIN words
      /\ \A w \in DOMAIN words : /\ w \in _BEARER(words) => One(words)[w] = Mark
                                 /\ One(words)[w] \in {Mark, words[w]}
  BY Substituted DEF One
<1>2. /\ IsText(Two(words)) /\ DOMAIN Two(words) = DOMAIN words
      /\ \A w \in DOMAIN words : /\ w \in _BASIC(One(words)) => Two(words)[w] = Mark
                                 /\ Two(words)[w] \in {Mark, One(words)[w]}
  BY <1>1, Substituted DEF Two
<1>3. /\ IsText(Three(words)) /\ DOMAIN Three(words) = DOMAIN words
      /\ \A w \in DOMAIN words : /\ w \in _JWT(Two(words)) => Three(words)[w] = Mark
                                 /\ Three(words)[w] \in {Mark, Two(words)[w]}
  BY <1>2, Substituted DEF Three
<1>4. Patterns(words) = sub(_REFRESH(Three(words)), Three(words))
  BY DEF Patterns, One, Two, Three
<1>5. /\ DOMAIN Patterns(words) = DOMAIN words
      /\ \A w \in DOMAIN words : /\ w \in _REFRESH(Three(words)) => Patterns(words)[w] = Mark
                                 /\ Patterns(words)[w] \in {Mark, Three(words)[w]}
  BY <1>3, <1>4, Substituted
<1> QED BY <1>1, <1>2, <1>3, <1>5

(* What any of the substitutions marks stays marked.                       *)
LEMMA MarksStay ==
    ASSUME NEW words, IsText(words), NEW w \in DOMAIN words,
           Mark \in {One(words)[w], Two(words)[w], Three(words)[w], Patterns(words)[w]}
    PROVE  Patterns(words)[w] = Mark
<1> QED BY Stages

(* A basic token is still one when its pattern's turn comes.               *)
LEMMA BasicIsFound ==
    ASSUME NEW words, IsText(words), NEW w \in _BASIC(words)
    PROVE  Patterns(words)[w] = Mark
<1> DEFINE stops == {".", "rt1_"}
           one == One(words)
<1>0. w \in DOMAIN words /\ DOMAIN words \subseteq Int /\ w \in Int
  BY TextIs DEF _BASIC, SchemeToken
<1>1. PICK s \in DOMAIN words : /\ Begins(words, s, w) /\ s > 2
                                /\ words[s - 2] = "basic" /\ words[s - 1] = " "
                                /\ LongToken(words, stops, s) /\ Token(words, stops, s, w)
  <2>1. w \in SchemeToken("basic", stops, words)
    BY DEF _BASIC
  <2> QED BY <2>1, SchemeMatches
<1>2. s \in Int
  BY <1>0
<1>3. PICK b, c \in DOMAIN words :
              /\ s <= b /\ b < c /\ words[b] # "." /\ words[c] # "."
              /\ Token(words, stops, s, c)
              /\ s + 1 \in s..c /\ s \in s..c /\ b \in s..c /\ c \in s..c
  BY <1>1, <1>2, LongTokens
<1>4. b \in Int /\ c \in Int
  BY <1>0
<1>5. s - 1 \in DOMAIN words /\ s - 2 \in DOMAIN words
  <2>0. s > 2
    BY <1>1
  <2>1. /\ s - 1 \in Int /\ 1 <= s - 1 /\ s - 1 <= s
        /\ s - 2 \in Int /\ 1 <= s - 2 /\ s - 2 <= s
    BY <1>2, <2>0
  <2> QED BY <2>1, TextIs
<1> HIDE DEF one, stops
<1>6. ASSUME NEW y \in DOMAIN words, Token(words, {}, s, y)
      PROVE  Same(words, one, s, y)
  <2>1. SUFFICES ASSUME ~ Same(words, one, s, y)
                 PROVE  FALSE
    OBVIOUS
  <2>2. Begins(words, s, y)
    BY <1>1, <1>6 DEF Begins
  <2>3. words[s - 2] = "bearer"
    BY <2>1, <2>2, BearerTakesAll DEF one, One
  <2> QED BY <1>1, <2>3
<1>7. one[s - 1] = " "
  <2>1. s - 1 \notin _BEARER(words)
    BY <1>1, MatchesNoSpace
  <2> QED BY <1>1, <1>5, <2>1, Substituted DEF one, One
<1>8. one[s - 2] = "basic"
  <2>1. SUFFICES ASSUME s - 2 \in _BEARER(words)
                 PROVE  FALSE
    BY <1>1, <1>5, Substituted DEF one, One
  <2>2. PICK t \in DOMAIN words : /\ Begins(words, t, s - 2) /\ LongToken(words, {}, t)
    <3>1. s - 2 \in SchemeToken("bearer", {}, words)
      BY <2>1 DEF _BEARER
    <3> QED BY <3>1, SchemeMatches
  <2>3. Begins(words, s - 2, s - 2)
    <3>1. s - 2 = 1 \/ words[(s - 2) - 1] = " "
      BY <1>1, <1>5, TextIs DEF Openers
    <3>2. Token(words, {}, s - 2, s - 2)
      <4>1. s - 2 <= s - 2 /\ \A x \in (s - 2)..(s - 2) : x = s - 2
        BY <1>2
      <4> QED BY <1>1, <1>5, <4>1 DEF Token, Mark
    <3> QED BY <3>1, <3>2 DEF Begins
  <2>4. t = s - 2
    BY <1>0, <1>2, <2>2, <2>3, OneToken
  <2>5. PICK d \in DOMAIN words : Token(words, {}, s - 2, d) /\ (s - 2) + 1 \in (s - 2)..d
    BY <1>2, <2>2, <2>4, LongTokens
  <2>6. (s - 2) + 1 = s - 1 /\ d \in Int
    BY <1>0, <1>2
  <2>7. words[s - 1] # " "
    <3>1. s - 2 \in Int /\ Token(words, {}, s - 2, d) /\ s - 1 \in (s - 2)..d
      BY <1>2, <2>5, <2>6
    <3> QED BY <2>6, <3>1, TokenParts
  <2> QED BY <1>1, <2>7
<1>9. Token(one, stops, s, w) /\ LongToken(one, stops, s)
  <2>1. /\ s \in s..w /\ w \in s..w
        /\ Token(words, {}, s, w) /\ Token(words, {}, s, c)
    <3>1. s <= w
      BY <1>0, <1>1, <1>2, TokenParts
    <3>2. s \in s..w /\ w \in s..w
      BY <1>0, <1>2, <3>1
    <3> QED BY <1>0, <1>1, <1>2, <1>3, <1>4, <3>2, TokenParts
  <2>2. Same(words, one, s, w) /\ Same(words, one, s, c)
    BY <1>0, <1>6, <2>1
  <2>3. DOMAIN one = DOMAIN words
    BY Stages DEF one
  <2>4. Token(one, stops, s, w)
    BY <1>0, <1>1, <1>2, <2>1, <2>2, <2>3, SameTokens
  <2>5. Token(one, stops, s, c)
    BY <1>0, <1>2, <1>3, <1>4, <2>2, <2>3, SameTokens
  <2>6. one[b] # "." /\ one[c] # "."
    BY <1>3, <2>2 DEF Same
  <2> QED BY <1>3, <2>3, <2>4, <2>5, <2>6 DEF LongToken
<1>10. w \in _BASIC(one)
  <2>1. DOMAIN one = DOMAIN words
    BY Stages DEF one
  <2> QED BY <1>0, <1>1, <1>7, <1>8, <1>9, <2>1 DEF _BASIC, SchemeToken, stops
<1> QED BY <1>0, <1>10, Stages, MarksStay DEF one

(* A JWT is found, or goes with a bearer token, or stands after "basic".   *)
LEMMA JwtIsFound ==
    ASSUME NEW words, IsText(words), NEW w \in _JWT(words), words[w] # "."
    PROVE  Patterns(words)[w] = Mark \/ BehindBasic(words, w)
<1> DEFINE one == One(words)
           two == Two(words)
<1>0. /\ w \in DOMAIN words /\ DOMAIN words \subseteq Int /\ w \in Int
      /\ IsText(one) /\ IsText(two) /\ DOMAIN one = DOMAIN words /\ DOMAIN two = DOMAIN words
  BY Stages, TextIs DEF _JWT
<1>1. PICK s \in DOMAIN words :
              /\ IsJwt(words, s, w)
              /\ words[s] = "eyJhb" /\ words[s + 2] = "."
              /\ \E b \in DOMAIN words :
                    /\ s + 5 <= b /\ w \in s..b
                    /\ Begins(words, s, b) /\ Begins(words, s, w)
  BY WhatMatches
<1>2. PICK b \in DOMAIN words : /\ s + 5 <= b /\ w \in s..b
                                /\ Begins(words, s, b) /\ Begins(words, s, w)
  BY <1>1
<1>3. s \in Int /\ b \in Int /\ s \in s..b /\ \A x \in s..b : x \in DOMAIN words
  <2>1. s \in Int /\ b \in Int /\ Token(words, {}, s, b)
    BY <1>0, <1>2 DEF Begins
  <2>2. s <= b /\ \A x \in s..b : x \in DOMAIN words
    BY <2>1, TokenParts
  <2> QED BY <2>1, <2>2
<1>4. CASE ~ Same(words, one, s, b)
  <2>1. w \in _BEARER(words)
    BY <1>2, <1>4, BearerTakesAll DEF One
  <2> QED BY <1>0, <2>1, Stages, MarksStay
<1>5. ASSUME Same(words, one, s, b)
      PROVE  Begins(one, s, b)
  <2>1. Token(one, {}, s, b)
    <3>1. Token(words, {}, s, b)
      BY <1>2 DEF Begins
    <3>2. s <= b
      BY <1>3, <3>1, TokenParts
    <3>3. s \in Int /\ b \in Int /\ b \in s..b
      BY <1>3, <3>2
    <3> QED BY <1>0, <1>3, <1>5, <3>1, <3>3, SameTokens
  <2>2. one[s] = "eyJhb"
    BY <1>1, <1>3, <1>5 DEF Same
  <2> QED BY <1>0, <1>3, <2>1, <2>2, TextIs DEF Begins, Openers
<1>6. CASE Same(words, one, s, b) /\ ~ Same(one, two, s, b)
  <2>1. /\ s > 2 /\ one[s - 2] = "basic" /\ one[s - 1] = " "
        /\ LongToken(one, {".", "rt1_"}, s)
    <3>1. ~ Same(one, sub(_BASIC(one), one), s, b)
      BY <1>6 DEF Two
    <3> QED BY <1>0, <1>5, <1>6, <3>1, BasicTakes
  <2>2. PICK c \in DOMAIN one : /\ Token(one, {".", "rt1_"}, s, c)
                                /\ s \in s..c /\ s + 1 \in s..c
    BY <1>0, <1>3, <2>1, LongTokens
  <2>3. Token(one, {".", "rt1_"}, s, s) /\ Token(one, {".", "rt1_"}, s, s + 1)
    BY <1>0, <1>3, <2>2, TokenParts
  <2>4. CASE w \in {s, s + 1}
    <3>1. w \in _BASIC(one)
      BY <1>0, <2>1, <2>3, <2>4 DEF _BASIC, SchemeToken
    <3> QED BY <1>0, <3>1, Stages, MarksStay
  <2>5. CASE w \notin {s, s + 1}
    <3>1. w \in Int /\ s <= w /\ s + 2 < w /\ s + 2 \in s..b
      <4>1. w # s + 2
        BY <1>1
      <4> QED BY <1>0, <1>2, <1>3, <2>5, <4>1
    <3>2. words[s - 2] = "basic" /\ words[s - 1] = " "
      <4>1. s - 2 \in DOMAIN words /\ s - 1 \in DOMAIN words
        <5>0. s \in Int /\ s > 2
          BY <1>3, <2>1
        <5>1. /\ s - 1 \in Int /\ 1 <= s - 1 /\ s - 1 <= s
              /\ s - 2 \in Int /\ 1 <= s - 2 /\ s - 2 <= s
          BY <5>0
        <5> QED BY <5>1, TextIs
      <4> QED BY <2>1, <4>1, Stages DEF Mark
    <3>3. \A x \in s..w : words[x] # " "
      BY <1>0, <1>2, <1>3, TokenParts DEF Begins
    <3>4. s + 2 \in DOMAIN words /\ s < s + 2
      BY <1>3, <3>1
    <3> QED BY <1>1, <2>1, <3>1, <3>2, <3>3, <3>4 DEF BehindBasic
  <2> QED BY <2>4, <2>5
<1>7. CASE Same(words, one, s, b) /\ Same(one, two, s, b)
  <2>1. Same(words, two, s, b)
    BY <1>7 DEF Same
  <2>2. \A n \in DOMAIN Jwt : s + n - 1 \in DOMAIN two /\ two[s + n - 1] = Jwt[n]
    <3>1. DOMAIN Jwt = 1..6
      BY DEF Jwt
    <3>2. \A n \in 1..6 : s + n - 1 \in s..b
      BY <1>2, <1>3
    <3>3. \A n \in DOMAIN Jwt : s + n - 1 \in DOMAIN words /\ words[s + n - 1] = Jwt[n]
      BY <1>1 DEF IsJwt
    <3> QED BY <1>0, <2>1, <3>1, <3>2, <3>3 DEF Same
  <2>3. w \in s..(s + 5) \/ (w > s + 5 /\ Token(two, {"."}, s + 5, w))
    <3>1. ASSUME w > s + 5, Token(words, {"."}, s + 5, w)
          PROVE  Token(two, {"."}, s + 5, w)
      <4>1. s + 5 \in s..b
        BY <1>2, <1>3
      <4> QED BY <1>0, <1>2, <1>3, <2>1, <3>1, <4>1, SameTokens
    <3> QED BY <1>1, <3>1 DEF IsJwt
  <2>4. w \in _JWT(two)
    BY <1>0, <2>2, <2>3 DEF _JWT
  <2> QED BY <1>0, <2>4, Stages, MarksStay
<1> QED BY <1>4, <1>6, <1>7

(* A refresh token is found, or goes with a bearer token.                  *)
LEMMA RefreshIsFound ==
    ASSUME NEW words, IsText(words), NEW w \in _REFRESH(words)
    PROVE  Patterns(words)[w] = Mark
<1> DEFINE one == One(words)
           two == Two(words)
           three == Three(words)
<1>0. /\ w \in DOMAIN words /\ DOMAIN words \subseteq Int /\ w \in Int
      /\ IsText(one) /\ IsText(two) /\ IsText(three)
      /\ DOMAIN one = DOMAIN words /\ DOMAIN two = DOMAIN words /\ DOMAIN three = DOMAIN words
  BY Stages, TextIs DEF _REFRESH
<1>1. PICK s \in DOMAIN words :
              words[s] = "rt1_" /\ LongToken(words, {}, s + 1) /\ Begins(words, s, w)
  BY WhatMatches
<1>2. s \in Int
  BY <1>0
<1>3. PICK d, c \in DOMAIN words :
              /\ s + 1 <= d /\ d < c /\ words[d] # "." /\ words[c] # "."
              /\ Token(words, {}, s + 1, c) /\ c \in (s + 1)..c /\ d \in (s + 1)..c
  BY <1>1, <1>2, LongTokens
<1>4. c \in Int /\ d \in Int
  BY <1>0
<1>5. Begins(words, s, c)
  <2>1. s \in s..w /\ s <= c
    <3>1. s <= w
      BY <1>0, <1>1, <1>2, TokenParts DEF Begins
    <3> QED BY <1>0, <1>2, <1>3, <1>4, <3>1
  <2>2. words[s] # " " /\ words[s] # Mark
    BY <1>1 DEF Mark
  <2>3. \A x \in s..c : x = s \/ x \in (s + 1)..c
    BY <1>2, <1>4
  <2> QED BY <1>1, <1>3, <2>1, <2>2, <2>3 DEF Begins, Token
<1>6. PICK b \in {w, c} : w <= b /\ c <= b
  BY <1>0, <1>4
<1>7. /\ b \in DOMAIN words /\ b \in Int /\ Begins(words, s, b)
      /\ s \in s..b /\ w \in s..b /\ c \in s..b /\ d \in s..b /\ s + 1 \in s..b
  <2>1. b \in DOMAIN words /\ b \in Int /\ Begins(words, s, b)
    BY <1>0, <1>1, <1>4, <1>5, <1>6
  <2>2. s <= w
    BY <1>0, <1>1, <1>2, TokenParts DEF Begins
  <2> QED BY <1>0, <1>2, <1>3, <1>4, <1>6, <2>1, <2>2
<1>8. CASE ~ Same(words, one, s, b)
  <2>1. w \in _BEARER(words)
    BY <1>7, <1>8, BearerTakesAll DEF One
  <2> QED BY <1>0, <2>1, Stages, MarksStay
<1>9. CASE Same(words, one, s, b)
  <2>1. ASSUME NEW out, DOMAIN out = DOMAIN words, IsText(out), Same(words, out, s, b)
        PROVE  out[s] = "rt1_" /\ Begins(out, s, b)
    <3>1. out[s] = "rt1_"
      BY <1>1, <1>7, <2>1 DEF Same
    <3>2. Token(out, {}, s, b)
      BY <1>2, <1>7, <2>1, SameTokens DEF Begins
    <3> QED BY <2>1, <3>1, <3>2, TextIs DEF Begins, Openers
  <2>2. Same(words, two, s, b)
    <3>1. SUFFICES ASSUME ~ Same(one, two, s, b)
                   PROVE  FALSE
      BY <1>9 DEF Same
    <3>2. one[s] = "rt1_" /\ Begins(one, s, b)
      BY <1>0, <1>9, <2>1
    <3>3. LongToken(one, {".", "rt1_"}, s)
      <4>1. ~ Same(one, sub(_BASIC(one), one), s, b)
        BY <3>1 DEF Two
      <4> QED BY <1>0, <1>7, <3>2, <4>1, BasicTakes
    <3>4. PICK x \in DOMAIN one : Token(one, {".", "rt1_"}, s, x) /\ s \in s..x
      BY <1>0, <1>2, <3>3, LongTokens
    <3>5. x \in Int
      BY <1>0
    <3>6. one[s] \notin {".", "rt1_"}
      BY <1>0, <1>2, <3>4, <3>5, TokenParts
    <3> QED BY <3>2, <3>6
  <2>3. Same(words, three, s, b)
    <3>1. SUFFICES ASSUME ~ Same(two, three, s, b)
                   PROVE  FALSE
      BY <2>2 DEF Same
    <3>2. two[s] = "rt1_" /\ Begins(two, s, b)
      BY <1>0, <2>1, <2>2
    <3>3. PICK x \in _JWT(two) : x \in s..b /\ Begins(two, s, x)
      <4>1. ~ Same(two, sub(_JWT(two), two), s, b)
        BY <3>1 DEF Three
      <4> QED BY <1>0, <1>7, <3>2, <4>1, TokenTouched
    <3>4. PICK t \in DOMAIN two : two[t] = "eyJhb" /\ Begins(two, t, x)
      BY <1>0, WhatMatches
    <3>5. t = s
      BY <1>0, <1>2, <1>7, <3>3, <3>4, OneToken
    <3> QED BY <3>2, <3>4, <3>5
  <2>4. three[s] = "rt1_" /\ Token(three, {}, s, w)
    <3>1. Token(words, {}, s, w)
      BY <1>1 DEF Begins
    <3> QED BY <1>0, <1>2, <1>7, <2>1, <2>3, <3>1, SameTokens
  <2>5. LongToken(three, {}, s + 1)
    <3>1. Token(three, {}, s + 1, c)
      BY <1>0, <1>2, <1>3, <1>7, <2>3, SameTokens
    <3>2. three[d] # "." /\ three[c] # "."
      BY <1>3, <1>7, <2>3 DEF Same
    <3> QED BY <1>0, <1>3, <3>1, <3>2 DEF LongToken
  <2>6. w \in _REFRESH(three)
    BY <1>0, <2>4, <2>5 DEF _REFRESH
  <2> QED BY <1>0, <2>6, Stages, MarksStay
<1> QED BY <1>8, <1>9

(* What is left of a credential in a text stands after "basic".            *)
LEMMA ScrubTextHides ==
    ASSUME NEW words, IsText(words), Shaped(words)
    PROVE  \A w \in DOMAIN scrub_text(words) :
              scrub_text(words)[w] \in Telling => BehindBasic(words, w)
<1> SUFFICES ASSUME NEW w \in DOMAIN scrub_text(words), scrub_text(words)[w] \in Telling
             PROVE  BehindBasic(words, w)
  OBVIOUS
<1>1. Mark \notin Telling /\ "." \notin Telling
  BY DEF Mark, Telling
<1>2. w \in DOMAIN words /\ scrub_text(words)[w] = Patterns(words)[w]
  BY Stages DEF scrub_text, Cut
<1>3. Patterns(words)[w] \in Telling /\ Patterns(words)[w] # Mark
  BY <1>1, <1>2
<1>4. words[w] = Patterns(words)[w]
  BY <1>2, <1>3, Stages
<1>5. w \in _BEARER(words) \cup _BASIC(words) \cup _JWT(words) \cup _REFRESH(words)
  BY <1>2, <1>3, <1>4 DEF Shaped
<1>6. w \notin _BEARER(words)
  BY <1>2, <1>3, Stages, MarksStay
<1>7. w \notin _BASIC(words) /\ w \notin _REFRESH(words)
  BY <1>3, BasicIsFound, RefreshIsFound
<1> QED BY <1>1, <1>3, <1>4, <1>5, <1>6, <1>7, JwtIsFound

(* A text that no pattern matches is left alone, but for the cut.          *)
LEMMA ScrubTextSpares ==
    ASSUME NEW words, IsSequence(words), Ordinary(words)
    PROVE  scrub_text(words) = Cut(words)
<1>1. words = [w \in DOMAIN words |-> words[w]]
  BY SequencesAre
<1>2. sub({}, words) = words
  BY <1>1 DEF sub
<1>3. _BEARER(words) = {} /\ _BASIC(words) = {} /\ _JWT(words) = {} /\ _REFRESH(words) = {}
  BY DEF Ordinary
<1> QED BY <1>2, <1>3 DEF scrub_text, Patterns

(* What scrub leaves of a value.                                           *)
AsLogged(v) == IF v.is = "str" THEN Text(Cut(v.of)) ELSE v

(* An ordinary value comes out as it went in.                              *)
LEMMA ScrubSpares ==
    ASSUME NEW v, IsLeaf(v), v.is = "str" => Ordinary(v.of)
    PROVE  scrub(v) = AsLogged(v)
<1>1. IsSequence(v.of)
  BY DEF IsLeaf
<1>2. CASE v.is = "str"
  BY <1>1, <1>2, ScrubTextSpares DEF scrub, AsLogged
<1>3. CASE v.is # "str"
  BY <1>3 DEF scrub, AsLogged
<1> QED BY <1>2, <1>3

(* What a value still tells after scrub.                                   *)
Excused(v, w) == v.is = "object" \/ BehindBasic(v.of, w)

LEMMA ScrubHides ==
    ASSUME NEW v, IsLeaf(v), v.is = "str" => Shaped(v.of)
    PROVE  \A w \in DOMAIN scrub(v).of : scrub(v).of[w] \in Telling => Excused(v, w)
<1>1. CASE v.is = "str"
  <2>1. IsText(v.of)
    BY SequencesAre DEF IsLeaf, IsText
  <2>2. scrub(v).of = scrub_text(v.of)
    BY <1>1 DEF scrub, Text
  <2> QED BY <1>1, <2>1, <2>2, ScrubTextHides DEF Excused
<1>2. CASE v.is # "str"
  <2>1. v = Text(v.of) \/ v = Object(v.of)
    BY DEF IsLeaf
  <2>2. v.is = "object"
    BY <1>2, <2>1 DEF Text, Object
  <2> QED BY <2>2 DEF Excused
<1> QED BY <1>1, <1>2

-----------------------------------------------------------------------------
(* Where redact_processor puts what.                                       *)

(* The heads of a path are paths.                                          *)
LEMMA HeadOfPath ==
    ASSUME NEW p, IsSequence(p), NEW n \in 1..Len(p)
    PROVE  /\ IsSequence(SubSeq(p, 1, n)) /\ SubSeq(p, 1, n) # <<>>
           /\ Len(SubSeq(p, 1, n)) = n
           /\ SubSeq(p, 1, n)[1] = p[1]
           /\ n = Len(p) => SubSeq(p, 1, n) = p
<1> DEFINE S == {p[i] : i \in DOMAIN p}
           h == [i \in 1..n |-> p[i]]
<1>1. p \in Seq(S) /\ DOMAIN p = 1..Len(p) /\ Len(p) \in Nat
  BY SequencesAre DEF IsSequence
<1>2. n \in Nat /\ 1 <= n /\ n <= Len(p)
  BY <1>1
<1>3. \A i \in 1..n : p[i] \in S
  BY <1>1, <1>2
<1> HIDE DEF S
<1>4. SubSeq(p, 1, n) = h
  BY <1>1, <1>2
<1>5. h \in Seq(S) /\ Len(h) = n /\ h[1] = p[1]
  BY <1>2, <1>3
<1>6. n = Len(p) => h = p
  BY <1>1
<1> HIDE DEF h
<1>7. IsSequence(h) /\ h # <<>>
  BY <1>2, <1>5, SequencesAre
<1> QED BY <1>4, <1>5, <1>6, <1>7

(* What it leaves is redacted as a whole, or a leaf that was there.        *)
LEMMA RedactedLeaves ==
    ASSUME NEW e, IsTree(e), NEW p \in DOMAIN redact_processor(e)
    PROVE  /\ IsSequence(p) /\ p # <<>>
           /\ \E q \in DOMAIN e : q[1] = p[1] /\ \E n \in 1..Len(q) : p = SubSeq(q, 1, n)
           /\ \/ redact_processor(e)[p] = REDACTED
              \/ /\ p \in DOMAIN e /\ Open(p)
                 /\ redact_processor(e)[p] = scrub(e[p])
<1>1. /\ p \in UNION {{SubSeq(q, 1, n) : n \in 1..Len(q)} : q \in DOMAIN e}
      /\ Reaches(p, 0)
      /\ StopsAt(p, Len(p), 0) \/ p \in DOMAIN e
  BY DEF redact_processor, Scrubbed
<1>2. /\ StopsAt(p, Len(p), 0) => redact_processor(e)[p] = REDACTED
      /\ ~StopsAt(p, Len(p), 0) => redact_processor(e)[p] = scrub(e[p])
  BY DEF redact_processor, Scrubbed
<1>3. PICK q \in DOMAIN e : p \in {SubSeq(q, 1, n) : n \in 1..Len(q)}
  BY <1>1
<1>4. PICK n \in 1..Len(q) : p = SubSeq(q, 1, n)
  BY <1>3
<1>5. IsSequence(q)
  BY DEF IsTree
<1>6. IsSequence(p) /\ p # <<>> /\ p[1] = q[1] /\ Len(p) = n /\ Len(q) \in Nat
  BY <1>4, <1>5, HeadOfPath, SequencesAre
<1>7. ~StopsAt(p, Len(p), 0) => Open(p)
  <2>1. \A i \in 1..Len(p) : i = Len(p) \/ i \in 1..(Len(p) - 1)
    BY <1>6
  <2> QED BY <1>1, <2>1 DEF Reaches, Open
<1> QED BY <1>1, <1>2, <1>4, <1>6, <1>7

(* A leaf no key on whose path stops it is scrubbed and stays.             *)
LEMMA OpenLeavesStay ==
    ASSUME NEW e, IsTree(e), NEW p \in DOMAIN e, Open(p)
    PROVE  p \in DOMAIN redact_processor(e) /\ redact_processor(e)[p] = scrub(e[p])
<1>1. IsSequence(p) /\ p # <<>>
  BY DEF IsTree
<1>2. Len(p) \in Nat /\ Len(p) \in 1..Len(p) /\ 1..(Len(p) - 1) \subseteq 1..Len(p)
  <2>1. Len(p) \in Nat /\ Len(p) # 0
    BY <1>1, SequencesAre
  <2> QED BY <2>1
<1>3. p = SubSeq(p, 1, Len(p))
  BY <1>1, <1>2, HeadOfPath
<1>4. p \in UNION {{SubSeq(q, 1, n) : n \in 1..Len(q)} : q \in DOMAIN e}
  <2>1. p \in {SubSeq(p, 1, n) : n \in 1..Len(p)}
    BY <1>2, <1>3
  <2> QED BY <2>1
<1>5. Reaches(p, 0) /\ ~StopsAt(p, Len(p), 0)
  BY <1>2 DEF Open, Reaches
<1> QED BY <1>4, <1>5 DEF redact_processor, Scrubbed

(* What an update of the event leaves and brings.                          *)
LEMMA UpdatedLeaves ==
    ASSUME NEW e, NEW items
    PROVE  /\ \A p \in DOMAIN Updated(e, items) :
                 \/ /\ p \in DOMAIN e /\ p[1] \notin DOMAIN items
                    /\ Updated(e, items)[p] = e[p]
                 \/ \E k \in DOMAIN items : p = <<k>> /\ Updated(e, items)[p] = items[k]
           /\ \A k \in DOMAIN items : /\ <<k>> \in DOMAIN Updated(e, items)
                                      /\ Updated(e, items)[<<k>>] = items[k]
           /\ \A p \in DOMAIN e : p[1] \notin DOMAIN items =>
                 p \in DOMAIN Updated(e, items) /\ Updated(e, items)[p] = e[p]
           /\ \A p \in DOMAIN Updated(e, items) : p[1] \in DOMAIN items => p = <<p[1]>>
<1> DEFINE u == Updated(e, items)
           D == {q \in DOMAIN e : q[1] \notin DOMAIN items} \cup {<<k>> : k \in DOMAIN items}
<1>1. DOMAIN u = D /\ \A p \in D : u[p] = IF p[1] \in DOMAIN items THEN items[p[1]] ELSE e[p]
  BY DEF Updated
<1>2. \A k : <<k>>[1] = k
  OBVIOUS
<1>3. \A p \in D : \/ p \in DOMAIN e /\ p[1] \notin DOMAIN items
                   \/ \E k \in DOMAIN items : p = <<k>>
  OBVIOUS
<1>4. /\ \A k \in DOMAIN items : <<k>> \in D
      /\ \A p \in DOMAIN e : p[1] \notin DOMAIN items => p \in D
  OBVIOUS
<1> HIDE DEF u, D
<1>5. \A k \in DOMAIN items : <<k>> \in DOMAIN u /\ u[<<k>>] = items[k]
  BY <1>1, <1>2, <1>4
<1>6. \A p \in DOMAIN e : p[1] \notin DOMAIN items => p \in DOMAIN u /\ u[p] = e[p]
  BY <1>1, <1>4
<1>7. ASSUME NEW p \in DOMAIN u
      PROVE  /\ \/ p \in DOMAIN e /\ p[1] \notin DOMAIN items /\ u[p] = e[p]
                \/ \E k \in DOMAIN items : p = <<k>> /\ u[p] = items[k]
             /\ p[1] \in DOMAIN items => p = <<p[1]>>
  <2>1. CASE p \in DOMAIN e /\ p[1] \notin DOMAIN items
    BY <2>1, <1>6
  <2>2. ASSUME NEW k \in DOMAIN items, p = <<k>>
        PROVE  u[p] = items[k] /\ p = <<p[1]>>
    BY <2>2, <1>2, <1>5
  <2> QED BY <2>1, <2>2, <1>1, <1>3
<1> QED BY <1>5, <1>6, <1>7 DEF u

(* A tree stays one.                                                       *)
LEMMA UpdatedIsTree ==
    ASSUME NEW e, IsTree(e), NEW items,
           \A k \in DOMAIN items : IsLeaf(items[k])
    PROVE  IsTree(Updated(e, items))
<1> SUFFICES ASSUME NEW p \in DOMAIN Updated(e, items)
             PROVE  IsSequence(p) /\ p # <<>> /\ IsLeaf(Updated(e, items)[p])
  BY DEF IsTree
<1>1. CASE p \in DOMAIN e /\ Updated(e, items)[p] = e[p]
  BY <1>1 DEF IsTree
<1>2. ASSUME NEW k \in DOMAIN items, p = <<k>>, Updated(e, items)[p] = items[k]
      PROVE  IsSequence(p) /\ p # <<>> /\ IsLeaf(Updated(e, items)[p])
  <2>1. <<k>> \in Seq({k}) /\ <<k>> # <<>>
    OBVIOUS
  <2> QED BY <1>2, <2>1, SequencesAre
<1> QED BY <1>1, <1>2, UpdatedLeaves

-----------------------------------------------------------------------------
(* The chain.                                                              *)

(* The first three processors only set keys of their own.                  *)
Sets(items) ==
    /\ event' = Updated(event, items)
    /\ \A k \in DOMAIN items : /\ k \in OwnKeys \ {"exception"}
                               /\ IsLeaf(items[k])
                               /\ \/ k \in IdKeys /\ items[k] = context[k]
                                  \/ Words(items[k]) \cap Telling = {}

(* What nothing matches.                                                   *)
Spared(v) == v.is = "str" => Ordinary(v.of)

Injects ==
    Sets([k \in Given |-> context[k]])

(* The inductive invariant: an event is a tree until it is redacted; what  *)
(* the caller gave is in it; and from the third processor on, the ids.     *)
LineInv ==
    /\ at \in 1..6
    /\ logged \in Events
    /\ context \in [IdKeys -> Ids \cup {None}]
    /\ at <= 4 => IsTree(event)
    /\ at <= 4 => \A p \in DOMAIN logged :
          p[1] \notin OwnKeys => p \in DOMAIN event /\ event[p] = logged[p]
    /\ at > 4 => \A p \in DOMAIN logged :
          p[1] \notin OwnKeys /\ Open(p) /\ Spared(logged[p])
            => p \in DOMAIN event /\ event[p] = AsLogged(logged[p])
    /\ at >= 4 => \A k \in Given :
          /\ <<k>> \in DOMAIN event
          /\ \A p \in DOMAIN event : p[1] = k => p = <<k>>
          /\ event[<<k>>] = IF at = 4 THEN context[k] ELSE scrub(context[k])

(* What may still show a credential, and what no longer does.              *)
HiddenInv ==
    /\ at <= 4 => \A p \in DOMAIN event :
                     event[p] \in Sources(p) \/ Words(event[p]) \cap Telling = {}
    /\ at > 4 => \A p \in DOMAIN event : p[1] # "exception" =>
                    \A w \in DOMAIN event[p].of : event[p].of[w] \in Telling =>
                       \E v \in Sources(p) : Excused(v, w)

(* Nothing to hide in these.                                               *)
LEMMA OwnWords ==
    /\ IsLeaf(None) /\ Words(None) \cap Telling = {}
    /\ IsLeaf(Text(<<"info">>)) /\ Words(Text(<<"info">>)) \cap Telling = {}
    /\ IsLeaf(Text(<<"now">>)) /\ Words(Text(<<"now">>)) \cap Telling = {}
    /\ Words(REDACTED) \cap Telling = {}
<1>1. IsLeaf(None) /\ Words(None) = {}
  <2>1. None.of = <<>> /\ None = Object(None.of) /\ <<>> \in Seq({}) /\ DOMAIN <<>> = {}
    BY DEF None, Object
  <2> QED BY <2>1, SequencesAre DEF IsLeaf, Words
<1>2. ASSUME NEW w, w \notin Openers
      PROVE  IsLeaf(Text(<<w>>)) /\ Words(Text(<<w>>)) = {w}
  <2>1. <<w>> \in Seq({w}) /\ DOMAIN <<w>> = 1..1 /\ <<w>>[1] = w
    OBVIOUS
  <2>2. Text(<<w>>).of = <<w>>
    BY DEF Text
  <2>3. IsSequence(<<w>>)
    BY <2>1, SequencesAre
  <2> HIDE DEF Text
  <2>4. Words(Text(<<w>>)) = {w}
    BY <2>1, <2>2 DEF Words
  <2>5. \A x \in DOMAIN Text(<<w>>).of : Text(<<w>>).of[x] \notin Openers
    BY <1>2, <2>4 DEF Words
  <2> QED BY <2>2, <2>3, <2>4, <2>5 DEF IsLeaf
<1>3. /\ "info" \notin Telling /\ "now" \notin Telling /\ Mark \notin Telling
      /\ "info" \notin Openers /\ "now" \notin Openers /\ Mark \notin Openers
  BY DEF Telling, Openers, Mark
<1> QED BY <1>1, <1>2, <1>3 DEF REDACTED

(* Nothing comes of nothing.                                               *)
LEMMA QuietStaysQuiet ==
    ASSUME NEW v, IsLeaf(v), Words(v) \cap Telling = {}
    PROVE  Words(scrub(v)) \cap Telling = {}
<1>1. IsText(v.of)
  BY SequencesAre DEF IsLeaf, IsText
<1>2. \A w \in DOMAIN scrub_text(v.of) :
         w \in DOMAIN v.of /\ scrub_text(v.of)[w] \in {Mark, v.of[w]}
  BY <1>1, Stages DEF scrub_text, Cut
<1>3. Mark \notin Telling
  BY DEF Mark, Telling
<1>4. CASE v.is = "str"
  <2>1. scrub(v).of = scrub_text(v.of)
    BY <1>4 DEF scrub, Text
  <2> QED BY <1>2, <1>3, <2>1 DEF Words
<1>5. CASE v.is # "str"
  BY <1>5 DEF scrub
<1> QED BY <1>4, <1>5

(* The processors run in their order.                                      *)
LEMMA ChainSteps ==
    ASSUME at \in 1..6, context \in [IdKeys -> Ids \cup {None}], [Next]_vars
    PROVE  \/ UNCHANGED vars
           \/ /\ at' = at + 1 /\ UNCHANGED <<context, logged, exc>>
              /\ \/ at \in {1, 2} /\ \E items : DOMAIN items \cap IdKeys = {} /\ Sets(items)
                 \/ at = 3 /\ Injects
                 \/ at = 4 /\ event' = redact_processor(event)
                 \/ at = 5 /\ format_exc_info
<1>1. /\ Len(Processors) = 5
      /\ Processors[1] = "add_log_level" /\ Processors[2] = "TimeStamper"
      /\ Processors[3] = "_inject_context" /\ Processors[4] = "redact_processor"
      /\ Processors[5] = "format_exc_info"
  BY DEF Processors
<1>2. at \in {1, 2, 3, 4, 5} \/ at = 6
  OBVIOUS
<1>3. ASSUME NEW name, Run(name)
      PROVE  /\ at \in {1, 2, 3, 4, 5} /\ name = Processors[at]
             /\ at' = at + 1 /\ UNCHANGED <<context, logged, exc>>
  BY <1>1, <1>2, <1>3 DEF Run
<1>4. CASE Run("add_log_level") /\ With([level |-> Text(<<"info">>)])
  <2> DEFINE items == [level |-> Text(<<"info">>)]
  <2>1. DOMAIN items = {"level"} /\ items["level"] = Text(<<"info">>)
    OBVIOUS
  <2>2. at = 1
    BY <1>1, <1>3, <1>4
  <2> HIDE DEF items
  <2>3. DOMAIN items \cap IdKeys = {} /\ Sets(items)
    BY <1>4, <2>1, OwnWords DEF items, With, Sets, OwnKeys, IdKeys
  <2> QED BY <1>3, <1>4, <2>2, <2>3
<1>5. CASE Run("TimeStamper") /\ With([timestamp |-> Text(<<"now">>)])
  <2> DEFINE items == [timestamp |-> Text(<<"now">>)]
  <2>1. DOMAIN items = {"timestamp"} /\ items["timestamp"] = Text(<<"now">>)
    OBVIOUS
  <2>2. at = 2
    BY <1>1, <1>3, <1>5
  <2> HIDE DEF items
  <2>3. DOMAIN items \cap IdKeys = {} /\ Sets(items)
    BY <1>5, <2>1, OwnWords DEF items, With, Sets, OwnKeys, IdKeys
  <2> QED BY <1>3, <1>5, <2>2, <2>3
<1>6. CASE Run("_inject_context") /\ _inject_context
  <2> DEFINE items == [k \in Given |-> context[k]]
  <2>1. /\ DOMAIN items = Given
        /\ \A k \in DOMAIN items : items[k] = context[k]
    OBVIOUS
  <2>2. at = 3
    BY <1>1, <1>3, <1>6
  <2>3. event' = Updated(event, items)
    BY <1>6 DEF _inject_context, With
  <2> HIDE DEF items
  <2>4. \A k \in DOMAIN items : k \in IdKeys /\ items[k] = context[k] /\ IsLeaf(items[k])
    BY <2>1, LogCallsAreTrees, OwnWords DEF Given
  <2>5. \A k \in IdKeys : k \in OwnKeys \ {"exception"}
    BY DEF IdKeys, OwnKeys
  <2>6. Sets(items)
    BY <2>3, <2>4, <2>5 DEF Sets
  <2> QED BY <1>3, <1>6, <2>2, <2>6 DEF Injects, items
<1>7. CASE Run("redact_processor") /\ event' = redact_processor(event)
  <2>1. at = 4
    BY <1>1, <1>3, <1>7
  <2> QED BY <1>3, <1>7, <2>1
<1>8. CASE Run("format_exc_info") /\ format_exc_info
  <2>1. at = 5
    BY <1>1, <1>3, <1>8
  <2> QED BY <1>3, <1>8, <2>1
<1>9. CASE UNCHANGED vars
  BY <1>9
<1> QED BY <1>4, <1>5, <1>6, <1>7, <1>8, <1>9 DEF Next, Render

(* No id is redacted as a whole.                                           *)
LEMMA IdsAreOpen ==
    \A k \in IdKeys : Len(<<k>>) = 1 /\ <<k>>[1] = k /\ Open(<<k>>)
<1> SUFFICES ASSUME NEW k \in IdKeys
             PROVE  Len(<<k>>) = 1 /\ <<k>>[1] = k /\ Open(<<k>>)
  OBVIOUS
<1>1. Len(<<k>>) = 1 /\ <<k>>[1] = k
  OBVIOUS
<1>2. k \notin SensitiveKeys
  BY DEF IdKeys, SensitiveKeys
<1>3. ~StopsAt(<<k>>, 1, 0)
  BY <1>1, <1>2 DEF StopsAt, is_sensitive_key
<1>4. \A n \in 1..1 : n = 1
  OBVIOUS
<1> QED BY <1>1, <1>3, <1>4 DEF Open

(* The processors' own keys disturb no other.                              *)
LEMMA OwnUpdate ==
    ASSUME NEW e, IsTree(e), NEW items,
           \A k \in DOMAIN items : k \in OwnKeys /\ IsLeaf(items[k])
    PROVE  /\ IsTree(Updated(e, items))
           /\ \A p \in DOMAIN e : p[1] \notin OwnKeys =>
                 p \in DOMAIN Updated(e, items) /\ Updated(e, items)[p] = e[p]
<1>1. IsTree(Updated(e, items))
  BY UpdatedIsTree
<1>2. \A p \in DOMAIN e : p[1] \notin OwnKeys => p[1] \notin DOMAIN items
  OBVIOUS
<1> QED BY <1>1, <1>2, UpdatedLeaves

(* The first event holds what the caller gave.                             *)
LEMMA LineInit ==
    Init => LineInv
<1> SUFFICES ASSUME Init
             PROVE  LineInv
  OBVIOUS
<1>1. /\ at = 1 /\ logged \in Events /\ context \in [IdKeys -> Ids \cup {None}]
      /\ IsTree(logged)
  BY LogCallsAreTrees DEF Init
<1>2. CASE event = logged
  BY <1>1, <1>2 DEF LineInv
<1>3. CASE event = Updated(logged, [exc_info |-> None])
  <2> DEFINE items == [exc_info |-> None]
  <2>1. \A k \in DOMAIN items : k = "exc_info" /\ items[k] = None
    OBVIOUS
  <2>2. event = Updated(logged, items)
    BY <1>3
  <2> HIDE DEF items
  <2>3. \A k \in DOMAIN items : k \in OwnKeys /\ IsLeaf(items[k])
    BY <2>1, OwnWords DEF OwnKeys
  <2>4. /\ IsTree(event)
        /\ \A p \in DOMAIN logged : p[1] \notin OwnKeys => p \in DOMAIN event /\ event[p] = logged[p]
    BY <1>1, <2>2, <2>3, OwnUpdate
  <2> QED BY <1>1, <2>4 DEF LineInv
<1> QED BY <1>2, <1>3 DEF Init

(* The first three processors add to it.                                   *)
LEMMA LineSet ==
    ASSUME LineInv, NEW items, Sets(items), at <= 3
    PROVE  /\ IsTree(event')
           /\ \A p \in DOMAIN logged : p[1] \notin OwnKeys => p \in DOMAIN event' /\ event'[p] = logged[p]
<1>1. \A k \in DOMAIN items : k \in OwnKeys /\ IsLeaf(items[k])
  BY DEF Sets
<1>2. at \in Int /\ at <= 4 /\ ~(at > 4)
  BY DEF LineInv
<1>3. IsTree(event)
  BY <1>2 DEF LineInv
<1>4. \A p \in DOMAIN logged : p[1] \notin OwnKeys => p \in DOMAIN event /\ event[p] = logged[p]
  BY <1>2 DEF LineInv
<1>5. event' = Updated(event, items)
  BY DEF Sets
<1> QED BY <1>1, <1>3, <1>4, <1>5, OwnUpdate

(* The third brings the ids, in place of the caller's.                     *)
LEMMA LineInject ==
    ASSUME LineInv, Injects, NEW k \in Given
    PROVE  /\ <<k>> \in DOMAIN event'
           /\ \A p \in DOMAIN event' : p[1] = k => p = <<k>>
           /\ event'[<<k>>] = context[k]
<1> DEFINE items == [j \in Given |-> context[j]]
<1>1. k \in DOMAIN items /\ items[k] = context[k]
  OBVIOUS
<1>2. event' = Updated(event, items)
  BY DEF Injects, Sets
<1> HIDE DEF items
<1> QED BY <1>1, <1>2, UpdatedLeaves

(* Redaction keeps what is ordinary, and the ids.                          *)
LEMMA LineRedact ==
    ASSUME LineInv, at = 4, event' = redact_processor(event)
    PROVE  /\ \A p \in DOMAIN logged :
                 p[1] \notin OwnKeys /\ Open(p) /\ Spared(logged[p])
                   => p \in DOMAIN event' /\ event'[p] = AsLogged(logged[p])
           /\ \A k \in Given :
                 /\ <<k>> \in DOMAIN event'
                 /\ \A p \in DOMAIN event' : p[1] = k => p = <<k>>
                 /\ event'[<<k>>] = scrub(context[k])
<1>1. IsTree(event) /\ logged \in Events
  BY DEF LineInv
<1>2. ASSUME NEW p \in DOMAIN logged, p[1] \notin OwnKeys, Open(p), Spared(logged[p])
      PROVE  p \in DOMAIN event' /\ event'[p] = AsLogged(logged[p])
  <2>1. p \in DOMAIN event /\ event[p] = logged[p]
    BY <1>2 DEF LineInv
  <2>2. IsLeaf(logged[p])
    BY <1>1, LogCallsAreTrees DEF IsTree
  <2> QED BY <1>1, <1>2, <2>1, <2>2, OpenLeavesStay, ScrubSpares DEF Spared
<1>3. ASSUME NEW k \in Given
      PROVE  /\ <<k>> \in DOMAIN event'
             /\ \A p \in DOMAIN event' : p[1] = k => p = <<k>>
             /\ event'[<<k>>] = scrub(context[k])
  <2>1. /\ <<k>> \in DOMAIN event
        /\ \A p \in DOMAIN event : p[1] = k => p = <<k>>
        /\ event[<<k>>] = context[k]
    BY <1>3 DEF LineInv
  <2>2. Len(<<k>>) = 1 /\ Open(<<k>>)
    BY IdsAreOpen DEF Given
  <2>3. <<k>> \in DOMAIN event' /\ event'[<<k>>] = scrub(context[k])
    BY <1>1, <2>1, <2>2, OpenLeavesStay
  <2>4. ASSUME NEW p \in DOMAIN event', p[1] = k
        PROVE  p = <<k>>
    <3>1. PICK q \in DOMAIN event : q[1] = p[1] /\ \E n \in 1..Len(q) : p = SubSeq(q, 1, n)
      BY <1>1, <2>4, RedactedLeaves
    <3>2. q = <<k>> /\ IsSequence(q) /\ Len(q) = 1
      BY <1>1, <2>1, <2>2, <2>4, <3>1 DEF IsTree
    <3>3. p = SubSeq(q, 1, 1) /\ 1 \in 1..Len(q)
      BY <3>1, <3>2
    <3>4. SubSeq(q, 1, 1) = q
      BY <3>2, <3>3, HeadOfPath
    <3> QED BY <3>2, <3>3, <3>4
  <2> QED BY <2>3, <2>4
<1> QED BY <1>2, <1>3

(* The traceback takes the place of two fields, and nothing else changes.  *)
LEMMA TracebackLeaves ==
    ASSUME format_exc_info
    PROVE  /\ \A p \in DOMAIN event' : p[1] = "exception" \/ (p \in DOMAIN event /\ event'[p] = event[p])
           /\ \A p \in DOMAIN event : p[1] \notin {"exc_info", "exception"} =>
                 p \in DOMAIN event' /\ event'[p] = event[p]
<1>1. CASE <<"exc_info">> \in DOMAIN event
  <2> DEFINE D == {q \in DOMAIN event : q[1] # "exc_info" /\ q[1] # "exception"} \cup {<<"exception">>}
  <2>1. event' = [p \in D |-> IF p = <<"exception">> THEN exc ELSE event[p]]
    BY <1>1 DEF format_exc_info
  <2>2. <<"exception">>[1] = "exception"
    OBVIOUS
  <2>3. /\ \A p \in D : p = <<"exception">> \/ (p \in DOMAIN event /\ p[1] # "exception")
        /\ \A p \in DOMAIN event : p[1] \notin {"exc_info", "exception"} => p \in D
    OBVIOUS
  <2> HIDE DEF D
  <2>4. DOMAIN event' = D /\ \A p \in D : p # <<"exception">> => event'[p] = event[p]
    BY <2>1
  <2> QED BY <2>2, <2>3, <2>4
<1>2. CASE <<"exc_info">> \notin DOMAIN event
  BY <1>2 DEF format_exc_info
<1> QED BY <1>1, <1>2

(* Every processor keeps the line's invariant.                             *)
LEMMA LineStep ==
    LineInv /\ [Next]_vars => LineInv'
<1> SUFFICES ASSUME LineInv, [Next]_vars
             PROVE  LineInv'
  OBVIOUS
<1>1. at \in 1..6 /\ logged \in Events /\ context \in [IdKeys -> Ids \cup {None}]
  BY DEF LineInv
<1>2. CASE UNCHANGED vars
  BY <1>2 DEF LineInv, vars, Given
<1>3. ASSUME at' = at + 1, UNCHANGED <<context, logged, exc>>,
             \/ at \in {1, 2} /\ \E items : DOMAIN items \cap IdKeys = {} /\ Sets(items)
             \/ at = 3 /\ Injects
             \/ at = 4 /\ event' = redact_processor(event)
             \/ at = 5 /\ format_exc_info
      PROVE  LineInv'
  <2>0. /\ logged' \in Events /\ context' \in [IdKeys -> Ids \cup {None}]
        /\ logged' = logged /\ context' = context /\ Given' = Given
    BY <1>1, <1>3 DEF Given
  <2>1. CASE at \in {1, 2} /\ \E items : DOMAIN items \cap IdKeys = {} /\ Sets(items)
    <3>1. PICK items : Sets(items)
      BY <2>1
    <3>2. at' \in 1..6 /\ at' <= 4 /\ ~(at' > 4) /\ ~(at' >= 4) /\ at <= 3
      BY <1>3, <2>1
    <3>3. /\ IsTree(event')
          /\ \A p \in DOMAIN logged : p[1] \notin OwnKeys => p \in DOMAIN event' /\ event'[p] = logged[p]
      BY <3>1, <3>2, LineSet
    <3> QED BY <2>0, <3>2, <3>3 DEF LineInv
  <2>2. CASE at = 3 /\ Injects
    <3>1. at' = 4 /\ at <= 3 /\ 4 \in 1..6
      BY <1>3, <2>2
    <3>2. /\ IsTree(event')
          /\ \A p \in DOMAIN logged : p[1] \notin OwnKeys => p \in DOMAIN event' /\ event'[p] = logged[p]
      BY <2>2, <3>1, LineSet DEF Injects
    <3>3. \A k \in Given :
             /\ <<k>> \in DOMAIN event'
             /\ \A p \in DOMAIN event' : p[1] = k => p = <<k>>
             /\ event'[<<k>>] = context[k]
      BY <2>2, LineInject
    <3> QED BY <2>0, <3>1, <3>2, <3>3 DEF LineInv
  <2>3. CASE at = 4 /\ event' = redact_processor(event)
    <3>1. at' = 5 /\ 5 \in 1..6
      BY <1>3, <2>3
    <3>2. /\ \A p \in DOMAIN logged :
                p[1] \notin OwnKeys /\ Open(p) /\ Spared(logged[p])
                  => p \in DOMAIN event' /\ event'[p] = AsLogged(logged[p])
          /\ \A k \in Given :
                /\ <<k>> \in DOMAIN event'
                /\ \A p \in DOMAIN event' : p[1] = k => p = <<k>>
                /\ event'[<<k>>] = scrub(context[k])
      BY <2>3, LineRedact
    <3> QED BY <2>0, <3>1, <3>2 DEF LineInv
  <2>4. CASE at = 5 /\ format_exc_info
    <3>1. at' = 6 /\ 6 \in 1..6
      BY <1>3, <2>4
    <3>2. /\ \A p \in DOMAIN event' : p[1] = "exception" \/ (p \in DOMAIN event /\ event'[p] = event[p])
          /\ \A p \in DOMAIN event : p[1] \notin {"exc_info", "exception"} =>
                p \in DOMAIN event' /\ event'[p] = event[p]
      BY <2>4, TracebackLeaves
    <3>3. \A k \in Given : k \notin {"exc_info", "exception"} /\ <<k>>[1] = k
      BY DEF Given, IdKeys
    <3>4. "exc_info" \in OwnKeys /\ "exception" \in OwnKeys
      BY DEF OwnKeys
    <3>5. ASSUME NEW p \in DOMAIN logged, p[1] \notin OwnKeys, Open(p), Spared(logged[p])
          PROVE  p \in DOMAIN event' /\ event'[p] = AsLogged(logged[p])
      <4>1. p \in DOMAIN event /\ event[p] = AsLogged(logged[p])
        BY <2>4, <3>5 DEF LineInv
      <4> QED BY <3>2, <3>4, <3>5, <4>1
    <3>6. ASSUME NEW k \in Given
          PROVE  /\ <<k>> \in DOMAIN event'
                 /\ \A p \in DOMAIN event' : p[1] = k => p = <<k>>
                 /\ event'[<<k>>] = scrub(context[k])
      <4>1. /\ <<k>> \in DOMAIN event
            /\ \A p \in DOMAIN event : p[1] = k => p = <<k>>
            /\ event[<<k>>] = scrub(context[k])
        BY <2>4, <3>6 DEF LineInv
      <4> QED BY <3>2, <3>3, <4>1
    <3> QED BY <2>0, <3>1, <3>5, <3>6 DEF LineInv
  <2> QED BY <1>3, <2>1, <2>2, <2>3, <2>4
<1> QED BY <1>1, <1>2, <1>3, ChainSteps

(* What is logged, and the ids that are injected, come from their sources. *)
LEMMA HiddenUpdate ==
    ASSUME NEW e, \A p \in DOMAIN e : e[p] \in Sources(p) \/ Words(e[p]) \cap Telling = {},
           NEW items, \A k \in DOMAIN items : \/ k \in IdKeys /\ items[k] = context[k]
                                             \/ Words(items[k]) \cap Telling = {}
    PROVE  \A p \in DOMAIN Updated(e, items) :
              \/ Updated(e, items)[p] \in Sources(p)
              \/ Words(Updated(e, items)[p]) \cap Telling = {}
<1> SUFFICES ASSUME NEW p \in DOMAIN Updated(e, items)
             PROVE  \/ Updated(e, items)[p] \in Sources(p)
                    \/ Words(Updated(e, items)[p]) \cap Telling = {}
  OBVIOUS
<1>1. CASE p \in DOMAIN e /\ Updated(e, items)[p] = e[p]
  <2>1. e[p] \in Sources(p) \/ Words(e[p]) \cap Telling = {}
    BY <1>1
  <2> QED BY <1>1, <2>1
<1>2. ASSUME NEW k \in DOMAIN items, p = <<k>>, Updated(e, items)[p] = items[k]
      PROVE  \/ Updated(e, items)[p] \in Sources(p)
             \/ Words(Updated(e, items)[p]) \cap Telling = {}
  <2>1. CASE Words(items[k]) \cap Telling = {}
    BY <1>2, <2>1
  <2>2. CASE k \in IdKeys /\ items[k] = context[k]
    <3>1. p[1] = k
      BY <1>2
    <3>2. k \in {p[1]} \cap IdKeys
      BY <2>2, <3>1
    <3>3. context[k] \in Sources(p)
      BY <3>2 DEF Sources
    <3> QED BY <1>2, <2>2, <3>3
  <2> QED BY <2>1, <2>2
<1> QED BY <1>1, <1>2, UpdatedLeaves

(* The first event has only what was logged.                               *)
LEMMA HiddenInit ==
    ASSUME Init
    PROVE  HiddenInv
<1>1. at = 1
  BY DEF Init
<1>2. \A p \in DOMAIN logged : logged[p] \in Sources(p)
  BY DEF Sources
<1>3. CASE event = logged
  BY <1>1, <1>2, <1>3 DEF HiddenInv
<1>4. CASE event = Updated(logged, [exc_info |-> None])
  <2> DEFINE items == [exc_info |-> None]
  <2>1. \A k \in DOMAIN items : items[k] = None
    OBVIOUS
  <2>2. event = Updated(logged, items)
    BY <1>4
  <2> HIDE DEF items
  <2>3. \A k \in DOMAIN items : Words(items[k]) \cap Telling = {}
    BY <2>1, OwnWords
  <2>4. \A p \in DOMAIN event : event[p] \in Sources(p) \/ Words(event[p]) \cap Telling = {}
    BY <1>2, <2>2, <2>3, HiddenUpdate
  <2> QED BY <1>1, <2>4 DEF HiddenInv
<1> QED BY <1>3, <1>4 DEF Init

(* Its sources have their credentials where the patterns can see them.     *)
LEMMA SourcesAreShaped ==
    ASSUME CredentialsAreKnown, LineInv, NEW p, Open(p), NEW v \in Sources(p)
    PROVE  v.is = "str" => Shaped(v.of)
<1>1. logged \in Events /\ context \in [IdKeys -> Ids \cup {None}]
  BY DEF LineInv
<1>2. None.is # "str"
  BY DEF None, Object
<1>3. CASE p \in DOMAIN logged /\ v = logged[p]
  BY <1>1, <1>3 DEF CredentialsAreKnown
<1>4. ASSUME NEW k \in IdKeys, v = context[k]
      PROVE  v.is = "str" => Shaped(v.of)
  BY <1>1, <1>2, <1>4 DEF CredentialsAreKnown
<1> QED BY <1>3, <1>4 DEF Sources

(* Once redacted it shows only what is excused.                            *)
LEMMA HiddenStep ==
    ASSUME CredentialsAreKnown, LineInv, HiddenInv, [Next]_vars
    PROVE  HiddenInv'
<1>1. at \in 1..6 /\ context \in [IdKeys -> Ids \cup {None}]
  BY DEF LineInv
<1>2. CASE UNCHANGED vars
  BY <1>2 DEF HiddenInv, vars, Sources
<1>3. ASSUME NEW items, Sets(items), at <= 3, at' = at + 1, UNCHANGED <<context, logged>>
      PROVE  HiddenInv'
  <2>1. at' <= 4 /\ ~(at' > 4) /\ at <= 4
    BY <1>1, <1>3
  <2>2. \A p \in DOMAIN event : event[p] \in Sources(p) \/ Words(event[p]) \cap Telling = {}
    BY <2>1 DEF HiddenInv
  <2>3. /\ event' = Updated(event, items)
        /\ \A k \in DOMAIN items : \/ k \in IdKeys /\ items[k] = context[k]
                                   \/ Words(items[k]) \cap Telling = {}
    BY <1>3 DEF Sets
  <2>4. \A p \in DOMAIN event' : event'[p] \in Sources(p) \/ Words(event'[p]) \cap Telling = {}
    BY <2>2, <2>3, HiddenUpdate
  <2>5. \A p : Sources(p)' = Sources(p)
    BY <1>3 DEF Sources
  <2>6. \A p : Words(event[p])' = Words(event'[p])
    BY DEF Words
  <2> QED BY <2>1, <2>4, <2>5, <2>6 DEF HiddenInv
<1>4. ASSUME at = 4, at' = at + 1, event' = redact_processor(event), UNCHANGED <<context, logged>>
      PROVE  HiddenInv'
  <2>1. at' = 5
    BY <1>4
  <2>2. /\ IsTree(event)
        /\ \A p \in DOMAIN event : event[p] \in Sources(p) \/ Words(event[p]) \cap Telling = {}
    BY <1>4 DEF LineInv, HiddenInv
  <2>3. ASSUME NEW p \in DOMAIN event', NEW w \in DOMAIN event'[p].of, event'[p].of[w] \in Telling
        PROVE  \E v \in Sources(p) : Excused(v, w)
    <3>1. Words(event'[p]) \cap Telling # {}
      BY <2>3 DEF Words
    <3>2. event'[p] # REDACTED
      BY <3>1, OwnWords
    <3>3. p \in DOMAIN event /\ Open(p) /\ event'[p] = scrub(event[p])
      BY <1>4, <2>2, <3>2, RedactedLeaves
    <3>4. IsLeaf(event[p])
      BY <2>2, <3>3 DEF IsTree
    <3>5. event[p] \in Sources(p)
      BY <2>2, <3>1, <3>3, <3>4, QuietStaysQuiet
    <3>6. event[p].is = "str" => Shaped(event[p].of)
      BY <3>3, <3>5, SourcesAreShaped
    <3> QED BY <2>3, <3>3, <3>4, <3>5, <3>6, ScrubHides
  <2> QED BY <1>4, <2>1, <2>3 DEF HiddenInv, Sources
<1>5. ASSUME at = 5, at' = at + 1, format_exc_info, UNCHANGED <<context, logged>>
      PROVE  HiddenInv'
  <2>1. at' = 6
    BY <1>5
  <2>2. ASSUME NEW p \in DOMAIN event', p[1] # "exception",
               NEW w \in DOMAIN event'[p].of, event'[p].of[w] \in Telling
        PROVE  \E v \in Sources(p) : Excused(v, w)
    <3>1. p \in DOMAIN event /\ event'[p] = event[p]
      BY <1>5, <2>2, TracebackLeaves
    <3> QED BY <1>5, <2>2, <3>1 DEF HiddenInv
  <2> QED BY <1>5, <2>1, <2>2 DEF HiddenInv, Sources
<1> QED BY <1>1, <1>2, <1>3, <1>4, <1>5, ChainSteps DEF Injects

(* No line is without this.                                                *)
LEMMA LineHolds ==
    Spec => []LineInv
<1> QED BY LineInit, LineStep, PTL DEF Spec

-----------------------------------------------------------------------------
(* Under ordinary keys a text that no pattern matches is on the line as it *)
(* was logged, as far as the cut, and any other value whole                *)
(* (redact_processor, and what the other processors leave alone).          *)
THEOREM OrdinaryFieldsSurvive ==
    Spec => []DiagnosticsSurvive
<1>1. LineInv => DiagnosticsSurvive
  <2> SUFFICES ASSUME LineInv, Rendered, NEW p \in DOMAIN logged,
                      p[1] \notin OwnKeys, Open(p), Spared(logged[p])
               PROVE  p \in DOMAIN event /\ event[p] = AsLogged(logged[p])
    BY DEF DiagnosticsSurvive, Spared, AsLogged
  <2>1. at > 4
    BY DEF LineInv, Rendered, Processors
  <2> QED BY <2>1 DEF LineInv
<1> QED BY <1>1, LineHolds, PTL

(* A line carries the ids of the task that wrote it, each once and as the  *)
(* scrubber leaves it, whatever the caller passed (_inject_context).       *)
THEOREM LinesCarryTheirOwnIds ==
    Spec => []LinesCarryTheirIds
<1>1. LineInv => LinesCarryTheirIds
  <2> SUFFICES ASSUME LineInv, Rendered, NEW k \in Given
               PROVE  /\ {p \in DOMAIN event : p[1] = k} = {<<k>>}
                      /\ event[<<k>>] = scrub(context[k])
    BY DEF LinesCarryTheirIds
  <2>1. at \in 1..6 /\ at > 5
    BY DEF LineInv, Rendered, Processors
  <2>2. at >= 4 /\ at # 4
    BY <2>1
  <2>3. /\ <<k>> \in DOMAIN event
        /\ \A p \in DOMAIN event : p[1] = k => p = <<k>>
        /\ event[<<k>>] = scrub(context[k])
    BY <2>2 DEF LineInv
  <2>4. <<k>>[1] = k
    OBVIOUS
  <2> QED BY <2>3, <2>4
<1> QED BY <1>1, LineHolds, PTL

(* If a caller's credentials are where one of the patterns would match     *)
(* them, or under a key that gives them away, no part of one is on the     *)
(* line but in an object's repr or after "basic" and behind a dot: several *)
(* in one text, in any order, do not get in each other's way (scrub_text,  *)
(* scrub).                                                                 *)
THEOREM LinesHideCredentials ==
    ASSUME CredentialsAreKnown
    PROVE  Spec => []OnlyKnownGapsShow
<1>1. Init => HiddenInv
  BY HiddenInit
<1>2. LineInv /\ HiddenInv /\ [Next]_vars => HiddenInv'
  BY HiddenStep
<1>3. LineInv /\ HiddenInv => OnlyKnownGapsShow
  <2> SUFFICES ASSUME LineInv, HiddenInv, Rendered
               PROVE  \A p \in DOMAIN event : p[1] # "exception" =>
                         \A w \in DOMAIN event[p].of : event[p].of[w] \in Telling =>
                            \E v \in Sources(p) : Excused(v, w)
    BY DEF OnlyKnownGapsShow, Excused
  <2>1. at > 4
    BY DEF LineInv, Rendered, Processors
  <2> QED BY <2>1 DEF HiddenInv
<1> QED BY <1>1, <1>2, <1>3, LineHolds, PTL DEF Spec
=============================================================================
