------------------------------ MODULE IrcMarkup ------------------------------
(***************************************************************************)
(* The two formatting converters of src/src/core/util.cpp.  irc2markup     *)
(* turns mIRC control codes into libpurple's HTML-like markup with a       *)
(* do ... while loop over the string; it is modelled as a state machine,   *)
(* one action per case of its switch, whose state is the loop's locals.    *)
(* markup2irc turns markup back into control codes and is a pure operator  *)
(* over markup tokens.  Both are checked against reference readings of     *)
(* what an IRC string and a markup string display.                         *)
(*                                                                         *)
(* A string is a sequence of symbols: the control characters below, the    *)
(* digits and ',' that colour codes read, and the plain character "x".    *)
(* None of them is one that g_markup_escape_text rewrites, so an escaped   *)
(* run of text is that run.  A markup token is one tag, whole, as          *)
(* markup2irc's scanner cuts it out between '<' and '>', or one character.*)
(***************************************************************************)
EXTENDS Integers, Sequences, SequencesExt

CONSTANTS
  Inputs     \* the strings irc2markup is called with

BOLD  == "^B"   \* \002
COLOR == "^C"   \* \003
BELL  == "^G"   \* \007, and \026, which takes the same case
RESET == "^O"   \* \017
ULINE == "^_"   \* \037
NUL   == "\\0"  \* the terminator *cur reads past the last symbol

\* strpbrk's set (util.cpp:209).  \011 is not in it, so the case '\011'
\* (italic) is never reached, italic stays FALSE and is left out here.
Ctrl == {BOLD, COLOR, BELL, RESET, ULINE}

DigitVal == [d \in {"0", "1", "2"} |-> CASE d = "0" -> 0 [] d = "1" -> 1 [] d = "2" -> 2]
Digits == DOMAIN DigitVal

\* irc_colors (util.cpp:168-191): name and two-digit num of colours 0..15.
ColorNames == <<"white", "black", "blue", "dark green", "red", "brown",
                "purple", "orange", "yellow", "green", "teal", "cyan",
                "light blue", "pink", "grey", "light grey">>
ColorName(n) == ColorNames[n + 1]
ColorNum(name) == CHOOSE n \in 0..15 : ColorName(n) = name
NumSyms(n) == <<CHOOSE d \in Digits : DigitVal[d] = n \div 10,
                CHOOSE d \in Digits : DigitVal[d] = n % 10>>
NoColor == "none"

\* Markup tokens.
Text(c) == [k |-> "text", c |-> c]
Tag(k) == [k |-> k]
Font(fg, bg) == [k |-> "<FONT>", fg |-> fg, bg |-> bg]

-----------------------------------------------------------------------------
(* The parse of one colour code: up to two digits of foreground, an        *)
(* optional ',', up to two digits of background (util.cpp:227-237).  p is  *)
(* the index after the \003; atoi is the decimal value of the digits.      *)
DigitsAt(s, p) ==
  IF p <= Len(s) /\ s[p] \in Digits
  THEN IF p + 1 <= Len(s) /\ s[p + 1] \in Digits THEN 2 ELSE 1
  ELSE 0
atoi(ds) == IF Len(ds) = 1 THEN DigitVal[ds[1]] ELSE 10 * DigitVal[ds[1]] + DigitVal[ds[2]]

ColorCode(s, p) ==
  LET nf    == DigitsAt(s, p)
      q     == p + nf
      comma == q <= Len(s) /\ s[q] = ","
      r     == IF comma THEN q + 1 ELSE q
      nb    == IF comma THEN DigitsAt(s, r) ELSE 0
  IN  [fg   |-> IF nf > 0 THEN atoi(SubSeq(s, p, q - 1)) ELSE -1,
       bg   |-> IF nb > 0 THEN atoi(SubSeq(s, r, r + nb - 1)) ELSE -1,
       next |-> r + nb]

-----------------------------------------------------------------------------
VARIABLES
  str,        \* the argument string
  cur,        \* index of *cur; Len(str) + 1 is the terminator
  decoded,    \* the GString built so far, as markup tokens
  bold, underline, font,
  done        \* the loop has exited and the string is returned

vars == <<str, cur, decoded, bold, underline, font, done>>

Init ==
  /\ str \in Inputs
  /\ cur = 1
  /\ decoded = <<>>
  /\ bold = FALSE /\ underline = FALSE /\ font = FALSE
  /\ done = FALSE

\* strpbrk: the index of the next control character, or the terminator.
End == LET C == {j \in cur..Len(str) : str[j] \in Ctrl}
       IN  IF C = {} THEN Len(str) + 1 ELSE CHOOSE j \in C : \A i \in C : j <= i
At == IF End > Len(str) THEN NUL ELSE str[End]
\* The escaped text run before it, appended first in every iteration.
Lead == decoded \o [j \in 1..(End - cur) |-> Text(str[cur + j - 1])]

\* One pass of the loop body ends with cur at c; while (*cur) exits there
\* if c is the terminator, without going through case '\000'.
Continue(c) == cur' = c /\ done' = (c > Len(str))

\* The closing tags of case '\000', in the code's order.
Closes == (IF bold THEN <<Tag("</B>")>> ELSE <<>>)
          \o (IF underline THEN <<Tag("</U>")>> ELSE <<>>)
          \o (IF font THEN <<Tag("</FONT>")>> ELSE <<>>)

Bold ==
  /\ ~done /\ At = BOLD
  /\ decoded' = Lead \o <<IF bold THEN Tag("</B>") ELSE Tag("<B>")>>
  /\ bold' = ~bold
  /\ Continue(End + 1)
  /\ UNCHANGED <<str, underline, font>>

Underline ==
  /\ ~done /\ At = ULINE
  /\ decoded' = Lead \o <<IF underline THEN Tag("</U>") ELSE Tag("<U>")>>
  /\ underline' = ~underline
  /\ Continue(End + 1)
  /\ UNCHANGED <<str, bold, font>>

\* Mutant: an open FONT is closed only when another one opens.
ColorCloseOnOpen ==
  /\ ~done /\ At = COLOR
  /\ LET cc   == ColorCode(str, End + 1)
         open == cc.fg \in 0..15
         tag  == Font(ColorName(cc.fg),
                      IF cc.bg \in 0..15 THEN ColorName(cc.bg) ELSE NoColor)
     IN  /\ decoded' = Lead \o (IF open /\ font THEN <<Tag("</FONT>")>> ELSE <<>>)
                            \o (IF open THEN <<tag>> ELSE <<>>)
         /\ font' = (open \/ font)
         /\ Continue(cc.next)
  /\ UNCHANGED <<str, bold, underline>>

(* case '\003': an open FONT is closed; a foreground of 0..15 opens a new  *)
(* one, with BACK when the background is 0..15 too.  A foreground over 15  *)
(* continues the loop with no FONT open.                                    *)
Color ==
  /\ ~done /\ At = COLOR
  /\ LET cc   == ColorCode(str, End + 1)
         open == cc.fg \in 0..15
         tag  == Font(ColorName(cc.fg),
                      IF cc.bg \in 0..15 THEN ColorName(cc.bg) ELSE NoColor)
     IN  /\ decoded' = Lead \o (IF font THEN <<Tag("</FONT>")>> ELSE <<>>)
                            \o (IF open THEN <<tag>> ELSE <<>>)
         /\ font' = open
         /\ Continue(cc.next)
  /\ UNCHANGED <<str, bold, underline>>

\* Mutant: the code is taken as two characters wide.
IgnoreTwo ==
  /\ ~done /\ At = BELL
  /\ decoded' = Lead
  /\ Continue(End + 2)
  /\ UNCHANGED <<str, bold, underline, font>>

\* case '\007' and '\026': the code is dropped.
Ignore ==
  /\ ~done /\ At = BELL
  /\ decoded' = Lead
  /\ Continue(End + 1)
  /\ UNCHANGED <<str, bold, underline, font>>

\* case '\017' falls through to '\000': every open tag is closed, and the
\* flags are left as they were.
Reset ==
  /\ ~done /\ At = RESET
  /\ decoded' = Lead \o Closes
  /\ Continue(End + 1)
  /\ UNCHANGED <<str, bold, underline, font>>

\* case '\000': the text ran to the end; open tags are closed and the loop
\* exits.
Terminator ==
  /\ ~done /\ At = NUL
  /\ decoded' = Lead \o Closes
  /\ cur' = End /\ done' = TRUE
  /\ UNCHANGED <<str, bold, underline, font>>

Next == Bold \/ Underline \/ Color \/ Ignore \/ Reset \/ Terminator

Spec == Init /\ [][Next]_vars

-----------------------------------------------------------------------------
(* markup2irc (util.cpp:306-443), token by token: <B> and </B> become      *)
(* \002, <U> and </U> \037, <I> and </I> "\037\002", </FONT> \003, a FONT  *)
(* tag \003 with the num of its COLOR and, after ',', of its BACK, found   *)
(* by name in irc_colors; a FONT tag with no known COLOR is dropped.  Text *)
(* is copied.  purple_markup_strip_html then has no tag left to strip.      *)
Tag2Irc(t) ==
  CASE t.k = "text"              -> <<t.c>>
    [] t.k \in {"<B>", "</B>"}   -> <<BOLD>>
    [] t.k \in {"<U>", "</U>"}   -> <<ULINE>>
    [] t.k \in {"<I>", "</I>"}   -> <<ULINE, BOLD>>
    [] t.k = "</FONT>"           -> <<COLOR>>
    [] t.k = "<FONT>"            ->
         IF t.fg = NoColor THEN <<>>
         ELSE <<COLOR>> \o NumSyms(ColorNum(t.fg))
              \o (IF t.bg = NoColor THEN <<>> ELSE <<",">> \o NumSyms(ColorNum(t.bg)))

markup2irc(m) == FlattenSeq([i \in 1..Len(m) |-> Tag2Irc(m[i])])

-----------------------------------------------------------------------------
(* Reference readings.  A displayed character is [c, b, u, fg, bg], fg    *)
(* and bg -1 when uncoloured.                                              *)
(*                                                                         *)
(* An IRC string: \002 and \037 toggle bold and underline, \017 turns     *)
(* every attribute off, \007 shows nothing, and a colour code sets both   *)
(* colours, a number over 15 or a missing one meaning none (the code's   *)
(* own reading of the digits, ColorCode, is taken as the convention).     *)
Plain == [b |-> FALSE, u |-> FALSE, fg |-> -1, bg |-> -1]

RECURSIVE IrcShown(_, _, _)
IrcShown(s, i, st) ==
  IF i > Len(s) THEN <<>>
  ELSE CASE s[i] = BOLD  -> IrcShown(s, i + 1, [st EXCEPT !.b = ~@])
         [] s[i] = ULINE -> IrcShown(s, i + 1, [st EXCEPT !.u = ~@])
         [] s[i] = RESET -> IrcShown(s, i + 1, Plain)
         [] s[i] = BELL  -> IrcShown(s, i + 1, st)
         [] s[i] = COLOR ->
              LET cc == ColorCode(s, i + 1)
                  fg == IF cc.fg \in 0..15 THEN cc.fg ELSE -1
                  bg == IF fg # -1 /\ cc.bg \in 0..15 THEN cc.bg ELSE -1
              IN  IrcShown(s, cc.next, [st EXCEPT !.fg = fg, !.bg = bg])
         [] OTHER -> <<[c |-> s[i], b |-> st.b, u |-> st.u, fg |-> st.fg, bg |-> st.bg]>>
                     \o IrcShown(s, i + 1, st)

IrcDisplay(s) == IrcShown(s, 1, Plain)

(* A markup string, as an HTML renderer shows it: a character is bold     *)
(* while more <B> than </B> precede it, an end tag with nothing open is   *)
(* ignored, and its colours are those of the innermost open FONT.         *)
RECURSIVE HtmlShown(_, _, _)
HtmlShown(m, i, st) ==
  IF i > Len(m) THEN <<>>
  ELSE LET t == m[i]
           dec(n) == IF n > 0 THEN n - 1 ELSE 0
       IN CASE t.k = "text" ->
                 LET f == IF st.fonts = <<>> THEN Font(NoColor, NoColor) ELSE Last(st.fonts)
                     num(n) == IF n = NoColor THEN -1 ELSE ColorNum(n)
                 IN  <<[c |-> t.c, b |-> st.b > 0, u |-> st.u > 0,
                        fg |-> num(f.fg), bg |-> num(f.bg)]>> \o HtmlShown(m, i + 1, st)
            [] t.k = "<B>"     -> HtmlShown(m, i + 1, [st EXCEPT !.b = @ + 1])
            [] t.k = "</B>"    -> HtmlShown(m, i + 1, [st EXCEPT !.b = dec(@)])
            [] t.k = "<U>"     -> HtmlShown(m, i + 1, [st EXCEPT !.u = @ + 1])
            [] t.k = "</U>"    -> HtmlShown(m, i + 1, [st EXCEPT !.u = dec(@)])
            [] t.k = "<FONT>"  -> HtmlShown(m, i + 1, [st EXCEPT !.fonts = Append(@, t)])
            [] t.k = "</FONT>" ->
                 HtmlShown(m, i + 1, [st EXCEPT !.fonts = IF @ = <<>> THEN @ ELSE Front(@)])
            [] OTHER -> HtmlShown(m, i + 1, st)

HtmlDisplay(m) == HtmlShown(m, 1, [b |-> 0, u |-> 0, fonts |-> <<>>])

-----------------------------------------------------------------------------
Tokens == {Text(c) : c \in Digits \cup {"x", ","}}
          \cup {Tag(k) : k \in {"<B>", "</B>", "<U>", "</U>", "</FONT>"}}
          \cup {Font(ColorName(f), b) : f \in 0..15, b \in {NoColor} \cup {ColorName(n) : n \in 0..15}}

TypeOK ==
  /\ cur \in 1..Len(str) + 1
  /\ decoded \in Seq(Tokens)
  /\ {bold, underline, font, done} \subseteq BOOLEAN

(* What irc2markup returns shows the characters of its argument, each in  *)
(* the colours the IRC codes give it, whatever bold, underline and \017    *)
(* codes come between.  It is about case '\003' closing the open FONT     *)
(* before it parses the digits, opening one only for a foreground of 0..15,*)
(* and the extra </FONT> a stale font flag writes after \017.              *)
Coloured(d) == [i \in DOMAIN d |-> <<d[i].c, d[i].fg, d[i].bg>>]
ColoursFaithful == done => Coloured(HtmlDisplay(decoded)) = Coloured(IrcDisplay(str))

(* What irc2markup returns displays what its argument displays: the same  *)
(* characters, each bold, underlined and coloured as the IRC codes say.   *)
(* It is about the flags the switch of irc2markup keeps and the tags it   *)
(* writes from them, the FONT it closes before every colour code, and the *)
(* closing tags case '\017' writes without clearing the flags.            *)
MarkupFaithful == done => HtmlDisplay(decoded) = IrcDisplay(str)

(* Converting back with markup2irc gives a string that displays the same  *)
(* as the original.  It is about markup2irc writing </FONT> as a bare     *)
(* \003, which a following digit of text extends into a colour code.      *)
MarkupRoundTrip == done => IrcDisplay(markup2irc(decoded)) = IrcDisplay(str)

(* When irc2markup returns, every tag it opened is closed, so the markup  *)
(* can be embedded in a conversation without styling what follows.  It is *)
(* about the do ... while loop exiting on a string that ends in a control *)
(* code without going through case '\000'.                                 *)
TagsClosed == done => /\ bold = FALSE /\ underline = FALSE /\ font = FALSE
=============================================================================
