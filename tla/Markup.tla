------------------------------ MODULE Markup ------------------------------
(* MDToHTML (internal/telegram/bot/markup.go), which every page and message*)
(* passes on its way to Telegram, and the pages that put into it what they *)
(* read from the Mac or the user.                                          *)
(*                                                                         *)
(* A text is a sequence of marks and of "x", which stands for any text     *)
(* without a mark; html.EscapeString does not touch marks.                 *)
EXTENDS Naturals, Sequences, FiniteSets, SequencesExt

CONSTANTS MaxLen,  \* bound: the length of what is put into a page
          Pages    \* bound: the pages to look at

ASSUME MaxLenAssumption == MaxLen \in Nat

ASSUME PagesAssumption ==
  Pages \subseteq {"status", "boot ping", "wifi", "wifi note", "error", "dump",
                   "disk", "unknown disk", "cpu"}

VARIABLES page,  \* the page that is composed
          texts, \* the two texts it puts in
          html   \* what is sent, once it is

vars == <<page, texts, html>>

(* A backtick, a star and an underscore; a fence is three backticks in a   *)
(* row.                                                                    *)
Marks == {"tick", "star", "line"}
Fence == "fence"

(* The tags of each mark. *)
Open == [m \in Marks \cup {Fence} |->
          CASE m = Fence -> "<pre>" [] m = "tick" -> "<code>"
            [] m = "star" -> "<b>" [] m = "line" -> "<i>"]

Close == [m \in Marks \cup {Fence} |->
           CASE m = Fence -> "</pre>" [] m = "tick" -> "</code>"
             [] m = "star" -> "</b>" [] m = "line" -> "</i>"]
---------------------------------------------------------------------------
(* strings.Split finds a fence at every third backtick of a row of them.   *)
RowBefore(s, i) ==
  Cardinality({j \in 1..(i - 1) : \A k \in j..(i - 1) : s[k] = "tick"})

Found(s, mark) ==
  IF mark = Fence
  THEN {i \in 1..(Len(s) - 2) :
          (\A k \in i..(i + 2) : s[k] = "tick") /\ RowBefore(s, i) % 3 = 0}
  ELSE {i \in DOMAIN s : s[i] = mark}

Rank(D, i) == Cardinality({j \in D : j < i})

(* Every place of the text gives a piece of the result: an open or a close *)
(* tag in turn for the places in D, nothing for the rest of a fence.       *)
Tagged(s, mark, D) ==
  FlattenSeq(
    [i \in DOMAIN s |->
       IF i \in D
       THEN <<IF Rank(D, i) % 2 = 0 THEN Open[mark] ELSE Close[mark]>>
       ELSE IF mark = Fence /\ (i - 1 \in D \/ i - 2 \in D) THEN <<>>
       ELSE <<s[i]>>])

(* Mutant: an orphan opens a tag like any other mark. *)
Alternate_Orphan(s, mark) == Tagged(s, mark, Found(s, mark))

(* Mutant: an orphan is dropped. *)
Alternate_Drops(s, mark) ==
  LET D == Found(s, mark)
      usable == (Cardinality(D) \div 2) * 2
      kept == {i \in DOMAIN s : i \notin D \/ Rank(D, i) < usable}
  IN Tagged([k \in 1..Cardinality(kept) |->
               s[CHOOSE i \in kept : Rank(kept, i) = k - 1]], mark,
            {k \in 1..Cardinality(kept) :
               (CHOOSE i \in kept : Rank(kept, i) = k - 1) \in D})

(* alternate: the marks that have a partner become tags. *)
Alternate(s, mark) ==
  LET D == Found(s, mark)
      usable == (Cardinality(D) \div 2) * 2
  IN Tagged(s, mark, {i \in D : Rank(D, i) < usable})

MDToHTML(s) ==
  Alternate(Alternate(Alternate(Alternate(s, Fence), "tick"), "star"), "line")
---------------------------------------------------------------------------
(* Pages. *)
Text == <<"x">>
Bold(t) == <<"star">> \o t \o <<"star">>
Italic(t) == <<"line">> \o t \o <<"line">>
Code(t) == <<"tick">> \o t \o <<"tick">>

(* Code of handler.go, which has lines of their own for the fences. *)
Fenced(t) == <<"tick", "tick", "tick", "x">> \o t \o <<"x", "tick", "tick", "tick">>

(* A title, and what follows it. *)
Titled(body) == Bold(Text) \o Text \o body

(* renderStatus: model, host and SSID; here the first two. *)
Status(a, b) ==
  Titled(Code(a) \o Text \o Code(b) \o Text \o Code(Text) \o Text \o Code(Text))

(* BootPing: a title, the status and the summary of the capabilities. *)
BootPing(a, b) == Titled(Status(a, b) \o Text \o Italic(Text))

(* The header of a Wi-Fi page: SSID and interface. *)
WiFi(a, b) == Titled(Code(Text) \o Text \o Code(a) \o Text \o Code(b))

(* The same with a note below, after a change of DNS. *)
WiFiNote(a, b) == WiFi(a, b) \o Text \o Italic(Text)

(* errEdit: the header and the error. *)
ErrorPage(a, b) == Titled(Code(a \o Text \o b))

(* The clipboard, and the diagnostics of Wi-Fi. *)
Dump(a, b) == Titled(Fenced(a \o Text \o b))

(* A disk: its name, what is known of it, and whether it is internal.  If  *)
(* diskutil could not be parsed, the mount path and the output.            *)
DiskPage(a, b) == Bold(a) \o Text \o Code(b) \o Text \o Italic(Text)
UnknownDisk(a, b) == Bold(a) \o Text \o Italic(Text) \o Text \o Fenced(b)

(* CPU: the line of top if it could not be parsed, and a footer. *)
CPUPage(a, b) == Titled(a \o Text \o b \o Text \o Italic(Text))

Compose(p, t) ==
  CASE p = "status" -> Status(t[1], t[2])
    [] p = "boot ping" -> BootPing(t[1], t[2])
    [] p = "wifi" -> WiFi(t[1], t[2])
    [] p = "wifi note" -> WiFiNote(t[1], t[2])
    [] p = "error" -> ErrorPage(t[1], t[2])
    [] p = "dump" -> Dump(t[1], t[2])
    [] p = "disk" -> DiskPage(t[1], t[2])
    [] p = "unknown disk" -> UnknownDisk(t[1], t[2])
    [] p = "cpu" -> CPUPage(t[1], t[2])

Texts == SeqOf(Marks \cup {"x"}, MaxLen)

Init == page \in Pages /\ texts \in Texts \X Texts /\ html = <<>>

(* Reply.Send, Reply.Edit and the replies of flows. *)
Send ==
  /\ html = <<>>
  /\ html' = MDToHTML(Compose(page, texts))
  /\ UNCHANGED <<page, texts>>

Next == Send

Spec == Init /\ [][Next]_vars
---------------------------------------------------------------------------
(* What Telegram makes of it: each close tag closes the last one open, and *)
(* none stays open.                                                        *)
Read(stack, c) ==
  CASE \E m \in DOMAIN Open : c = Open[m] -> Append(stack, c)
    [] \E m \in DOMAIN Close : c = Close[m] ->
         IF stack # <<>> /\ \E m \in DOMAIN Close :
                              c = Close[m] /\ Last(stack) = Open[m]
         THEN Front(stack)
         ELSE Append(stack, "wrong")
    [] OTHER -> stack

Nests(h) ==
  LET stack[i \in 0..Len(h)] == IF i = 0 THEN <<>> ELSE Read(stack[i - 1], h[i])
  IN stack[Len(h)] = <<>>

(* The text that tags stand for. *)
Unmarked(h) ==
  FlattenSeq([i \in DOMAIN h |->
    IF h[i] \in {"<pre>", "</pre>"} THEN <<"tick", "tick", "tick">>
    ELSE IF \E m \in Marks : h[i] \in {Open[m], Close[m]}
    THEN <<CHOOSE m \in Marks : h[i] \in {Open[m], Close[m]}>>
    ELSE <<h[i]>>])

MarksIn(t) == Cardinality({i \in DOMAIN t : t[i] \in Marks})

Sent == html # <<>>

(* The conversion only puts tags for marks: whatever the texts, in whatever*)
(* order the four passes find their marks, nothing is lost, doubled or     *)
(* moved.                                                                  *)
TextSurvives == Sent => Unmarked(html) = Compose(page, texts)

(* One mark in all that a page was given, such as the underscore of a      *)
(* process or of an SSID, cannot spoil it, on the pages without italics of *)
(* their own: one that has them may get crossing tags.                     *)
OneMarkIsHarmless ==
  Sent /\ page \in {"status", "wifi", "error", "dump"} /\ MarksIn(texts[1] \o texts[2]) <= 1
    => Nests(html)
===========================================================================
