------------------------------ MODULE ConfigFile ------------------------------
(***************************************************************************)
(* What the add-on writes into Home Assistant's configuration.yaml: the    *)
(* sections of the voice assistants, and the settings of the http section. *)
(* The file is edited line by line, never parsed (configmanager.py).       *)
(*                                                                         *)
(* A line is its indentation, the word that the code looks for in it and   *)
(* whether it is commented out: the code finds the word all the same.      *)
(***************************************************************************)
EXTENDS Integers, Sequences, SequencesExt

Line(ind, key) == [ind |-> ind, key |-> key, off |-> FALSE]
Comment(ind, key) == [ind |-> ind, key |-> key, off |-> TRUE]
Blank == Line(0, "blank")
Newline == -1       \* "the indentation" of a blank line: the newline itself

Docker == {"docker", "docker_old"}          \* lines with the prefix 172.30
UseXForwardedFor == {"xff_true", "xff_false"}

(* lineLower.startswith: only an exact line opens a section. *)
Begins(line, key) == line = Line(0, key)
(* lineLower[0].isalnum() *)
Alnum(line) == line.ind = 0 /\ ~line.off /\ line.key \notin Docker \union {"blank", "ip"}

Indent(line) == IF line = Blank THEN Newline ELSE line.ind
Width(indent) == IF indent = Newline THEN 1 ELSE indent
(* f"{indent}{indent}- ..." *)
Twice(indent) == IF indent = Newline THEN Newline ELSE 2 * indent
(* A line written after a newline for an indentation starts at the margin. *)
Written(indent, key) == IF indent = Newline THEN <<Blank, Line(0, key)>> ELSE <<Line(indent, key)>>

(* The index of the first line from i on that fails the test, or one past the end. *)
Until(file, i, Stop(_)) ==
    LET after == SelectInSeq(SubSeq(file, i, Len(file)), Stop)
    IN IF after = 0 THEN Len(file) + 1 ELSE i + after - 1

-----------------------------------------------------------------------------
(* _UpdateAssistantConfigIfNeeded: the sections that are missing go to the end. *)

Has(file, key) == \E i \in DOMAIN file : Begins(file[i], key)
Section(file, key) == IF Has(file, key) THEN << >> ELSE <<Line(0, key), Line(2, "setting")>>

UpdateAssistants(file) ==
    IF Has(file, "alexa") /\ Has(file, "google_assistant") THEN file
    ELSE file \o <<Blank>> \o Section(file, "alexa") \o Section(file, "google_assistant") \o <<Blank>>

-----------------------------------------------------------------------------
(* _UpdateHttpConfigIfNeeded *)

HttpSection ==
    <<Blank, Comment(0, "added"), Line(0, "http"), Line(2, "xff_true"), Line(2, "proxies"),
      Line(4, "docker"), Line(4, "ip"), Line(4, "ip"),
      Line(2, "ip_ban"), Line(2, "threshold"), Blank>>

Header(file) == SelectInSeq(file, LAMBDA l : Begins(l, "http"))
SectionEnd(file) == Until(file, Header(file) + 1, Alnum)

(* The last line of the section with the word, or 0: None. *)
Find(file, keys) ==
    LET inSection == {i \in Header(file) + 1 .. SectionEnd(file) - 1 : file[i].key \in keys}
    IN IF inSection = {} THEN 0 ELSE CHOOSE i \in inSection : \A j \in inSection : j <= i

SingleIndent(file) ==
    IF SectionEnd(file) = Header(file) + 1 THEN 2 ELSE Indent(file[Header(file) + 1])

(* The list of trusted proxies goes on while the lines are indented enough. *)
ProxyLines(file, proxies) ==
    LET leaves(l) == Alnum(l) \/ Width(Indent(l)) < 2 * Width(SingleIndent(file))
    IN proxies + 1 .. Until(file, proxies + 1, leaves) - 1

ListIndent(file, proxies) ==
    IF ProxyLines(file, proxies) = {} THEN Twice(SingleIndent(file)) ELSE Indent(file[proxies + 1])

(* The first line of the list with the prefix of Docker's network, or 0. *)
DockerLine(file, proxies) ==
    LET found == {i \in ProxyLines(file, proxies) : file[i].key \in Docker}
    IN IF found = {} THEN 0 ELSE CHOOSE i \in found : \A j \in found : i <= j

(* Lines that exist and are wrong are replaced where they are. *)
Corrected(file) ==
    LET xff == Find(file, UseXForwardedFor)
        proxies == Find(file, {"proxies"})
        docker == IF proxies = 0 THEN 0 ELSE DockerLine(file, proxies)
    IN [i \in DOMAIN file |->
          IF i = xff /\ file[i].key = "xff_false" THEN Line(Width(SingleIndent(file)), "xff_true")
          ELSE IF i = docker /\ file[i].key = "docker_old" THEN Line(Width(ListIndent(file, proxies)), "docker")
          ELSE file[i]]

(* linesToAppendAfterHttpHeader: what is missing. A ban that is there is left as it is. *)
AfterHeader(file) ==
    LET one == SingleIndent(file)
        two == Twice(one)
        IfMissing(keys, lines) == IF Find(file, keys) = 0 THEN lines ELSE << >>
    IN <<IfMissing(UseXForwardedFor, <<Written(one, "xff_true")>>),
         IfMissing({"proxies"}, <<Written(one, "proxies"), Written(two, "docker"),
                                  Written(two, "ip"), Written(two, "ip")>>),
         IfMissing({"ip_ban"}, <<Written(one, "ip_ban")>>),
         IfMissing({"threshold"}, <<Written(one, "threshold")>>)>>

(* linesToAppendAfterTrustedProxy *)
AfterProxies(file) ==
    LET proxies == Find(file, {"proxies"})
    IN IF proxies = 0 \/ DockerLine(file, proxies) # 0 THEN << >>
       ELSE <<Written(ListIndent(file, proxies), "docker")>>

InsertAfter(file, i, lines) == SubSeq(file, 1, i) \o lines \o SubSeq(file, i + 1, Len(file))

(* trustedProxiesLineNumber is the line's number before the first insertion. A
   newline for an indentation makes two lines when the file is read again.     *)
UpdateHttp(file) ==
    IF Header(file) = 0 THEN file \o HttpSection
    ELSE LET fixed == [i \in DOMAIN file |-> <<Corrected(file)[i]>>]
             first == InsertAfter(fixed, Header(file), FlattenSeq(AfterHeader(file)))
             second == IF AfterProxies(file) = << >> THEN first
                       ELSE InsertAfter(first, Find(file, {"proxies"}), AfterProxies(file))
         IN FlattenSeq(second)

=============================================================================
