---------------------------- MODULE Configuration ----------------------------
(***************************************************************************)
(* How the daemon's configuration comes from its arguments and the lines   *)
(* of its file (config.c), and how a file name comes from a directory      *)
(* (_concat_path of fsdb.c).  All of it runs once, before any thread, so   *)
(* it is a function here, and compared with what is meant.                 *)
(*                                                                         *)
(* The definitions just before Trimmed, Argument and Concat, with the same *)
(* parameters, are wrong forms of them: the properties are shown to fail   *)
(* when one takes its place.                                               *)
(***************************************************************************)
EXTENDS Naturals, SequencesExt

CONSTANT BufferSize                  \* CONFIG_MAX_BUFFER

ASSUME BufferAssumption == BufferSize \in Nat \ {0}

-----------------------------------------------------------------------------
(* A line of the file: what _parse_file hands to _assign_config of it, and   *)
(* what that makes of the value.                                             *)

Blanks == {"sp", "tab", "cr", "nl"}
Quotes == {"double", "single"}

TrimmedAtEnd(chr, str) ==
  SubSeq(str, 1, SelectLastInSeq(str, LAMBDA x : x # chr))
(* _trim; a string of nothing but chr is left alone. *)
Trimmed(chr, str) ==
  LET first == SelectInSeq(str, LAMBDA x : x # chr)
      last  == SelectLastInSeq(str, LAMBDA x : x # chr)
  IN  IF first = 0 THEN str ELSE SubSeq(str, first, last)
Bare(str) == Trimmed("nl", Trimmed("cr", Trimmed("tab", Trimmed("sp", str))))
Side(str) == Trimmed("tab", Trimmed("sp", str))
Unquoted(str) == Trimmed("single", Trimmed("double", str))

\* fgets: of a longer line the beginning; the rest is read as a line of its own.
Read(line) == IF Len(line) < BufferSize THEN line ELSE SubSeq(line, 1, BufferSize - 1)

Comments == {"#", ";", "["}
Skipped == <<>>
Assignment(line) ==
  LET buffer == Bare(Read(line))
      eq     == SelectInSeq(buffer, LAMBDA x : x = "=")
  IN  IF eq = 0 \/ buffer[1] \in Comments
        THEN Skipped
        ELSE <<Side(SubSeq(buffer, 1, eq - 1)),
               Unquoted(Side(SubSeq(buffer, eq + 1, Len(buffer))))>>

\* The reference: a line as it is written, part after part.
Quoted(p) == p.open \o p.value \o p.close
Line(p) ==
  p.lead \o p.key \o p.gap \o <<"=">> \o p.space \o Quoted(p) \o p.trail \o p.end

\* Characters c, and then characters d.
Runs(c, d, str) ==
  \E n \in 0 .. Len(str) : \A i \in DOMAIN str : str[i] = IF i <= n THEN c ELSE d
Bounded(S, str) == str # <<>> /\ str[1] \notin S /\ str[Len(str)] \notin S

\* Seen from the key or the value, tabs stand before spaces and single quotes before
\* double ones; a carriage return before the newline belongs to the value, which
\* may end in blanks too if there is a quote behind them.
Laid(p) ==
  /\ Runs("sp", "tab", p.lead) /\ Runs("tab", "sp", p.gap)
  /\ Runs("sp", "tab", p.space) /\ Runs("tab", "sp", p.trail)
  /\ Runs("double", "single", p.open) /\ Runs("single", "double", p.close)
  /\ Bounded(Blanks, p.key) /\ \A i \in DOMAIN p.key : p.key[i] # "="
  /\ Bounded(Quotes, p.value) /\ Bounded(Blanks \ {"cr"}, Quoted(p))
  /\ \/ p.end = <<"nl">>
     \/ p.end = <<>> /\ Last(Quoted(p)) # "cr"

(* What reaches _assign_config of a line that fits in the buffer is the key  *)
(* and the value written there; a line that is commented out is skipped.     *)
LineTaken(p) ==
  Laid(p) /\ Len(Line(p)) < BufferSize =>
    Assignment(Line(p)) = IF p.key[1] \in Comments THEN Skipped ELSE <<p.key, p.value>>

-----------------------------------------------------------------------------
(* _parse_args, then _parse_file, with an option or a value per argument and *)
(* an option with its value per line.  A value is copied without its final   *)
(* zero byte, so that what is read back is the value and whatever bytes are  *)
(* behind it in memory: leftovers of an earlier value, others, or none.      *)

Options == {"config_file", "database_dir", "no_daemon"}
Flags == Options \cup {"unknown"}
Empty == ""
Values == {"one.ini", "other", Empty}
NoValue == "NULL"
Unset == <<>>
Enabled == <<"1">>
Defaults == [o \in Options |-> Unset]

(* _assign_config; no_daemon needs no value, and takes any. *)
Assigned(config, option, value, behind) ==
  IF option = "no_daemon" THEN [config EXCEPT !.no_daemon = Enabled]
  ELSE IF value \in {NoValue, Empty} THEN config
  ELSE [config EXCEPT ![option] = <<value, behind>>]

ArgumentToTheLast(args, behind, s) ==
  LET value == IF s.c = Len(args) \/ args[s.c + 1] \in Flags THEN NoValue ELSE args[s.c + 1]
  IN  IF args[s.c] \notin Options THEN [s EXCEPT !.c = @ + 1]
      ELSE [c |-> s.c + (IF value = NoValue THEN 1 ELSE 2),
            config |-> Assigned(s.config, args[s.c], value, behind[s.c])]
(* One round of the loop over the arguments; the last one is only skipped. *)
Argument(args, behind, s) ==
  IF s.c = Len(args) \/ args[s.c] \notin Options THEN [s EXCEPT !.c = @ + 1]
  ELSE IF args[s.c + 1] \in Flags
    THEN [c |-> s.c + 1, config |-> Assigned(s.config, args[s.c], NoValue, behind[s.c])]
    ELSE [c |-> s.c + 2, config |-> Assigned(s.config, args[s.c], args[s.c + 1], behind[s.c])]
ArgumentRounds(args, behind) ==
  LET after[n \in 0 .. Len(args)] ==
        IF n = 0 THEN [c |-> 1, config |-> Defaults]
        ELSE IF after[n - 1].c > Len(args) THEN after[n - 1]
        ELSE Argument(args, behind, after[n - 1])
  IN  after
FromArguments(args, behind) == ArgumentRounds(args, behind)[Len(args)].config

\* file: the lines of each configuration file by the name it is opened with;
\* aiqbd.ini unless another is named.
LinesOf(file, named) ==
  LET name == IF named = Unset THEN <<"aiqbd.ini", Empty>> ELSE named
  IN  IF name \in DOMAIN file THEN file[name] ELSE <<>>
LineRounds(lines, behind, config) ==
  LET after[n \in 0 .. Len(lines)] ==
        IF n = 0 THEN config
        ELSE Assigned(after[n - 1], lines[n][1], lines[n][2], behind[n])
  IN  after
FromFile(file, behind, config) ==
  LET lines == LinesOf(file, config.config_file)
  IN  LineRounds(lines, behind, config)[Len(lines)]

\* heap: the bytes behind the value of each argument and of each line.
Configured(args, file, heap) ==
  FromFile(file, heap.lines, FromArguments(args, heap.args))

\* The reference: the last line of the file wins, then the last argument.
Given(args, o) ==
  {i \in 1 .. (Len(args) - 1) : args[i] = o /\ args[i + 1] \notin Flags \cup {Empty}}
Argued(args, o, behind) ==
  IF Given(args, o) = {} THEN Unset
  ELSE <<args[Max(Given(args, o)) + 1], behind[Max(Given(args, o))]>>
Set(lines, o) == {i \in DOMAIN lines : lines[i][1] = o /\ lines[i][2] # Empty}
(* An option that is followed by a value, or has one in the file, is taken:  *)
(* what is stored begins with the value given last, the file being read      *)
(* after the arguments, and goes on with the bytes behind it.  no_daemon is  *)
(* taken wherever it is mentioned, but not as the last argument (config.c,   *)
(* 174).                                                                     *)
Followed(args, file, heap) ==
  LET config == Configured(args, file, heap)
      lines  == LinesOf(file, Argued(args, "config_file", heap.args))
  IN  /\ \A o \in Options \ {"no_daemon"} :
           config[o] = IF Set(lines, o) = {} THEN Argued(args, o, heap.args)
                       ELSE <<lines[Max(Set(lines, o))][2], heap.lines[Max(Set(lines, o))]>>
      /\ config.no_daemon = Enabled <=>
           \/ \E i \in DOMAIN lines : lines[i][1] = "no_daemon"
           \/ \E i \in 1 .. (Len(args) - 1) : args[i] = "no_daemon"

-----------------------------------------------------------------------------
(* _concat_path *)

ConcatOfAll(prefix, suffix) == prefix \o suffix
Concat(prefix, suffix) ==
  LET kept == SelectLastInSeq(prefix, LAMBDA x : x # "/")
  IN  (IF kept = 0 THEN <<".">> ELSE SubSeq(prefix, 1, kept)) \o <<"/">> \o suffix

\* Where a path leads: from the root or not, and by which names.
Absolute(path) == path # <<>> /\ path[1] = "/"
Ended(s) == IF s.name \in {<<>>, <<".">>} THEN s.names ELSE Append(s.names, s.name)
Walk(path) ==
  LET after[n \in 0 .. Len(path)] ==
        IF n = 0 THEN [names |-> <<>>, name |-> <<>>]
        ELSE IF path[n] = "/" THEN [names |-> Ended(after[n - 1]), name |-> <<>>]
        ELSE [names |-> after[n - 1].names, name |-> Append(after[n - 1].name, path[n])]
  IN  after
Names(path) == Ended(Walk(path)[Len(path)])
(* The name of a problem's file leads into the directory whatever slashes    *)
(* end that directory's name, unless it is the root.                         *)
LedInto(prefix, suffix) ==
  (\E i \in DOMAIN prefix : prefix[i] # "/") \/ prefix = <<>> =>
    /\ Absolute(Concat(prefix, suffix)) <=> Absolute(prefix)
    /\ Names(Concat(prefix, suffix)) = Append(Names(prefix), suffix)
=============================================================================
