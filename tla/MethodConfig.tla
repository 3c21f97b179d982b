---------------------------- MODULE MethodConfig ----------------------------
(***************************************************************************)
(* How a routing method gets its program (routing-service/internal/engine): *)
(* the registry writes the method's configuration as a small YAML text by   *)
(* hand, the expr and script providers parse that text by hand, compile     *)
(* what they read and keep the last program that compiled.  A text is a     *)
(* sequence of letters; the keys of the format are one letter each, and a   *)
(* program may contain all of them.  External: the compilers.               *)
(***************************************************************************)
EXTENDS SeqOps

CONSTANTS Letters,     \* what a program is written with
          MaxProgram,  \* bound: the length of a program
          NoSource

VARIABLES program,     \* the program of the configuration file, as edited so far
          active,      \* the source the provider runs, or NoSource
          lastGood     \* the last configured source that compiles, or NoSource

methodVars == <<program, active, lastGood>>

\* The characters the format gives a meaning.
NL == "nl"
Colon == ":"
Space == " "
Bar == "|"
----------------------------------------------------------------------------
\* Registry

\* The loop of splitLines: the lines ended so far and the text since.
Split(s) ==
    LET at[i \in 0..Len(s)] ==
          IF i = 0 THEN [lines |-> <<>>, last |-> <<>>]
          ELSE LET p == at[i - 1]
               IN  IF s[i] = NL THEN [lines |-> Append(p.lines, p.last), last |-> <<>>]
                   ELSE [lines |-> p.lines, last |-> Append(p.last, s[i])]
    IN  at[Len(s)]

\* splitLines: an unterminated last line counts, an empty one does not.
Lines(s) ==
    LET p == Split(s)
    IN  IF p.last = <<>> THEN p.lines ELSE Append(p.lines, p.last)

appendYAMLStr(key, val) == <<key, Colon, Space>> \o val \o <<NL>>

\* Mutant: empty lines are left without indentation, as YAML printers do.
appendYAMLBlockTrimmed(key, val) ==
    LET ls == Lines(val)
    IN  <<key, Colon, Space, Bar, NL>> \o
        FlattenSeq([i \in DOMAIN ls |->
                      IF ls[i] = <<>> THEN <<NL>> ELSE <<Space, Space>> \o ls[i] \o <<NL>>])

\* Every line of the program, the last one terminated, is indented by two.
appendYAMLBlock(key, val) ==
    LET ls == Lines(val)
    IN  <<key, Colon, Space, Bar, NL>> \o
        FlattenSeq([i \in DOMAIN ls |-> <<Space, Space>> \o ls[i] \o <<NL>>])

methodConfigBytes(cfg) ==
    appendYAMLStr("type", cfg.type)
      \o (IF cfg.program # <<>> THEN appendYAMLBlock("program", cfg.program) ELSE <<>>)
      \o (IF cfg.file # <<>> THEN appendYAMLStr("file", cfg.file) ELSE <<>>)
      \o (IF cfg.refresh # <<>> THEN appendYAMLStr("refresh", cfg.refresh) ELSE <<>>)
----------------------------------------------------------------------------
\* Providers

joinLines(ls) ==
    FlattenSeq([i \in DOMAIN ls |-> IF i > 1 THEN <<NL>> \o ls[i] ELSE ls[i]])

parseYAMLLine(line) ==
    IF Colon \notin Range(line) THEN [key |-> <<>>, val |-> <<>>]
    ELSE LET i == CHOOSE i \in DOMAIN line : line[i] = Colon /\ \A j \in 1..(i - 1) : line[j] # Colon
             v == SubSeq(line, i + 1, Len(line))
         IN  [key |-> SubSeq(line, 1, i - 1),
              val |-> IF v # <<>> /\ v[1] = Space THEN Tail(v) ELSE v]

Indented(line) == Len(line) >= 2 /\ line[1] = Space /\ line[2] = Space

\* One line of the parser's loop.
ParseLine(st, line) ==
    LET kv == parseYAMLLine(line)
        out == IF st.inBlock THEN [st EXCEPT !.inBlock = FALSE, !.program = joinLines(st.block)]
               ELSE st
    IN  IF st.inBlock /\ Indented(line)
        THEN [st EXCEPT !.block = Append(@, SubSeq(line, 3, Len(line)))]
        ELSE CASE kv.key = <<"program">> /\ kv.val = <<Bar>> ->
                    [out EXCEPT !.inBlock = TRUE, !.block = <<>>]
               [] kv.key = <<"program">> /\ kv.val # <<Bar>> -> [out EXCEPT !.program = kv.val]
               [] kv.key = <<"file">> -> [out EXCEPT !.file = kv.val]
               [] OTHER -> out

\* The parser's loop.
ParseLines(ls) ==
    LET at[i \in 0..Len(ls)] ==
          IF i = 0 THEN [inBlock |-> FALSE, block |-> <<>>, program |-> <<>>, file |-> <<>>]
          ELSE ParseLine(at[i - 1], ls[i])
    IN  at[Len(ls)]

\* NoSource is the error "config must specify program or file"; a file is read: its
\* content is written here as its name.
extractSource(raw) ==
    LET st == ParseLines(Lines(raw))
        src == IF st.inBlock THEN joinLines(st.block) ELSE st.program
    IN  IF src # <<>> THEN src ELSE IF st.file # <<>> THEN st.file ELSE NoSource

Compiles(src) == src # NoSource /\ "x" \in Range(src)

\* Build a method from its configuration: LoadConfig keeps the active program
\* when the text names no source or the source does not compile.
LoadConfig(cfg) ==
    LET src == extractSource(methodConfigBytes(cfg))
    IN  active' = IF Compiles(src) THEN src ELSE active
----------------------------------------------------------------------------
Chomp(s) == IF s # <<>> /\ Last(s) = NL THEN Front(s) ELSE s
Source(cfg) == IF cfg.program # <<>> THEN Chomp(cfg.program) ELSE cfg.file

\* Validate lets through a method with exactly one of program and file.
Valid(cfg) == (cfg.program = <<>>) # (cfg.file = <<>>)

EditProgram(c) ==
    /\ Len(program) < MaxProgram
    /\ program' = Append(program, c)
    /\ UNCHANGED <<active, lastGood>>

\* The service reads its configuration: an inline program, or a file.
Configure(type, file) ==
    LET cfg == [type |-> type, program |-> IF file THEN <<>> ELSE program,
                file |-> IF file THEN <<"x", "f">> ELSE <<>>, refresh |-> <<"9", "s">>]
    IN  /\ Valid(cfg)
        /\ LoadConfig(cfg)
        /\ lastGood' = IF Compiles(Source(cfg)) THEN Source(cfg) ELSE lastGood
        /\ UNCHANGED program

MethodInit == program = <<>> /\ active = NoSource /\ lastGood = NoSource

MethodNext ==
    \/ \E c \in Letters : EditProgram(c)
    \/ \E type \in {<<"expr">>, <<"script">>}, file \in BOOLEAN : Configure(type, file)

MethodSpec == MethodInit /\ [][MethodNext]_methodVars

\* Through the hand-written text and the hand-written parser, the provider runs
\* exactly the last configured program that compiles, without its final newline:
\* whatever blank lines, indentation, colons or keys of the format it contains.
SourceSurvives == active = lastGood
============================================================================
