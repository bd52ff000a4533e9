-------------------------------- MODULE Shell --------------------------------
(***************************************************************************)
(* The command shell of src/ProjectWOFuse/src/my_stubs.cc, main.  A session *)
(* at the keyboard records its dialogue and saves it with "exit"; a second *)
(* session is started on the saved file and plays it back.  What a stream  *)
(* holds is a sequence of words; a step is one read.                       *)
(***************************************************************************)
EXTENDS Integers, Sequences

CONSTANTS
  File,         \* a word that names a file
  Good, Bad,    \* a word that is a number, and one that is none
  MaxRecord     \* bound: no command is typed once the record has as many words

(* How an argument is read: from the script while that is good, or from    *)
(* the keyboard in any case; as a number or not; whether reset_cin is      *)
(* asked after it; and whether it is recorded.                             *)
Number == [script |-> TRUE, number |-> TRUE, checked |-> TRUE, kept |-> TRUE]
Word == [Number EXCEPT !.number = FALSE, !.checked = FALSE]
Unkept(arg) == [arg EXCEPT !.checked = FALSE, !.kept = FALSE]
Typed(arg) == [arg EXCEPT !.checked = FALSE, !.script = FALSE]

(* One operation for all that read their arguments as it does.             *)
Arguments ==
  [rmdir    |-> <<>>,                 \* and unlink, ls, lslr, show, lstat, readlink,
                                      \* cwd, statvfs, llistxattr
   mkdir    |-> <<Number>>,           \* and creat, touch, chmod, access
   chown    |-> <<Number, Number>>,
   rename   |-> <<Word>>,             \* and link
   symlink  |-> <<Unkept(Word)>>,
   pread    |-> <<Unkept(Number), Unkept(Number)>>,
   pwrite   |-> <<Unkept(Number), Typed(Word)>>,
   truncate |-> <<Typed(Unkept(Number))>>,
   utime    |-> <<Typed(Unkept(Number)), Typed(Unkept(Number))>>,
   lsetxattr    |-> <<Typed(Unkept(Word)), Typed(Unkept(Word))>>,
   lgetxattr    |-> <<Typed(Unkept(Word)), Typed(Unkept(Number))>>,
   lremovexattr |-> <<Typed(Unkept(Word))>>]

Op == DOMAIN Arguments
Wanted(op) == IF op \in Op THEN Arguments[op] ELSE <<>>
FullyKept(op) == \A k \in DOMAIN Wanted(op) : Wanted(op)[k].kept /\ Wanted(op)[k].script

(* What a read yields that fails: operator>> stores 0 for a word that is   *)
(* no number, and leaves its variable alone where there is no word.        *)
Zero == "0"
Nothing == ""
Values == Op \cup {File, Good, Bad, Zero, Nothing}

ASSUME ShellAssumption ==
  /\ MaxRecord \in Nat
  /\ Nothing \notin {File, Good, Bad}   \* operator>> never reads an empty word

VARIABLES
  session,   \* "first", "replay" or "over"
  script,    \* the words myin has still to give
  myin, cin, \* are the streams good?
  record,    \* the dialogue
  round,     \* what has been read in this round of the loop
  calls,     \* the calls made in this session: they are not in the program
  made,      \* the calls of the first session, once it is over
  faithful   \* how many of them precede the first loss of the record, or -1

vars == <<session, script, myin, cin, record, round, calls, made, faithful>>

Fresh == [at |-> "op", op |-> Nothing, file |-> Nothing, args |-> <<>>]

Init ==
  /\ session = "first" /\ script = <<>> /\ myin = FALSE /\ cin = TRUE
  /\ record = <<>> /\ round = Fresh
  /\ calls = <<>> /\ made = <<>> /\ faithful = -1

-----------------------------------------------------------------------------
(* Reads *)

Parses(arg, word) == arg.number => word \in {Good, Zero}

(* Mutant: the end of the script is not noticed. *)
FromScriptOnly(arg, v) ==
  \/ script = <<>> /\ v = Nothing /\ UNCHANGED <<script, myin>>
  \/ /\ script # <<>> /\ Parses(arg, Head(script))
     /\ v = Head(script) /\ script' = Tail(script) /\ UNCHANGED myin
  \/ /\ script # <<>> /\ ~Parses(arg, Head(script))
     /\ v = Zero /\ myin' = FALSE /\ UNCHANGED script

(* A script that has failed is not read again. *)
FromScript(arg, v) ==
  \/ script = <<>> /\ v = Nothing /\ myin' = FALSE /\ UNCHANGED script
  \/ /\ script # <<>> /\ Parses(arg, Head(script))
     /\ v = Head(script) /\ script' = Tail(script) /\ UNCHANGED myin
  \/ /\ script # <<>> /\ ~Parses(arg, Head(script))
     /\ v = Zero /\ myin' = FALSE /\ UNCHANGED script

(* A keyboard that has failed gives nothing. *)
FromKeyboard(typed, v) ==
  v \in (IF cin THEN typed ELSE {Nothing}) /\ UNCHANGED <<script, myin>>

(* Mutant: an empty word is recorded as one. *)
RecordedBlank(words, value) == Append(words, value)

(* An empty word is white space in the record, and white space is skipped. *)
Recorded(words, value) == IF value = Nothing THEN words ELSE Append(words, value)

-----------------------------------------------------------------------------
(* A round of the loop *)

(* The bound leaves a failed keyboard to go on: it adds nothing.           *)
ReadOp ==
  /\ round.at = "op" /\ session # "over"
  /\ IF session = "first"
     THEN /\ cin => Len(record) < MaxRecord
          /\ \E v \in Values : /\ FromKeyboard(Op \cup {Bad}, v)
                               /\ round' = [round EXCEPT !.at = "file", !.op = v]
     ELSE /\ myin
          /\ \E v \in Values : /\ FromScript(Word, v)
                               /\ round' = [round EXCEPT !.at = "file", !.op = v]
  /\ UNCHANGED <<session, cin, record, calls, made, faithful>>

(* From the stream of op: where that has failed, file stays empty.         *)
ReadFile ==
  /\ round.at = "file"
  /\ \E v \in Values :
       /\ \/ session = "first" /\ FromKeyboard({File}, v)
          \/ session = "replay" /\ myin /\ FromScript(Word, v)
          \/ session = "replay" /\ ~myin /\ v = Nothing /\ UNCHANGED <<script, myin>>
       /\ round' = [round EXCEPT !.at = "args", !.file = v]
       /\ record' = Recorded(Recorded(record, round.op), v)
  /\ UNCHANGED <<session, cin, calls, made, faithful>>

Loses == faithful' = IF session = "first" /\ faithful = -1 THEN Len(calls) ELSE faithful

(* Mutant: an argument that has been checked is not recorded. *)
KeepUnrecorded(arg, v, failed) ==
  /\ cin' = ~failed
  /\ round' = [round EXCEPT !.args = Append(@, v)]
  /\ record' = IF arg.kept /\ ~arg.checked THEN Recorded(record, v) ELSE record
  /\ UNCHANGED faithful

Keep(arg, v, failed) ==
  /\ cin' = ~failed
  /\ round' = [round EXCEPT !.args = Append(@, v)]
  /\ record' = IF arg.kept THEN Recorded(record, v) ELSE record
  /\ UNCHANGED faithful

(* Mutant: the keyboard is not cleared. *)
GiveUpFailed == cin' = FALSE /\ round' = Fresh /\ Loses /\ UNCHANGED record

(* The keyboard is cleared, and the command given up. *)
GiveUp == cin' = TRUE /\ round' = Fresh /\ Loses /\ UNCHANGED record

(* reset_cin looks at the keyboard alone, whatever the argument was read   *)
(* from: a script that has failed is not noticed, and the call is made.    *)
ReadArgument ==
  /\ round.at = "args" /\ Len(round.args) < Len(Wanted(round.op))
  /\ LET arg == Wanted(round.op)[Len(round.args) + 1]
         typed == IF arg.number THEN {Good, Zero} ELSE {File, Good, Bad}
         Takes(v, failed) == IF arg.checked /\ failed THEN GiveUp ELSE Keep(arg, v, failed)
     IN \E v \in Values :
          \/ arg.script /\ myin /\ FromScript(arg, v) /\ Takes(v, ~cin)
          \/ /\ ~(arg.script /\ myin) /\ FromKeyboard(typed, v)
             /\ Takes(v, ~cin \/ (arg.number /\ v = Zero))
  /\ UNCHANGED <<session, calls, made>>

(* The my_ function is called; anything else gets the list of operations.  *)
Call ==
  /\ round.at = "args" /\ Len(round.args) = Len(Wanted(round.op))
  /\ calls' = IF round.op \notin Op THEN calls
              ELSE Append(calls, [op |-> round.op, file |-> round.file, args |-> round.args])
  /\ round' = Fresh
  /\ IF FullyKept(round.op) THEN UNCHANGED faithful ELSE Loses
  /\ UNCHANGED <<session, script, myin, cin, record, made>>

(* "exit file" saves the record; the program is started again on it. *)
Exit ==
  /\ session = "first" /\ round.at = "op" /\ cin
  /\ session' = "replay"
  /\ script' = record /\ myin' = TRUE /\ cin' = TRUE
  /\ record' = <<>> /\ calls' = <<>> /\ made' = calls
  /\ Loses /\ UNCHANGED round

(* The script is done with: what the second session goes on to read from   *)
(* the keyboard is not followed.                                           *)
ScriptEnds ==
  /\ session = "replay" /\ round.at = "op" /\ ~myin
  /\ session' = "over"
  /\ UNCHANGED <<script, myin, cin, record, round, calls, made, faithful>>

Rest == session = "over" /\ UNCHANGED vars

Step == ReadOp \/ ReadFile \/ ReadArgument \/ Call \/ ScriptEnds
Next == Step \/ Exit \/ Rest

(* The loop goes on, for the user answers what is asked, and types exit    *)
(* again and again in the end.                                             *)
Spec == Init /\ [][Next]_vars /\ WF_vars(Step) /\ SF_vars(Exit)

-----------------------------------------------------------------------------
(* The streams, the record and the calls have their types. *)
Calls == [op: Op, file: Values, args: Seq(Values)]
TypeOK ==
  /\ session \in {"first", "replay", "over"}
  /\ script \in Seq(Values) /\ record \in Seq(Values \ {Nothing})
  /\ myin \in BOOLEAN /\ cin \in BOOLEAN
  /\ round \in [at: {"op", "file", "args"}, op: Values, file: Values, args: Seq(Values)]
  /\ Len(round.args) <= Len(Wanted(round.op))
  /\ calls \in Seq(Calls) /\ made \in Seq(Calls)
  /\ faithful \in Int

(* A dialogue that is played back makes the calls it was recorded with, up *)
(* to the first command of which the record has not all arguments, or that *)
(* was given up for a mistyped one.                                        *)
ReplayRepeats ==
  session \in {"replay", "over"} =>
    /\ \A k \in DOMAIN calls : k <= faithful => calls[k] = made[k]
    /\ session = "over" => Len(calls) >= faithful

(* A script comes to its end, whatever is in it. *)
ReplayEnds == session = "replay" ~> session = "over"

(* Any command, given up or made, leaves a user who goes on typing exit    *)
(* able to get out, unless it was one that takes a number and does not     *)
(* look whether it was given one: that leaves the keyboard failed for good. *)
Unchecked(op) == \E k \in DOMAIN Wanted(op) : Wanted(op)[k].number /\ ~Wanted(op)[k].checked
ExitUnlessUnchecked ==
  <>(session # "first" \/ \E k \in DOMAIN calls : Unchecked(calls[k].op) /\ ~cin)
=============================================================================
