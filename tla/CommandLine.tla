----------------------------- MODULE CommandLine -----------------------------
(***************************************************************************)
(* Command::Parse and the dispatch of Command::Main (src/src/command.cc).  *)
(* An argument is an option or a file; getopt_long hands out the options   *)
(* in their order, wherever the files stand, one per step.                 *)
(***************************************************************************)
EXTENDS Integers, Sequences, FiniteSets

CONSTANTS
  Numbers,   \* the numbers given with --size; text that is none counts as 0
  MaxArgs,   \* bound: arguments on the command line
  Kilo,      \* 1024
  LongMax    \* the largest long

ASSUME CommandLineAssumption ==
  /\ Numbers \subseteq Int
  /\ MaxArgs \in Nat /\ Kilo \in Nat \ {0} /\ LongMax \in Nat

(* -r is the letter of a mode, and yet no option. *)
Flags == {"help", "verbose", "stat", "append", "r"}
Units == {"", "b", "k", "m", "g", "other"}

Flag == [opt : Flags \cup {"file"}, number : {0}, unit : {""}]
Size == [opt : {"size"}, number : Numbers, unit : Units]

VARIABLES
  args,      \* the command line
  i,         \* the argument getopt_long looks at next
  mode,
  verbose,
  size,
  status     \* "parsing", "false", "help" and "true" for what Parse returns,
             \* then what the process does: "read", "stat", "append", exit "0" or "1"

ovars == <<args, i, mode, verbose, size, status>>

OInit ==
  /\ args \in UNION {[1 .. n -> Flag \cup Size] : n \in 0 .. MaxArgs}
  /\ i = 1
  /\ mode = "unspecified" /\ verbose = FALSE /\ size = -1
  /\ status = "parsing"

-----------------------------------------------------------------------------
Option == args[i].opt

More == status = "parsing" /\ i <= Len(args)

Files == {j \in DOMAIN args : args[j].opt = "file"}

Then(s) == i' = i + 1 /\ status' = s

(* getopt_long moves the files behind the options. *)
SkipFile ==
  /\ More /\ Option = "file"
  /\ Then("parsing")
  /\ UNCHANGED <<args, mode, verbose, size>>

Help ==
  /\ More /\ Option = "help"
  /\ Then("help")
  /\ UNCHANGED <<args, mode, verbose, size>>

Verbose ==
  /\ More /\ Option = "verbose"
  /\ verbose' = TRUE
  /\ Then("parsing")
  /\ UNCHANGED <<args, mode, size>>

(* Bug: the last mode given wins. *)
OneModeOnly_Last == TRUE

OneModeOnly == mode = "unspecified"

SetMode ==
  /\ More /\ Option \in {"stat", "append"}
  /\ IF OneModeOnly
       THEN mode' = Option /\ Then("parsing")
       ELSE UNCHANGED mode /\ Then("false")
  /\ UNCHANGED <<args, verbose, size>>

(* A long that overflows wraps, as the machine multiplies. *)
Wrap(n) == ((n + LongMax + 1) % (2 * (LongMax + 1))) - (LongMax + 1)

Factor(unit) ==
  CASE unit = "k" -> Kilo
    [] unit = "m" -> Kilo * Kilo
    [] unit = "g" -> Kilo * Kilo * Kilo
    [] OTHER -> 1

(* strtol gives at most LongMax, and then sets errno; the number is tested  *)
(* before it is multiplied.                                                 *)
SetSize ==
  /\ More /\ Option = "size"
  /\ LET n == args[i].number
         unit == args[i].unit
     IN  IF n > LongMax THEN size' = LongMax /\ Then("false")
         ELSE IF n <= 0 \/ unit = "other" THEN size' = n /\ Then("false")
         ELSE size' = Wrap(n * Factor(unit)) /\ Then("parsing")
  /\ UNCHANGED <<args, mode, verbose>>

(* getopt_long gives '?' for what it does not know. *)
InvalidOption ==
  /\ More /\ Option = "r"
  /\ Then("false")
  /\ UNCHANGED <<args, mode, verbose, size>>

(* No option is left: the default mode, and the one file. *)
Finish ==
  /\ status = "parsing" /\ i > Len(args)
  /\ mode' = IF mode = "unspecified" THEN "read" ELSE mode
  /\ status' = IF Cardinality(Files) = 1 THEN "true" ELSE "false"
  /\ UNCHANGED <<args, i, verbose, size>>

(***************************************************************************)
(* Main.  After --help the mode may still be unspecified: then no case of  *)
(* the switch sets ok, which holds whatever it did.                        *)
(***************************************************************************)
Dispatch ==
  /\ \/ status = "false" /\ status' = "1"
     \/ status \in {"true", "help"} /\ mode # "unspecified" /\ status' = mode
     \/ status = "help" /\ mode = "unspecified" /\ status' \in {"0", "1"}
  /\ UNCHANGED <<args, i, mode, verbose, size>>

ONext ==
  \/ SkipFile \/ Help \/ Verbose \/ SetMode \/ SetSize \/ InvalidOption
  \/ Finish \/ Dispatch

OSpec == OInit /\ [][ONext]_ovars

-----------------------------------------------------------------------------
(* The arguments of one kind; of several sizes the last one counts. *)
Given(opts) == {j \in DOMAIN args : args[j].opt \in opts}

LastSize == CHOOSE j \in Given({"size"}) : \A k \in Given({"size"}) : k <= j

Ended == status \notin {"parsing", "help"} /\ Given({"help"}) = {}

Acceptable(j) == args[j].number \in 1 .. LongMax /\ args[j].unit # "other"

(* Refused: it names no file or several, two modes, an unknown option or a  *)
(* size that is not a positive number of known units.                       *)
Refused ==
  \/ Cardinality(Given({"file"})) # 1
  \/ Cardinality(Given({"stat", "append"})) > 1
  \/ Given({"r"}) # {}
  \/ \E j \in Given({"size"}) : ~Acceptable(j)

(* The bytes that an acceptable size stands for. *)
Bytes(arg) ==
  arg.number * (CASE arg.unit = "k" -> Kilo
                  [] arg.unit = "m" -> Kilo * Kilo
                  [] arg.unit = "g" -> Kilo * Kilo * Kilo
                  [] OTHER -> 1)

AsGiven ==
  /\ \A j \in Given({"stat", "append"}) : mode = args[j].opt
  /\ Given({"stat", "append"}) = {} => mode = "read"
  /\ verbose <=> Given({"verbose"}) # {}
  /\ Given({"size"}) = {} => size = -1
  /\ Given({"size"}) # {} /\ Bytes(args[LastSize]) <= LongMax => size = Bytes(args[LastSize])

(* A command line without --help either runs the command it asks for, as it *)
(* asks for it, or is refused, and exactly one that makes no sense is.      *)
OptionsAreFollowed ==
  Ended =>
    /\ status \in {"false", "1"} <=> Refused
    /\ ~Refused => AsGiven
=============================================================================
