---------------------------- MODULE MCComponents ----------------------------
\* The components that share no state with one another: one of them takes steps, the
\* others stay where they are.
EXTENDS GrowableArray, Timers, ThreadObject, ConstStrings, MCTryFinally,
  MCMirOptimizer, MCParser, MCExpressions, MCTypeChecker

MCLiterals == 1..3
MCContents == <<1, 1, 2>>
MCCacheIndex == <<1, 2, 1>>

VARIABLE part   \* the component that takes steps

suiteVars == <<part, arrayVars, timerVars, threadVars, constVars, tryVars, optVars, parserVars, exprVars,
               typingVars>>

\* One initial state of a component that has several, for while it stays.
ArrayStays ==
  /\ body = <<[data |-> <<>>, length |-> 0, cap |-> 0, forward |-> 0]>>
  /\ contents = <<>> /\ names = [v \in ArrayVar |-> 1] /\ fixed = FALSE /\ astray = FALSE
TryStays ==
  /\ source = Trying(None, None, None) /\ code = <<>> /\ place = <<1, 1>>
  /\ handlers = <<0>> /\ exc = 0
  /\ local = [id \in {1} |-> [unwinding |-> FALSE, saved |-> 0]]
  /\ choices = <<>> /\ trace = <<>> /\ outcome = None
OptimizerStays ==
  /\ original = Func(OfInts, <<NumStart \o NumEnd>>) /\ func = original
  /\ pass = 1 /\ changed = FALSE /\ round = 1
ParserStays ==
  /\ meant = Nothing /\ cursor = [toks |-> <<"eof">>, at |-> 1, errs |-> 0] /\ parsed = <<>>
ExprStays == tree = [is |-> "num", val |-> 1] /\ lowered = <<>> /\ computed = <<>>
TypingStays == program = <<>> /\ checker = Starts /\ phase = [is |-> "done", at |-> 1] /\ ends = {}

SuiteInit ==
  /\ part \in {"array", "timers", "thread", "literals", "try", "optimizer", "parser", "expression", "types"}
  /\ IF part = "array" THEN ArrayInit ELSE ArrayStays
  /\ IF part = "try" THEN TryInit ELSE TryStays
  /\ IF part = "optimizer" THEN OptInit ELSE OptimizerStays
  /\ IF part = "parser" THEN ParserInit ELSE ParserStays
  /\ IF part = "expression" THEN ExprInit ELSE ExprStays
  /\ IF part = "types" THEN TypingInit ELSE TypingStays
  /\ TimersInit /\ ThreadInit /\ ConstInit

SuiteNext ==
  \/ part = "array" /\ ArrayNext
     /\ UNCHANGED <<timerVars, threadVars, constVars, tryVars, optVars, parserVars, exprVars, typingVars>>
  \/ part = "timers" /\ TimersNext
     /\ UNCHANGED <<arrayVars, threadVars, constVars, tryVars, optVars, parserVars, exprVars, typingVars>>
  \/ part = "thread" /\ ThreadNext
     /\ UNCHANGED <<arrayVars, timerVars, constVars, tryVars, optVars, parserVars, exprVars, typingVars>>
  \/ part = "literals" /\ ConstNext
     /\ UNCHANGED <<arrayVars, timerVars, threadVars, tryVars, optVars, parserVars, exprVars, typingVars>>
  \/ part = "try" /\ TryNext
     /\ UNCHANGED <<arrayVars, timerVars, threadVars, constVars, optVars, parserVars, exprVars, typingVars>>
  \/ part = "optimizer" /\ OptNext
     /\ UNCHANGED <<arrayVars, timerVars, threadVars, constVars, tryVars, parserVars, exprVars, typingVars>>
  \/ part = "parser" /\ ParserNext
     /\ UNCHANGED <<arrayVars, timerVars, threadVars, constVars, tryVars, optVars, exprVars, typingVars>>
  \/ part = "expression" /\ ExprNext
     /\ UNCHANGED <<arrayVars, timerVars, threadVars, constVars, tryVars, optVars, parserVars, typingVars>>
  \/ part = "types" /\ TypingNext
     /\ UNCHANGED <<arrayVars, timerVars, threadVars, constVars, tryVars, optVars, parserVars, exprVars>>

SuiteSpec == SuiteInit /\ [][SuiteNext /\ UNCHANGED part]_suiteVars

=============================================================================
