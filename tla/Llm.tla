-------------------------------- MODULE Llm --------------------------------
(***************************************************************************)
(* The LLM back-ends of the agent service (services/agents/llm.py): which  *)
(* of them make_chat_llm returns for the environment of a container, and   *)
(* the rule-based MockChatLLM.  Confidences are multiples of 1 / One.      *)
(***************************************************************************)
EXTENDS Naturals

CONSTANTS
  One,    \* 1.0
  Gate    \* 0.95 in the mock auditor's recommendation

\* LLM_PROVIDER in lower case, "" if unset, and which of the keys are there.
Environment ==
  [provider : {"", "mock", "openai", "gemini", "ollama", "other"},
   googleKey : BOOLEAN, openaiKey : BOOLEAN]

\* The provider make_chat_llm settles on.
Provider(env) ==
  IF env.provider # "" THEN env.provider
  ELSE IF env.googleKey THEN "gemini"
  ELSE IF env.openaiKey THEN "openai" ELSE "mock"

\* What it returns: the mock, a hosted model behind an API, a local Ollama
\* server, or nothing because it raises: a provider it does not know, or a client
\* that insists on its key.
Backend(env) ==
  CASE Provider(env) = "mock" -> "mock"
    [] Provider(env) = "gemini" -> IF env.googleKey THEN "hosted" ELSE "mock"
    [] Provider(env) = "openai" -> IF env.openaiKey THEN "hosted" ELSE "raises"
    [] Provider(env) = "ollama" -> "ollama"
    [] OTHER -> "raises"

\* Whether invoke gives up by itself: the hosted models are asked with
\* LLM_TIMEOUT_S, the mock asks nobody, and ChatOllama is made without a timeout.
HasTimeout(backend) == backend # "ollama"

AtMost(n, bound) == IF n > bound THEN bound ELSE n

\* _confidence_from_features, of abs(ofi) / 20_000 and realized_vol * 4.
MockConfidence(ofiShare, volShare) ==
  AtMost(One \div 2 + AtMost(ofiShare, (45 * One) \div 100)
                    + AtMost(volShare, (20 * One) \div 100), One)

\* The mock's "confidence={score:.2f}", which the auditor reads back: the
\* nearest hundredth, either one where there are two.
Printed(n) ==
  LET step == One \div 100
      below == n - (n % step)
  IN  IF 2 * (n % step) < step THEN {below}
      ELSE IF 2 * (n % step) > step THEN {below + step} ELSE {below, below + step}

\* Its recommendation, 'escalate' or 'monitor', looks at the score before it is
\* printed.
Escalates(n) == n >= Gate
=============================================================================
