----------------------------- MODULE Providers -----------------------------
(***************************************************************************)
(* Which company a call to a model goes to, and with whose model.  The      *)
(* validator accepts or refuses a configuration when the program starts;    *)
(* the factory picks a client and the router a model, each on its own, from *)
(* the same settings.                                                       *)
(***************************************************************************)
EXTENDS FiniteSets

VARIABLES
    config,  \* the settings
    phase,   \* "loading", "refused" or "running"
    call     \* the last call: its task, the client and the model it got

vars == <<config, phase, call>>

Companies == {"deepseek", "ark", "zhipu"}

(* A configuration.  "written" tells AI_PROVIDER as the validator and the    *)
(* services compare it, from what is left when it is stripped and lowered:   *)
(* the factory and the router compare that.  "endpoints": those of ark are   *)
(* set.  "sound": the settings that have nothing to do with providers pass.  *)
ConfigType == [production : BOOLEAN, sound : BOOLEAN,
               provider : {"mock", "deepseek", "ark", "other"}, written : {"exactly", "otherwise"},
               vision : {"", "mock", "zhipu", "doubao", "other"},
               keys : SUBSET Companies, endpoints : BOOLEAN]

Tasks == {"text", "describe", "extract", "structure"}
Destinations == Companies \cup {"mock", "rules", "none"}
NoCall == [task |-> "none", client |-> "none", model |-> "none"]

TypeOK == /\ config \in ConfigType
          /\ phase \in {"loading", "refused", "running"}
          /\ call \in [task : Tasks \cup {"none"}, client : Destinations, model : Destinations]

Init == /\ config \in ConfigType
        /\ phase = "loading"
        /\ call = NoCall

-----------------------------------------------------------------------------
(* Starting                                                                 *)

Is(c, provider) == c.provider = provider /\ c.written = "exactly"

\* validate_production_secrets: only in production, and only what is written exactly.
Accepted(c) == c.production => /\ c.sound
                               /\ ~Is(c, "mock")
                               /\ Is(c, "deepseek") => "deepseek" \in c.keys

Start == /\ phase = "loading"
         /\ phase' = IF Accepted(config) THEN "running" ELSE "refused"
         /\ UNCHANGED <<config, call>>

-----------------------------------------------------------------------------
(* The factory and the router                                               *)

\* get_ai_client: "none" when it raises.
TextClient(c) == IF c.provider = "mock" THEN "mock"
                 ELSE IF c.provider \in {"deepseek", "ark"} \cap c.keys THEN c.provider
                 ELSE "none"

\* get_vision_client.
DescribeClient(c) == IF c.vision = "doubao" /\ "ark" \in c.keys THEN "ark"
                     ELSE IF "zhipu" \in c.keys THEN "zhipu"
                     ELSE TextClient(c)

\* ModelRouter for every task of text; an endpoint of ark that is not set raises.
TextModel(c) == IF c.provider \in {"mock", "deepseek"} THEN c.provider
                ELSE IF c.endpoints THEN "ark" ELSE "none"

\* Seeded bug: zhipu goes first, as it did before doubao was added.
DescribeModelZhipuFirst(c) ==
    IF c.provider # "deepseek" THEN TextModel(c)
    ELSE IF "zhipu" \in c.keys THEN "zhipu"
    ELSE IF c.vision = "doubao" /\ "ark" \in c.keys THEN "ark" ELSE "deepseek"

\* ModelRouter for PRODUCT_UNDERSTAND.
DescribeModel(c) ==
    IF c.provider # "deepseek" THEN TextModel(c)
    ELSE IF c.vision = "doubao" /\ "ark" \in c.keys THEN "ark"
    ELSE IF "zhipu" \in c.keys THEN "zhipu" ELSE "deepseek"

\* get_vision_extract_client: it brings its model along.
ExtractClient(c) ==
    LET provider == IF c.vision # "" THEN c.vision
                    ELSE IF c.provider # "mock" /\ "zhipu" \in c.keys THEN "zhipu"
                    ELSE c.provider
    IN  CASE provider = "mock" -> "mock"
          [] provider = "zhipu" /\ "zhipu" \in c.keys -> "zhipu"
          [] provider = "doubao" /\ "ark" \in c.keys -> "ark"
          [] OTHER -> "none"

-----------------------------------------------------------------------------
(* Calls                                                                    *)

Calls(task, client, model) ==
    /\ phase = "running"
    /\ call' = [task |-> task, client |-> client, model |-> model]
    /\ UNCHANGED <<config, phase>>

\* The services go to a model for these two only when AI_PROVIDER is written exactly; the
\* rules answer otherwise.
WithModel(c) == Is(c, "ark") \/ Is(c, "deepseek")

Text == IF WithModel(config) THEN Calls("text", TextClient(config), TextModel(config))
        ELSE Calls("text", "rules", "rules")

Describe == /\ WithModel(config)
            /\ Calls("describe", DescribeClient(config), DescribeModel(config))

Extract == Calls("extract", ExtractClient(config), ExtractClient(config))

\* The second step of an extract in the mode "vision_text", always with deepseek's model.
Structure == /\ ExtractClient(config) \in Companies
             /\ Calls("structure", TextClient(config), "deepseek")

Next == Start \/ Text \/ Describe \/ Extract \/ Structure

Spec == Init /\ [][Next]_vars

-----------------------------------------------------------------------------
(* Properties                                                               *)

(* A client of a company is only made with its key.  In production, with     *)
(* AI_PROVIDER "deepseek" written exactly, no call for text or for a         *)
(* description fails for want of a client or a model or is answered by rules *)
(* or mocks, and client and model are always of one company, also for the    *)
(* tasks where factory and router choose among several (validator, factory,  *)
(* ModelRouter, get_vision_extract_client).                                  *)
ProvidersUsable ==
    /\ call.client \in Companies => call.client \in config.keys
    /\ (config.production /\ Is(config, "deepseek") /\ call # NoCall) =>
         /\ call.client = call.model
         /\ call.task \in {"text", "describe", "structure"} => call.client \in Companies
         /\ call.task = "text" => call.client = "deepseek"
=============================================================================
