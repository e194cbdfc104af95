--------------------------- MODULE MCProviderRouting ---------------------------
\* Every adapter the gateway builds is an OpenAIAdapter, whose ProviderName()
\* is "openai" whatever name the provider is configured under.
EXTENDS ProviderRouting

OneName     == [p \in Providers |-> "openai"]
OneWildcard == [p \in Providers |-> IF p = "openai" THEN {"*"} ELSE {"gpt"}]
================================================================================
