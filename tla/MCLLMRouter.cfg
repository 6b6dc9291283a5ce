\* A chain of two providers, overlapping requests, traffic does not end.
CONSTANTS
    openai = openai
    anthropic = anthropic
    ollama = ollama
    Providers = {openai, anthropic}
    Responders = {openai}
    fallbackChains <- Chains
    Requests = {r1, r2}
    failureThreshold = 2
    successThreshold = 2
    openDuration = 1
    MaxFailures = 3
SPECIFICATION FairSpec
INVARIANTS
    TypeOK
    BreakersInOrder
    HonestCount
PROPERTIES
    KeepsPromise
    BreakerRecloses
    RequestEnds
