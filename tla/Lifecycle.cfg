\* Two resets, so that something of every epoch could outlive its own.
CONSTANT MaxResets = 2
SPECIFICATION Spec
INVARIANTS ResetForgets NeverStranded Coherent SubscriptionsResumed
