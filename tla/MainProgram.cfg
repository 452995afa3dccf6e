SPECIFICATION FairSpec
CONSTANTS
    MAX_FAILURES = 2
    StaticIp = TRUE
    MaxEvents = 4
INVARIANTS TypeOK ConnectsWhenIdle AttemptsSound
PROPERTIES ServerErrorEndsProgram AddressIsServed
