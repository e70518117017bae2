SPECIFICATION FairSpec
INVARIANTS TypeOK NeverDead OneHandler
PROPERTIES KeysServed ShellStarts
