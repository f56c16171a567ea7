\* docs/jobs-tab.md of dry runs and the cooldown: not what the executor's records do.
SPECIFICATION Spec
INVARIANT DryRunsDoNotCool
CHECK_DEADLOCK FALSE
