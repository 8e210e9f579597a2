\* A permission and a form of two fields open at once on one session, a runner that may die.
SPECIFICATION Spec
CONSTANTS
    permission = permission
    form = form
    Request = {permission, form}
    Form = {form}
    FIELDS = 2
    ANSWERS = 3
    SURFACES = 2
    INVALID = 1
    FAILURES = 1
INVARIANTS QueueIsWaitedFor ToldAsAnswered
CHECK_DEADLOCK FALSE
