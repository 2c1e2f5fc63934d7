SPECIFICATION Spec
CONSTANTS
    Versions = {1, 2}
    Numbers <- SomeNumbers
    Pairs <- SomePairs
INVARIANTS TypeOK ShownCanBeTyped  ViewsAgree
