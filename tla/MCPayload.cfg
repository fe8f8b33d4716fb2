SPECIFICATION Spec
CONSTANT
    Domain <- Fields
PROPERTIES
    ValuesStay
    OrderIrrelevant
